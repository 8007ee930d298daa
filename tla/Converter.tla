----------------------------- MODULE Converter -----------------------------
(***************************************************************************)
(* tcg-prof-convert (convert/src): one run of the guest under the plugin,  *)
(* then one conversion of its profile.                                     *)
(*                                                                         *)
(* The guest's run is the reference: the sequence `log` of the blocks its  *)
(* vCPUs entered.  What the plugin makes of it is taken from the other     *)
(* modules: a branch edge per transfer that is no fall-through, in one     *)
(* batch per flush, none lost (EdgeRelay and StreamFlush say which are),   *)
(* fall-throughs derived from executions and branch entries, direct calls  *)
(* weighted with the execution count of their block (DirectCalls),         *)
(* indirect calls, and the first-seen numbers that first_seen_cb draws and *)
(* stores (Hotness).                                                       *)
(*                                                                         *)
(* The conversion: native::parse, require_tier, ElfIndex::from_file, emit. *)
(* Each may fail.  The binary is loaded where it was linked.  The order of *)
(* the lines of an output, other than a temporal trace's, is left out, and *)
(* a weight of 0 stands for no line.                                       *)
(***************************************************************************)
EXTENDS ElfIndex, EdgeTables, DirectCalls, SequencesExt

CONSTANTS
    Workloads,    \* binaries with a guest run: see the assumptions
    MaxBatches    \* bound: batches of branch edges in a profile

(* compute_fall_throughs: the end of the block inserted last for each address. *)
Predecessors(tbs) ==
    {f \in [{b.fall_through_addr : b \in tbs} -> {b.end : b \in tbs}] :
        \A s \in DOMAIN f : \E b \in tbs : b.fall_through_addr = s /\ b.end = f[s]}

(* A block's `end` is its last instruction; `succ` are the starts of the   *)
(* blocks that may follow; `retrans` blocks may be translated again;       *)
(* `last` and `pred` are the orders the sort and the walk over tb_map at   *)
(* exit leave; `len` bounds the guest's run.                               *)
ASSUME WorkloadsAssumption ==
    \A w \in Workloads :
        /\ w.symbols \in Seq([func : BOOLEAN, value : Nat, size : Nat, name : DOMAIN NameLen])
        /\ w.segments \in Seq([exec : BOOLEAN, vaddr : Nat]) /\ w.load_addr \in Nat
        /\ w.tier \in 0 .. 3 /\ w.len \in Nat /\ w.retrans \subseteq w.tbs
        /\ IsFiniteSet(w.vcpus)
ASSUME BlocksAssumption ==
    \A w \in Workloads :
        /\ IsFiniteSet(w.tbs)
        /\ \A b \in w.tbs : /\ b.start \in 0 .. AddrSpace - 1 /\ b.end \in 1 .. AddrSpace - 1
                            /\ b.start <= b.end /\ b.end < b.fall_through_addr
                            /\ b.kind \in {"other", "direct", "indirect"}
                            /\ b.kind = "direct" => b.target \in b.succ
                            /\ \A c \in w.tbs : b.end = c.end => b.kind = c.kind
        /\ w.last \in LastAtStart(w.tbs) /\ w.pred \in Predecessors(w.tbs)
ASSUME MaxBatchesAssumption == MaxBatches \in Nat \ {0}

Formats == {"bolt", "autofdo", "gcc-autofdo", "cgprof", "temporal", "dump"}

VARIABLES
    work,      \* the workload
    log,       \* history: the blocks entered, by which vCPU, from where, the number drawn
    at,        \* at[v]: the block v is in (a sequence of at most one)
    bare,      \* blocks translated again: without first_seen_cb
    call,      \* call[v]: where in the log the entry is whose first_seen_cb v runs, or 0
    counter,   \* sequence_counter
    seq,       \* seq[b]: first_seen_seq
    batches,   \* branch edges of the profile, a table per batch
    phase,     \* where the converter is
    format,    \* the subcommand
    edges,     \* profile.branch_edges
    pos,       \* symbols of the ELF read so far
    index,     \* ElfIndex.symbols
    output     \* the output file

guest == <<log, at, bare, call, counter, seq, batches>>
vars == <<work, guest, phase, format, edges, pos, index, output>>

OldOutput == [state |-> "old"]

Ends == {b.end : b \in work.tbs}
Starts == {b.start : b \in work.tbs}
Edges == Ends \X Starts

Init ==
    /\ work \in Workloads
    /\ log = <<>>
    /\ at = [v \in work.vcpus |-> <<>>]
    /\ bare = {}
    /\ call = [v \in work.vcpus |-> 0]
    /\ counter = 1
    /\ seq = [b \in work.tbs |-> 0]
    /\ batches = <<EmptyTable(Edges)>>
    /\ phase = "guest"
    /\ format = "dump"
    /\ edges = EmptyTable(Edges)
    /\ pos = 0
    /\ index = <<>>
    /\ output = OldOutput
-----------------------------------------------------------------------------
(* A vCPU is about to enter block b and has not run it before. *)
OwnFirst(v, b) == ~ \E i \in DOMAIN log : log[i].vcpu = v /\ log[i].tb = b

(***************************************************************************)
(* A vCPU enters a block.  A transfer that is no fall-through is an edge,  *)
(* in the batch that the vCPU's table will be drained into; first_seen_cb  *)
(* runs if the translation has it and the vCPU's own count is now 1.       *)
(***************************************************************************)
EnterBlock(v, b) ==
    /\ phase = "guest"
    /\ call[v] = 0
    /\ Len(log) < work.len
    /\ at[v] # <<>> => b.start \in at[v][1].succ
    /\ log' = Append(log, [vcpu |-> v, tb |-> b, from |-> at[v], num |-> 0])
    /\ at' = [at EXCEPT ![v] = <<b>>]
    /\ call' = [call EXCEPT ![v] = IF b \notin bare /\ OwnFirst(v, b) THEN Len(log) + 1 ELSE 0]
    /\ IF at[v] # <<>> /\ work.tier >= 1 /\ at[v][1].fall_through_addr # b.start
       THEN \E i \in DOMAIN batches :
               batches' = [batches EXCEPT ![i] = Bump(@, <<at[v][1].end, b.start>>)]
       ELSE UNCHANGED batches
    /\ UNCHANGED <<work, bare, counter, seq, phase, format, edges, pos, index, output>>

(* instrument_tb finds the block in tb_map and registers the counter only. *)
Retranslate(b) ==
    /\ phase = "guest"
    /\ b \in work.retrans \ bare
    /\ bare' = bare \cup {b}
    /\ UNCHANGED <<work, log, at, call, counter, seq, batches, phase, format, edges, pos, index, output>>

(* first_seen_cb: sequence_counter.fetch_add(1), ... *)
FetchSeq(v) ==
    /\ call[v] # 0
    /\ log[call[v]].num = 0
    /\ log' = [log EXCEPT ![call[v]].num = counter]
    /\ counter' = counter + 1
    /\ UNCHANGED <<work, at, bare, call, seq, batches, phase, format, edges, pos, index, output>>

(* ... first_seen_seq.store(seq), over the number another vCPU has stored. *)
StoreSeq(v) ==
    /\ call[v] # 0
    /\ log[call[v]].num # 0
    /\ seq' = [seq EXCEPT ![log[call[v]].tb] = log[call[v]].num]
    /\ call' = [call EXCEPT ![v] = 0]
    /\ UNCHANGED <<work, log, at, bare, counter, batches, phase, format, edges, pos, index, output>>

(* A full streaming table is written out and a new one begun. *)
FlushEdges ==
    /\ phase = "guest"
    /\ Len(batches) < MaxBatches
    /\ Keys(Last(batches)) # {}
    /\ batches' = Append(batches, EmptyTable(Edges))
    /\ UNCHANGED <<work, log, at, bare, call, counter, seq, phase, format, edges, pos, index, output>>

(* Where the log has block b. *)
Executions(b) == {i \in DOMAIN log : log[i].tb = b}
ExecCount(b) == Cardinality(Executions(b))

(* The entries that took a branch edge; those from a block with end e to one at s. *)
Branched == {i \in DOMAIN log : log[i].from # <<>> /\ log[i].from[1].fall_through_addr # log[i].tb.start}
Taken(e, s) == {i \in Branched : log[i].from[1].end = e /\ log[i].tb.start = s}

(* merge_edges: records of the same edge are summed. *)
MergeEdges(tables) ==
    [e \in DOMAIN tables[1] |-> SumFunction([i \in DOMAIN tables |-> tables[i][e]])]

(* Mutant: the entries that were flushed are forgotten. *)
FallThroughCount_Unflushed(b) ==
    LET branch == EntriesInto(Last(batches), b.start)
    IN  IF ExecCount(b) > branch THEN ExecCount(b) - branch ELSE 0

(* compute_fall_throughs: total_exec.saturating_sub(branch_count), all batches counted. *)
FallThroughCount(b) ==
    LET branch == EntriesInto(MergeEdges(batches), b.start)
    IN  IF ExecCount(b) > branch THEN ExecCount(b) - branch ELSE 0

(* Records of the profile other than its branch edges.  Fall-throughs: a record *)
(* for each block whose start has a predecessor, merged by the reader.          *)
FallThroughs ==
    [e \in Edges |->
        IF work.tier >= 1 /\ e[2] \in DOMAIN work.pred /\ work.pred[e[2]] = e[1]
        THEN SumFunctionOnSet([b \in work.tbs |-> FallThroughCount(b)], {b \in work.tbs : b.start = e[2]})
        ELSE 0]
DirectCallRecords ==
    IF work.tier < 2 THEN <<>>
    ELSE [c \in {<<b.end, b.target>> : b \in {b \in work.tbs : b.kind = "direct"}} |->
             [callsite |-> c[1], target |-> c[2],
              count |-> CallCount(work.last, [b \in work.tbs |-> ExecCount(b)], c[1])]]
IndirectCallRecords ==
    IF work.tier < 2 THEN <<>>
    ELSE [e \in {b.end : b \in {b \in work.tbs : b.kind = "indirect"}} \X Starts |->
             [callsite |-> e[1], target |-> e[2], count |-> Cardinality(Taken(e[1], e[2]))]]
-----------------------------------------------------------------------------
(* plugin_exit, when no vCPU is in a callback; then the command line names a *)
(* subcommand; cgsort is cgprof.                                             *)
Start(f) ==
    /\ phase = "guest"
    /\ \A v \in work.vcpus : call[v] = 0
    /\ phase' = "parse"
    /\ format' = f
    /\ UNCHANGED <<work, guest, edges, pos, index, output>>

(* native::parse; dump then only prints. *)
Parse ==
    /\ phase = "parse"
    /\ phase' = IF format = "dump" THEN "done" ELSE "tier"
    /\ edges' = MergeEdges(batches)
    /\ UNCHANGED <<work, guest, format, pos, index, output>>

(* Any step's error ends the command. *)
Fail(stage) ==
    /\ phase = stage
    /\ phase' = "failed"
    /\ UNCHANGED <<work, guest, format, edges, pos, index, output>>

(* No such file, bad magic, unsupported version or pointer size. *)
ParseFails == Fail("parse")

MinTier(f) == IF f = "temporal" THEN 0 ELSE 1

(* require_tier *)
RequireTier ==
    /\ phase = "tier"
    /\ phase' = IF work.tier < MinTier(format) THEN "failed" ELSE "elf"
    /\ UNCHANGED <<work, guest, format, edges, pos, index, output>>

(* ElfIndex::from_file: the file is read and parsed, ... *)
OpenElf ==
    /\ phase = "elf"
    /\ phase' = "symbols"
    /\ UNCHANGED <<work, guest, format, edges, pos, index, output>>

ElfFails == Fail("elf")

(* ... its symbols are indexed one by one ... *)
IndexSymbol ==
    /\ phase = "symbols"
    /\ pos < Len(work.symbols)
    /\ pos' = pos + 1
    /\ index' = AddSymbol(index, work.symbols[pos + 1])
    /\ UNCHANGED <<work, guest, phase, format, edges, output>>

(* ... and missing sizes inferred. *)
FinishIndex ==
    /\ phase = "symbols"
    /\ pos = Len(work.symbols)
    /\ index' = InferSizes(index)
    /\ phase' = "emit"
    /\ UNCHANGED <<work, guest, format, edges, pos, output>>
-----------------------------------------------------------------------------
(* The emitters take the name [unknown] for no symbol. *)
Names == {index[a].name : a \in DOMAIN index} \ {Unknown}

(* Records and lines come in families: equal ones stay apart, and the index *)
(* is not written.  The total of those at K.                                *)
Total(lines, K) == SumFunctionOnSet([k \in DOMAIN lines |-> lines[k].count], K)

(* The runtime base of the profile's header, else the binary's. *)
Base == IF work.load_addr # 0 THEN work.load_addr ELSE LoadAddr(work.segments)

(* wrapping_sub(base) *)
Offset(a) == (a - Base) % AddrSpace

(* Lines of an edge section; lines of the range section. *)
EdgeLines(t) == [e \in Keys(t) |-> [from |-> Offset(e[1]), to |-> Offset(e[2]), count |-> t[e]]]
RangeLines ==
    [b \in {b \in work.tbs : ExecCount(b) > 0} |->
        [from |-> Offset(b.start), to |-> Offset(b.end), count |-> ExecCount(b)]]

(* bolt::emit, autofdo::emit, gcc_autofdo::emit *)
EmitBolt == [branches |-> EdgeLines(edges), falls |-> EdgeLines(FallThroughs)]
EmitAutofdo == [ranges |-> RangeLines, branches |-> EdgeLines(edges)]
EmitGccAutofdo == [ranges |-> RangeLines, addresses |-> <<>>, branches |-> EdgeLines(edges)]

(* Mutant: edges inside a function count as well. *)
CrossEdges_All(f, g) ==
    {e \in Edges : NameAt(index, e[1]) = f /\ NameAt(index, e[2]) = g}
(* The edges from function f to another function g. *)
CrossEdges(f, g) ==
    {e \in Edges : f # g /\ NameAt(index, e[1]) = f /\ NameAt(index, e[2]) = g}

(* The calls from function f to function g. *)
Between(calls, f, g) ==
    {k \in DOMAIN calls : NameAt(index, calls[k].callsite) = f /\ NameAt(index, calls[k].target) = g}
Resolved(calls) == {k \in DOMAIN calls : calls[k].target # 0}

(* cgprof::emit: direct calls, resolved indirect calls, edges between functions. *)
EmitCgprof ==
    [p \in Names \X Names |->
        Total(DirectCallRecords, Between(DirectCallRecords, p[1], p[2]))
        + Total(IndirectCallRecords,
                Between(IndirectCallRecords, p[1], p[2]) \cap Resolved(IndirectCallRecords))
        + SumFunctionOnSet(edges, CrossEdges(p[1], p[2]))]

(* Mutant: blocks without a number are not skipped. *)
Numbered_All(name) ==
    {b \in work.tbs : ExecCount(b) > 0 /\ NameAt(index, b.start) = name}
(* The blocks of a function that count for its place in the trace. *)
Numbered(name) ==
    {b \in work.tbs : ExecCount(b) > 0 /\ seq[b] # 0 /\ NameAt(index, b.start) = name}

(* func_first_seen: the functions of the trace, and the smallest number of each. *)
Funcs == {n \in Names : Numbered(n) # {}}
FuncFirstSeen(n) ==
    CHOOSE q \in {seq[b] : b \in Numbered(n)} : \A b \in Numbered(n) : q <= seq[b]

(* temporal::emit: the functions sorted by that number. *)
EmitTemporal ==
    CHOOSE trace \in [1 .. Cardinality(Funcs) -> Funcs] :
        \A i, j \in DOMAIN trace : i < j => FuncFirstSeen(trace[i]) < FuncFirstSeen(trace[j])

Content ==
    CASE format = "bolt" -> EmitBolt
      [] format = "autofdo" -> EmitAutofdo
      [] format = "gcc-autofdo" -> EmitGccAutofdo
      [] format = "cgprof" -> EmitCgprof
      [] format = "temporal" -> EmitTemporal

(* Mutant: the error of the final flush is dropped. *)
WriteFails_Ignored ==
    /\ phase = "emit"
    /\ output' = [state |-> "partial"]
    /\ phase' = "done"
    /\ UNCHANGED <<work, guest, format, edges, pos, index>>

(* emit: the output is created, which empties it, and written. *)
Emit ==
    /\ phase = "emit"
    /\ output' = [state |-> "complete", content |-> Content]
    /\ phase' = "done"
    /\ UNCHANGED <<work, guest, format, edges, pos, index>>

CreateFails == Fail("emit")

(* A write or the final flush fails: what was written stays. *)
WriteFails ==
    /\ phase = "emit"
    /\ output' = [state |-> "partial"]
    /\ phase' = "failed"
    /\ UNCHANGED <<work, guest, format, edges, pos, index>>

Next ==
    \/ \E v \in work.vcpus, b \in work.tbs : EnterBlock(v, b)
    \/ \E b \in work.tbs : Retranslate(b)
    \/ \E v \in work.vcpus : FetchSeq(v) \/ StoreSeq(v)
    \/ FlushEdges
    \/ \E f \in Formats : Start(f)
    \/ Parse \/ ParseFails
    \/ RequireTier
    \/ OpenElf \/ ElfFails \/ IndexSymbol \/ FinishIndex
    \/ Emit \/ CreateFails \/ WriteFails

Spec == Init /\ [][Next]_vars
-----------------------------------------------------------------------------
(* The indexable symbols at address a among the first n of a table. *)
At(symbols, n, a) == {i \in 1 .. n : Indexable(symbols[i]) /\ symbols[i].value = a}
(* Those worth keeping: with a size if there are such, and with the longest name. *)
Best(symbols, n, a) ==
    LET sized == {i \in At(symbols, n, a) : symbols[i].size > 0}
        pool == IF sized # {} THEN sized ELSE At(symbols, n, a)
    IN  {i \in pool : \A j \in pool : NameLen[symbols[j].name] <= NameLen[symbols[i].name]}

(***************************************************************************)
(* Whatever the order of the ELF's symbols, the index holds at each        *)
(* address the best of those read so far: one with a size before one       *)
(* without, then the longest name, and of equals the first.  Keeping only  *)
(* the current best never loses the overall best.                          *)
(***************************************************************************)
IndexBest ==
    phase = "symbols" =>
        /\ \A i \in 1 .. pos :
              Indexable(work.symbols[i]) => work.symbols[i].value \in DOMAIN index
        /\ \A a \in DOMAIN index :
              LET best == Best(work.symbols, pos, a)
              IN  \E i \in best : index[a] = work.symbols[i] /\ \A j \in best : i <= j

ElfFunctions == {s \in ToSet(work.symbols) : Indexable(s)}
Covers(s, a) == s.value <= a /\ a < s.value + s.size

(* No function starts inside another; aliases agree on the size; none *)
(* reaches the end of the address space.                              *)
Separate ==
    \A s, t \in ElfFunctions :
        /\ s.value + s.size < AddrSpace
        /\ Covers(s, t.value) => t.value = s.value /\ (t.size = 0 \/ t.size = s.size)

(***************************************************************************)
(* In a binary of separate functions every address inside one is given its *)
(* name (or an alias's).  In any binary an address outside all functions   *)
(* gets a name only from a symbol that has no size, and then from the      *)
(* nearest symbol below it.                                                *)
(***************************************************************************)
LookupExact ==
    phase \in {"emit", "done"} /\ format # "dump" =>
        \A a \in 0 .. AddrSpace - 1 :
            LET covering == {s \in ElfFunctions : Covers(s, a)}
                name == NameAt(index, a)
            IN  /\ Separate /\ covering # {} => name \in {s.name : s \in covering}
                /\ covering = {} /\ name # Unknown =>
                      \E s \in ElfFunctions :
                          /\ s.name = name /\ s.size = 0
                          /\ s.value <= a /\ a - s.value < SizeCap
                          /\ \A t \in ElfFunctions : t.value <= a => t.value <= s.value

Written(f) == format = f /\ output.state = "complete"
(* Entries of the log: transfers from function f to function g. *)
Moves(f, g) ==
    {i \in Branched : /\ NameAt(index, log[i].from[1].end) = f
                      /\ NameAt(index, log[i].tb.start) = g}
(* What tier 2 takes for calls from f to g: executions of a direct one, *)
(* transfers out of an indirect one.                                    *)
DirectCallsBetween(f, g) ==
    {i \in DOMAIN log : /\ log[i].tb.kind = "direct"
                        /\ NameAt(index, log[i].tb.end) = f /\ NameAt(index, log[i].tb.target) = g}
IndirectCallsBetween(f, g) == {i \in Moves(f, g) : log[i].from[1].kind = "indirect"}

(***************************************************************************)
(* The call graph's weights: between two functions each transfer counts    *)
(* once and each call, being a branch edge too, a second time from tier 2  *)
(* on; inside a function only calls count.  A conditional direct call      *)
(* counts whether it is taken or not.  Splitting the edges over batches    *)
(* changes nothing.  No block starts inside one that ends in a direct      *)
(* call: with overlapping blocks the call's weight is another's.           *)
(***************************************************************************)
CallGraphWeights ==
    Written("cgprof") /\ (\A b \in work.tbs : b.kind = "direct" => Unshadowed(work.tbs, b, b.end)) =>
        \A f, g \in Names :
            output.content[<<f, g>>] =
                (IF f # g THEN Cardinality(Moves(f, g)) ELSE 0)
                + (IF work.tier >= 2
                   THEN Cardinality(DirectCallsBetween(f, g)) + Cardinality(IndirectCallsBetween(f, g)) ELSE 0)

Entered(f) == {i \in DOMAIN log : NameAt(index, log[i].tb.start) = f}
FirstEntry(f) == CHOOSE i \in Entered(f) : \A j \in Entered(f) : i <= j

(***************************************************************************)
(* The temporal trace names every function of which some entry drew a      *)
(* number, once, and puts g behind f although g was entered first only if  *)
(* that entry drew no number (the block had been translated again), or     *)
(* another vCPU drew one for the same block, or another vCPU entered f     *)
(* before this one went on to its next block.                              *)
(***************************************************************************)
TemporalTrace ==
    Written("temporal") =>
        LET trace == output.content
            drew == {k \in DOMAIN log : log[k].num # 0}
        IN  /\ ToSet(trace) = {NameAt(index, log[k].tb.start) : k \in drew} \ {Unknown}
            /\ \A i, j \in DOMAIN trace : i < j =>
                  LET f == trace[i]
                      p == FirstEntry(trace[j])
                  IN  /\ f # trace[j]
                      /\ p < FirstEntry(f) /\ p \in drew =>
                            \E k \in drew :
                                /\ log[k].vcpu # log[p].vcpu
                                /\ \/ log[k].tb = log[p].tb
                                   \/ /\ k \in Entered(f)
                                      /\ \A r \in p + 1 .. k : log[r].vcpu # log[p].vcpu

(***************************************************************************)
(* Flow is conserved through batches, merging and the subtraction of the   *)
(* base: the branch lines into a block add up to the times it was branched *)
(* to, and ranges to all its executions.  Fall-through lines into a start  *)
(* add up to the entries by fall-through and as a vCPU's first block,      *)
(* where some block precedes it and only one begins there; otherwise to no *)
(* more than that.                                                         *)
(***************************************************************************)
FlowConserved ==
    \A f \in {"bolt", "autofdo", "gcc-autofdo"} : Written(f) =>
        \A s \in Starts :
            LET entries == {i \in DOMAIN log : log[i].tb.start = s}
                blocks == {b \in work.tbs : b.start = s}
                into(lines) == Total(lines, {k \in DOMAIN lines : lines[k].to = Offset(s)})
            IN  /\ into(output.content.branches) = Cardinality(entries \cap Branched)
                /\ f = "bolt" =>
                      /\ into(output.content.falls) <= Cardinality(entries \ Branched)
                      /\ Cardinality(blocks) = 1 /\ (\E b \in work.tbs : b.fall_through_addr = s) =>
                            into(output.content.falls) = Cardinality(entries \ Branched)
                /\ f # "bolt" =>
                      LET ranges == output.content.ranges
                      IN  Total(ranges, {k \in DOMAIN ranges : ranges[k].from = Offset(s)})
                            = Cardinality(entries)

(***************************************************************************)
(* A command that succeeds has written all of its output; one that fails   *)
(* leaves the old output, unless its profile was of a sufficient tier, the *)
(* binary was indexed and writing itself failed.                           *)
(***************************************************************************)
OutputIntact ==
    /\ phase = "done" /\ format # "dump" => output.state = "complete"
    /\ output # OldOutput => work.tier >= MinTier(format) /\ pos = Len(work.symbols)
=============================================================================
