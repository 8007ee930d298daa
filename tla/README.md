# A TLA+ verification project for qemu-profiler

qemu-profiler is a QEMU TCG plugin (`plugin/`) that collects execution profiles
of guest programs, and a converter (`convert/`) that turns the plugin's native
profile into the input formats of compilers and linkers. This directory holds
TLA+ models of the parts in which threads, callbacks, failures and exit-time
derivations meet, of the decoder and of the converter, TLC configurations that
check them on small instances, and TLAPS proofs for every instance.

## 1. Inventory

| Part | State | Operations | Correct when |
|---|---|---|---|
| `PerVcpuStore`, `ensure_vcpu_state` (`state.rs`) | atomic `len`, 256 atomic pointers, one table for edges, one for indirect calls | `push`, `len`, `get_mut`, `iter_mut`; `vcpu_init` on each vCPU thread | a slot is written once; each vCPU finds its slot; the table does not run out |
| `EdgeAccumulator` (`edge_storage.rs`) | one hash map per vCPU | `record`, `prune`, `should_flush`, `drain` | no count invented; bounded memory; hot edges kept |
| Tier 0 (`tier0.rs`) | `tb_map`, a scoreboard per block, `sequence_counter`, `first_seen_seq` | `instrument_tb`, inline ADD, `first_seen_cb`, `flush_cb` | counts exact; first-seen order meaningful |
| Tiers 1, 2 (`tier1.rs`, `tier2.rs`) | `VcpuState` scoreboard (three addresses per vCPU) | inline stores, `branch_taken_cb`, `compute_fall_throughs` | edges, fall-throughs and indirect calls are those that happened |
| Writer life cycle (`lib.rs`, `state.rs`) | `writer_initialized`, `writer`, `flushed_branch_entries` | `init_writer_if_needed`, `record_edge`, `flush_edges`, `plugin_exit` | file created once; nothing counted twice or forgotten |
| Native profile (`output.rs`, `native.rs`) | buffered file, totals | `write_*`, `parse` | a cut file reads as a prefix; a whole one reads back whole |
| Symbols (`state.rs`) | `symbol_ids`, `symbols`, a counter | `intern_symbol`, two nested locks | one id per name, ids fit in 16 bits, 0 only when all are in use |
| Direct calls (`tier2.rs`, `lib.rs`) | set of (call site, target) | insertion at translation, lookup at exit | weighted with the containing block |
| Tier 3 (`tier3.rs`) | flags per block, device names, discontinuities, under mutexes | flags at translation, `mem_access_cb`, `discon_cb` | each event of before the exit reported once |
| Mutexes of `PluginState` (`state.rs`) | eight locks | taken by every callback and, nested, by `plugin_exit` | no deadlock, everybody proceeds |
| Decoder (`decoder.rs`) | none | `classify`, `classify_resources` for five architectures | targets are those of the encodings, rules do not overlap |
| ELF index (`elf_index.rs`) | symbols by address | `from_file`, `symbol_at`, `name_at` | the best symbol per address, whatever the order |
| Emitters, command line (`convert/`) | profile, index, output file | one subcommand: parse, tier, index, emit | output agrees with the guest's run; a failure is not silent |
| Arguments, bindings (`lib.rs`, `ffi.rs`) | configuration | installation | not modelled, see section 6 |

How they interact. QEMU calls `vcpu_init` on every vCPU thread, `vcpu_tb_trans`
whenever a thread generates code, the registered callbacks while the code runs,
and `plugin_exit` once, normally with the vCPUs stopped (`SharedMaps` does not
rely on it). `vcpu_tb_trans` opens the
profile lazily and instruments the block for each tier up to the configured
one. Consecutive blocks communicate through the per-vCPU scoreboard. In
streaming mode a full edge map is flushed to the shared writer by the vCPU that
filled it. Everything else is written at exit. The converter reads the file at
any later time, also one a killed QEMU left.

What is hard here: initialisation, translation, callbacks and flushes of several
vCPUs interleave; blocks are retranslated at any time and abandoned half-way;
the order in which instrumentation is registered carries meaning; write errors
are ignored; the process may die with data in a buffer. `PROJECT.json` lists
each such hazard at the line where it bites, with the properties that cover it.

## 2. Modules

| Module | Models | Composes |
|---|---|---|
| `VcpuStore` | `PerVcpuStore`, `ensure_vcpu_state`, `vcpu_init` | |
| `EdgeTables` | operators: the two edge tables and the entries they count | |
| `EdgeStorage` | one accumulator from install to exit | `EdgeTables` |
| `Hotness` | tier 0 | |
| `DirectCalls` | operators: the lookup of direct calls at exit | |
| `EdgeRelay` | tiers 1 and 2 and their part of `plugin_exit` | `EdgeTables`, `DirectCalls` |
| `EdgeLedger` | abstract: what recording an edge promises | |
| `StreamFlush` | lazy writer, streaming flushes; implements `EdgeLedger` | `EdgeTables`, `EdgeLedger` |
| `SharedMaps` | everything behind a mutex: symbol interning, translation, tier 3, flushes, `plugin_exit` | |
| `ProfileFormat` | operators: encoding of records, `native::parse` | |
| `ProfileLog` | the writer's life, failures, crash | `ProfileFormat` |
| `Decoder` | `classify`, `classify_resources` | |
| `ElfIndex` | operators: the symbol index | |
| `Converter` | a guest run and one conversion of its profile | `ElfIndex`, `EdgeTables`, `DirectCalls` |
| `TableTheorems` | lemmas: finite sums, sorted listings, recording, pruning, entries | `EdgeTables` |
| `StorageProofs` | theorems about the per-vCPU stores | `VcpuStore`, `EdgeStorage`, `TableTheorems` |
| `BlockProofs` | theorems about single blocks: counts, order, instructions | `Hotness`, `Decoder`, `TableTheorems` |
| `EdgeRelayProofs`, `StreamFlushProofs`, `SharedMapsProofs`, `ProfileLogProofs`, `ConverterProofs` | theorems | the module in their name |
| `MC...` | constants and symmetry for TLC | |

`EdgeStorage` and `Decoder` call their specifications `StorageSpec` and
`DecodeSpec`, so that one proof module can speak of two components.

Correspondence with the code:

* **VcpuStore.** One action per atomic access. `NeedSlot`/`Covered` are the two
  outcomes of `while len() < vcpu_count`, `Claim` is `fetch_add` with the
  assertion, `StorePtr` the store of the pointer. `Record` is a callback of a
  vCPU that has finished `vcpu_init`; `missed` remembers when `get_mut`
  returned `None`. A panic in an `extern "C"` callback aborts QEMU (`aborted`).
  A slot holds the vCPU that allocated it.
* **EdgeTables, EdgeStorage.** A map is a total function with 0 for an absent
  key. `sort_unstable` leaves ties open, so `Prune` yields a set of results.
* **Hotness.** `cache` is QEMU's code cache: at most one live translation per
  block, with or without the first-seen callback. `InstrumentTb` runs under the
  `tb_map` lock; `Link` publishes or discards the code afterwards; `Exec` is
  the inline ADD and the test of the condition on the vCPU's own count;
  `FetchSeq` and `StoreSeq` are the two atomic accesses of `first_seen_cb`.
* **EdgeRelay.** A block is a record of its start, the address of its last
  instruction, its fall-through address and whether the last instruction is an
  indirect call or jump (the decoder's verdict; translation blocks end there).
  `EnterTb` runs the TB-level instrumentation in registration order, `FinishTb`
  the stores of the last instruction; `Abort` leaves a block before them.
  `late` holds the slots another thread has claimed and not stored: what a
  callback records there goes to `missed` or `missedCalls`, until `StoreSlot`.
  Of a drained batch, in a flush or at exit, any part may reach the profile
  (`written`); the rest is `lost`. `strays` counts the entries that follow an
  abandoned block, whose edge the scoreboard gets wrong.
  `DirectCalls` gives each direct call noted at translation its count at exit:
  the sort by start address is unstable, so which of several blocks with one
  start comes last is a choice (`LastAtStart`), the same for all call sites.
* **StreamFlush.** One action per atomic access or critical section of
  `init_writer_if_needed` and `flush_edges`. A batch is written in records of
  `MAX_EDGES_PER_RECORD` edges, and a write that fails, in a flush or at exit,
  has got rid of the full records before it and of no others (`FullRecords`);
  `lost` collects the rest, and the batches for which there was no writer.
  `LedgerSpec` maps it to `EdgeLedger`: pending is what
  the table and the batches in flight hold, delivered what is in the profile.
  The ledger promises that each settled edge is delivered or given up with its
  whole count, and that a flush leaves nothing behind on its vCPU; it does not
  promise that a batch or the exit write arrives whole.
* **SharedMaps.** A critical section inside which no other lock is taken is one
  step; a lock kept while another is taken is held from step to step (`held`).
  `NoSymbol`, `InternHit`, `InternFull`, `InternNew` and `InternInsert` are the
  paths through `intern_symbol` and its caller, followed by the locks of tier 0
  (`MapTb`) and tier 2 (`NoteCalls`) and the unlocked store of tier 3
  (`SetFlags`). `plugin_exit` is one action per lock it takes, with the writer
  held to the end. Callbacks may run while it does: `before` is what had
  happened when it began.
* **Decoder.** A mask test `insn & mask == value` is a set of fields. A word is
  two halves, because TLC's integers have 32 bits. Each classifier keeps the
  code's order of tests. A direct target is a distance from the instruction.
* **ElfIndex, Converter.** `log` is the run of the guest's vCPUs, the reference
  that outputs are compared with: each entry has its vCPU, the block it came
  from and the first-seen number it drew, if any. What the profile says of it is
  computed as the plugin does: branch edges in several batches, fall-throughs as
  executions minus branch entries (`FallThroughCount`, with the predecessor that
  the walk over `tb_map` inserted last, `pred`), and first-seen numbers drawn
  (`FetchSeq`) and stored (`StoreSeq`) at each vCPU's own first execution of a
  block, over whatever number is there, unless the block was translated again
  (`Retranslate`). No edge is lost here; which may be is the subject of
  `EdgeRelay` and `StreamFlush`. Then parse,
  required tier, the loop over the ELF's symbols (one step per symbol) and the
  emitter, each of which may fail. A workload is a binary with its blocks: they
  may overlap, a block that ends in a direct call may also fall through (a
  conditional call), and blocks with the same last instruction end in the same
  kind of instruction. Direct calls get their counts from `DirectCalls`, with
  one order (`last`) of the blocks that share a start. The records of a profile
  and the lines of an output are families, so that two equal lines stay two:
  edges are indexed by their addresses, ranges by their block, calls by site
  and target; the index is not part of what is written.
* **ProfileFormat, ProfileLog.** A file is a sequence of units (file header,
  record header, count, entry, marker, footer). A callback announces the parts
  it is going to write (`todo`); `StartCall` makes one of them the call under
  way, `NextRecord` is a turn of the loop over the chunks of a batch (or the one
  record of another kind), `WriteUnit` writes the record unit by unit into the
  BufWriter, `FlushBuffer` ends a marker or the footer. The footer's totals are
  those of the moment its record is made. An error abandons the rest of its own
  call only, because every caller ignores the result; of several calls in a row
  (symbols, say) the others go on. A write may fail after a part of the buffer
  went out. `logged` has the entries handed to the writer that the reader has a
  case for.

History variables (marked in each module) record what really happened: they
are read by properties, by the bounds and by nothing else.

## 3. Runs

| Run | Instance | What it shows |
|---|---|---|
| `vcpu_store` | 3 vCPUs, 5 slots, tier 2 | slots written once, at most 2N-1 claimed, no abort when they fit, each vCPU that starts has its slots in the end whether or not others start, exit sees all slots |
| `edge_storage` | 5 edges, `top_n` in 0, 1, 2, both modes, 16 records | counts conserved, memory bound, the floor that pruning guarantees |
| `hotness` | 2 vCPUs, 2 blocks, 3 executions each | exact counts, unique numbers, never too early, order on one vCPU |
| `edge_relay` | 2 vCPUs, 3 blocks, 4 entries, tier 2, `top_n` 1 and 2, up to 2 late slots | indirect calls exact even with abandoned blocks, but for those of a late slot; edges off only by lost writes, late slots and entries after abandoned blocks; fall-throughs as derived; direct calls weighted with their block unless another block starts in between |
| `stream_flush` | 2 vCPUs, 3 edges, threshold 2, 1 edge per record, 4 edges recorded on each | file created once, conservation, exact branch entries, every flush ends, implements the ledger |
| `profile_log` | tier 3, records of up to 2 entries, batches of up to 3, buffer of 3 units, 2 flushes, 1 failure | crash leaves a prefix, flushed data stays, round trip |
| `shared_maps` | 2 vCPUs with 2 operations each, 3 blocks of which one has no symbol, 1 symbol id | no deadlock, everybody proceeds, ids stable past their limit, tier 3 report complete |
| `converter` | all tables of up to 3 symbols out of 10; runs of up to 5 blocks (4 on 2 vCPUs) in 2 batches, tiers 0 to 2, 1 block translated again, 16 addresses | index and lookup right; call-graph weights, temporal order and flow as in the run; failures leave the old output |
| `decoder` | about 120 000 instructions of five guests | targets as the encodings draw them; no two rules apply to one word |
| `vcpu_store_contract` | 2 vCPUs | *violated*: "Each index must be initialized (via `push`) before `get_mut`" |
| `executed_has_seq` | 2 vCPUs, 1 block | *violated*: the test's assertion that an executed block has a first-seen number |
| `rv64_c_jal` | compressed instructions on a 64-bit guest | *violated*: "C.JAL (RV32 only)" |

Why the bounds are enough. Three vCPUs let two race on the slot of a third, and
five slots is exactly 2*3-1, so one more push would abort. Five edges exceed
2*`top_n` for `top_n` = 2, and sixteen records prune such a table several times.
Two vCPUs and two blocks give every overlap of two callbacks, and three
executions distinguish a first, a second and a later one. The three blocks of
`edge_relay` give a fall-through, a branch, an indirect call, two blocks with
one start address and a direct call in the longer of them, which the shorter
may hide; four entries suffice for a flush, an abandoned block and an edge
after it, and two late slots for both tables of one vCPU or one of each. A
threshold of 2 with four edges makes each vCPU flush more than once, and records
of one edge let a write of two fail half-way. Batches
of 0 to 3 entries in records of 2 are empty, partial, exact and split, and a
buffer of 3 units is written out inside records. In `shared_maps` one id for
two names makes the counter pass its limit, and two operations per vCPU let one
vCPU translate and then flush or meet an event while the other does the same
and `plugin_exit` runs; a variant with three names, two ids and four blocks
(832 000 states) gave the same result. Three symbols suffice for the index
because it compares two at a time: a third shows whether the winner of the
first comparison can hide a better one. The candidates share an address with
every mix of size and name length, nest, reach the end of the 16 addresses, and
are in part not to be indexed. Five blocks let the guest call, return, loop and
run from one function into the next, two batches split one edge's count, two
vCPUs with two blocks overwrite each other's numbers and overtake each other
between entering a block and drawing one, and a block that begins a function is
translated again before or after it runs. All choices of `pred` are tried. There
are workloads with blocks of one start, with a conditional call, with code that has no symbol, with
two functions of one name and with a block that is the tail of another.
The decoder's inputs enumerate the fields that rules and immediates read; the
rest of a word is not looked at.

Deadlock is checked for `vcpu_store`; the other models stop at exit or at their
bounds, as the program does. Deadlock among the mutexes is the subject of
`NoWaitCycle`, which is about groups of threads and not about the whole model
standing still.

Fairness. `VcpuStore` assumes that a vCPU thread inside `vcpu_init` eventually
takes its next step (weak fairness of `InitStep`, per vCPU): the loop takes no
lock and waits for nobody. Nothing is assumed of `VcpuInit`: a vCPU may never
start, and the others must get their slots all the same. `StreamFlush` assumes the same of a flush
under way: it acquires one mutex at a time and each is held for a bounded
piece of code. `SharedMaps` assumes weak fairness of `plugin_exit` once it has
begun and of each vCPU that is in the middle of an operation: critical sections
are short, and a mutex that is released again is obtained in the end. Nothing
is assumed about guests, about operations being begun or about exit being
called.

## 4. Proofs

All theorems hold for every value of the constants under the modules' named
assumptions (`NVcpus` and `MAX_VCPUS` positive, `Tier` in 0..3, the null value
not a vCPU or a block, thresholds natural numbers, symbol tables sequences of
symbols whose names have a length; vCPUs, blocks and edges finite sets where
counts are added up; a guest's blocks inside the address space; instruction
bytes in 0..255; a buffer and a record with room for at least one unit or entry).
Three theorems of `EdgeRelayProofs` have a hypothesis of
their own, `NoBlockEndsAtZero`, explained there.

* **TableTheorems.** The models add counts with `SumFunctionOnSet` of the
  community modules, which is recursive over subsets in an unspecified order.
  What it computes is proved without an induction rule: among the subsets of a
  finite set that violate a claim there is a minimal one (`MinimalSubset`, from
  the well-foundedness of strict inclusion), and its proper subsets satisfy the
  claim. `SumUnfold` and `SumPoint` (any element may be taken first) give the
  rest: additivity, monotonicity, what one bump or one replaced table does to a
  total, and `SaturatingSum`, which compares a sum of saturating differences
  with the difference of the sum. `SumClasses` says that counts taken class by
  class add up to the size of the union of the classes, and `SortedListing`, by
  counting the elements below each, that a finite set with distinct keys has a
  listing in their order. `PruneFacts`, `RecordFacts` and `EntriesFacts`
  say what the operators of `EdgeTables` return.
* **StorageProofs, accumulator.** `CountsNeverInvented` and `MemoryBounded` need only the
  types of the tables (`StorageOK`) and the lemmas on recording; `MemoryBounded`
  includes the degenerate `top_n` of 0 and 1. `PruningKeepsTop` is an argument
  about cardinalities: if a pruning keeps an edge below the largest count ever
  dropped, then it keeps the `top_n` edges above that count as well, one more
  than it keeps at all. Streaming mode drops nothing (`StreamingKeepsAll`).
* **StorageProofs, slots.** `SlotsWrittenOnce` is an action property and needs to
  know what a claim is: `ClaimsPrivate` says that a slot held by a vCPU about
  to store is in the table, below `len` and still null, that no two such vCPUs
  hold the same slot, and that published slots are below `len`. It gives
  `PublishedSlotsStay`. `ClaimsAccounted` adds that every index below `len` is
  published or held by somebody, and `LoopsDone` that a vCPU which left a loop
  found `len` large enough; together they give `ExitSeesEverySlot`.
  `OvershootBound` is inductive as it stands, because it counts the vCPUs about
  to `fetch_add` too: a push starts only while `len <= N-1` and then at most N
  are under way, and a `fetch_add` moves one unit from the claiming set to
  `len`. `NoPanic` combines it with `AbortCause`: a failed assertion means
  that some `len` has passed `MAX_VCPUS`.
* **BlockProofs, execution.** `SeqsUnique` is not inductive: a number is in flight between
  `fetch_add` and the store. `TicketsUnique` says that stored numbers and
  numbers in flight are all below the counter and pairwise different.
  `NeverTooEarly` needs `TicketsLate`: a callback runs only for a block that has
  been executed, and a ticket is no smaller than the counter was at its first
  execution. `ExecCountsReported` rests on `CountsTotal`: the per-vCPU counts of
  a block add up to its executions at any time, so retranslation, which reuses
  the scoreboard, costs nothing. `FirstSeenFollowsVcpu` rests on
  `OwnBlocksOrdered`: while a vCPU is in a callback it runs nothing else, so
  among the blocks that are its own the block of the callback is the last, and
  the ticket it draws is the largest. `RunnersOK` ties who ran a block to the
  counts that guard the callback.
* **EdgeRelayProofs.** `Relayed` is what the scoreboard holds between two blocks:
  nothing before a vCPU's first block, the addresses of the previous block if it
  ran to its end, and never a pending call of a block that did not. With it
  `EntryKinds` shows that each entry of a block is exactly one of four: the
  vCPU's first, a fall-through, an edge, or an entry after an abandoned block.
  From there the totals follow entry by entry. `IndirectCallsExact`: the calls
  of all vCPUs, and those missed for want of a slot, are those that happened
  (`CallsTotal`), abandoned blocks included. `BranchEdgesExact`: written, lost,
  missed and accumulated edges together are those taken, plus at most the
  entries after abandoned blocks (`EdgesTotal`), in runs with faults, late slots
  and failing writes alike. `FallThroughsDerived`: the executions at an address
  are its fall-throughs, first entries, entries after abandoned blocks and edge
  entries (`EntriesTotal`), and
  `flushed_branch_entries` holds the entries of what was written
  (`FlushedCounted`); a block alone at its start then reports the exact
  difference (`AloneExact`) and blocks that share a start no more than that
  together (`PeersBounded`). These three assume `NoBlockEndsAtZero`: the code
  uses address 0 as "no previous block", so for a guest block whose last
  instruction is at address 0 no edge and no call is recorded, and the
  properties do not hold. The run's blocks satisfy it. `DirectCallsWeighted` needs no such
  hypothesis: it is about the sorted index alone (`CallCountExact`), for every
  order that an unstable sort may leave.
* **StreamFlushProofs.** `OpenedOnce` rests on `OneOpener`: while the flag is down
  nothing was opened and nobody is opening, and at most one vCPU is between the
  exchange and the creation of the file. `EdgesConserved` rests on
  `BatchesInFlight`: a batch is empty unless its vCPU is inside `flush_edges`,
  and the exit batch is empty until exit. `ImplementsLedger` shows that
  `StreamFlush` implements `EdgeLedger`: initial states map to initial states
  and every step to a step of the ledger or a stutter; the edges whose records
  were written before a failure are the set the ledger delivers. Two facts make it go
  through: `BatchesInFlight` (the mapping counts the batch under way as
  pending, so a batch outside a flush must be empty), and `ExitQuiet`, that
  after exit nobody is inside a flush. `ExitEntriesExact` rests on
  `EntriesCounted`: up to exit, the entries that flushes have counted, those in
  the tables and those in drained batches not counted yet (`Uncounted`) add up
  over the vCPUs to the entries that happened; exit adds the tables, and by
  `ExitQuiet` no batch is left.
* **SharedMapsProofs.** `NoDeadlock` follows from `LocksKept`, which says who may
  hold what between two steps: a vCPU keeps only `symbol_ids`, and only while
  it inserts into `symbols`; `plugin_exit` keeps the writer and, at three known
  places, one more lock; nobody keeps `symbols`, `tb_map` or `discon_events`.
  Hence `plugin_exit` never waits for a held lock and everybody else waits for
  `plugin_exit` only. `SymbolIdsStable` follows from `IdsConsistent`: ids below
  the counter are in use, each by one name, and an id may be missing in
  `symbols` only while the vCPU that inserts it still holds `symbol_ids`.
  `ExitReportsSnapshot` rests on two facts: `MapsHold`, that the shared maps
  hold just what has happened, with a block in `tb_map` before it gets its
  flags; and `Staged`, what `plugin_exit` has written after each of its tier 3
  sections, between the state when it began and the present, which callbacks
  may have taken further.
* **ConverterProofs.** `IndexKeepsBest` is about every symbol table in every
  order. `Replaces` is shown to order symbols strictly and so that two symbols
  neither of which replaces the other are interchangeable (`ReplacesOrder`);
  therefore a symbol that is not replaced by any read so far is the best of
  them (`BestUnbeaten`), and one turn of the loop keeps that true at the
  symbol's own address and at all others. `LookupsExact` follows with
  `Indexed`, the finished index: one entry per address of a function, with a
  size of its own, or an inferred one of at most the cap when no symbol there
  has a size. An address inside a separate function then has that function's
  entry as its nearest (`InsideFound`); outside all functions the nearest entry
  answers only if its size was inferred (`OutsideNearest`). The wrapping
  additions of the code are part of both. `OutputKept` needs the order of the
  steps (`OutputStaged`): the output is the old one up to the emitter, which
  runs only after the tier test and the whole loop over the symbols.
  The other three compare an output with the guest's run. `Counted` says, while
  the guest runs, that the batches of an edge sum to the entries of the log
  at which it was taken: a bump of some batch and the beginning of a new one
  are the cases (`MergeBump`, `MergeAppend`). `Converted` carries that, and what
  the emitter read, to the finished output. Each weight then is a sum over
  edges, blocks or call sites of numbers of entries of the log, and
  `SumClasses` turns it into one number. `FlowIsConserved` needs that
  subtracting the base modulo the address space merges no two blocks
  (`OffsetInjective`), and, for the fall-through lines, that saturating
  differences of blocks with one start add up to no more than the difference of
  their sums (`SaturatingSum`); with one block there it is that difference.
  `CallGraphIsWeighted` adds up the three sources:
  direct calls, whose record has the count of its own block when no block starts
  inside (`CallCountOwn`), resolved indirect calls, and edges between
  functions. `TraceIsTemporal` rests on `Numbers`, an invariant of the guest's
  run: drawn numbers are distinct and below the counter, a stored number was
  drawn by an entry of its block, the callback of a vCPU belongs to its last
  entry, a vCPU's numbers grow along the log, and a vCPU draws at most one for a
  block. So functions have distinct first numbers, the sorted trace exists and is
  the one order there is, and an inversion needs one of the three causes that
  `TemporalTrace` lists.
* **ProfileLogProofs.** The reader is a recursive definition over the file.
  That a function with its equation exists is proved from the last unit
  backwards, by the least position at which it could fail (`ReaderExists`);
  from then on it is read one step at a time (`ReaderStep`). `Clean` describes a
  stream of whole records: `cut` marks the boundaries between records and says
  how many entries of the log precede each. A clean stream is read as its log
  (`CleanRead`), a beginning of one as a beginning of the log (`CutOffRead`), and
  what follows a clean stream takes nothing away (`ExtendedRead`); appending a
  record whose payload is as announced keeps a stream clean (`CleanAppend`).
  `LogInv` is the inductive invariant. `Sound`: without failures, what the file,
  the buffer and the rest of the record make together is clean, and the log
  goes on with the entries the call still has to write (`Pending`). `DeadReads`:
  after a crash the file stays readable as it is. `Synced`: what a flush made
  durable lies in whole records at the beginning of the file, which only grows.
  `Balance`: the totals and what the call under way still owes them are the
  entries logged. `FooterLast` and `Closed`: the footer is the last record, with
  the totals, and its flush empties the buffer. `CrashIsTolerated` follows from
  `Sound` and `DeadReads`, `FlushIsDurable` from `Synced` for any number of
  failing writes, `ProfileRoundTrips` from `Closed` and `Balance`.
* **BlockProofs, instructions.** `NoMaskOverlaps` reads each rule as what it says
  about one or two fields: two rules of a guest that hold together would give
  one field two values. `TargetsExact` has to relate shifted and masked fields
  to single bits. A field is a number below a power of two; dropping the lowest
  bit of both sides (`DropBit`, `ShiftOne`) and the least bit at which they could
  differ give that equal fields are equal bit by bit (`RunBits`, `FieldBits`),
  for powers of two up to 2^30 (`Powers`). The `...Runs` lemmas find the fields
  in the sign-extended immediate, `...Layout` lists the bits the comments of the
  code draw, and `...Reads` puts the two together. Displacements of x86 are
  done with bytes (`Displacements`).

Only model-checked: liveness (`EventuallyInitialised`, `FlushEnds`,
`EverybodyProceeds`), because fairness and ENABLED are beyond the prover. Every
invariant and every other action property of the passing runs is the subject of
a theorem. The three violated runs are counterexamples and need no proof.

## 5. What the project found

The three violated runs are described under `findings` in `PROJECT.json`: lost
samples while a slot is claimed but not stored; executed blocks without a
first-seen number; and C.ADDIW of 64-bit RISC-V taken for a call. Met while
reading, and not the subject of a run of its own:

* concurrent initialisation may claim 2N-1 slots, so with as many vCPUs as
  slots the assertion of `push` can abort QEMU, although "Extra entries are
  harmless" (`state.rs`, line 332); `NoPanicWithRoom` gives the exact room;
* `first_seen_seq` is "Set once on first execution" (`state.rs`, line 118), but
  the condition is on each vCPU's own count, so later vCPUs overwrite it, and a
  function that began early may stand late in the temporal trace
  (`TemporalTrace` says when);
* "profile written successfully" (`lib.rs`, line 415) is printed whatever the
  ignored results of the writes were;
* a call is a branch edge as well, and the call graph counts it twice from
  tier 2 on (`CallGraphWeights` says exactly this);
* a symbol nested in another hides the rest of the outer one from `symbol_at`
  (`LookupExact` requires separate functions);
* names of `.dynsym` are looked up in `.strtab` (`elf_index.rs`, line 46);
* `load_addr` is commented "lowest LOAD segment" (`elf_index.rs`, line 92), and
  the first executable one is taken;
* the call-graph and temporal emitters look runtime addresses up in link-time
  symbols, without the base that the other emitters subtract;
* the call graph is sorted "for deterministic output" (`cgprof.rs`, line 62),
  with ties in hash-map order;
* a block left before its last instruction makes the next branch edge name the
  block before it (`EdgesExact` allows one such edge per entry; indirect calls
  are immune, see `CallsExact`);
* the first block of each vCPU counts as entered by fall-through, because no
  edge is recorded while `last_tb_end` is 0 (`FallThroughDerived` and
  `FlowConserved` say exactly this);
* top-N pruning drops branch entries, so derived fall-throughs are too high in
  that mode, and "keeps the N hottest edges" holds only in the form of
  `TopNFloor`: an evicted edge starts again from zero;
* batches flushed before the writer is published are lost, and so is the rest
  of a batch whose write fails (`EdgesConserved` accounts for them in `lost`);
* a conditional direct call of Hexagon has the count of its block, taken or not,
  so the call graph counts calls that were skipped (`CallGraphWeights` says so);
* direct calls in a block are given the count of another block that starts
  between the start of theirs and the call (`DirectCallWeights` excludes it);
* `DeviceAccess` records are written and never read (`ReadTags`);
* address 0 stands for "no previous block" and "no pending call" in the
  scoreboard, so a block whose last instruction is at address 0 leaves no edge
  and no call (the hypothesis `NoBlockEndsAtZero` of three theorems).

## 6. Not modelled, and what is left

Left out, and why:

* argument parsing and installation (`lib.rs`, `state.rs`): string handling and
  one sequential registration of callbacks; its result, the configuration, is a
  constant or an initial choice of the modules;
* the bindings in `ffi.rs`: declarations of an external interface, whose
  behaviour is modelled where callbacks meet it;
* ELF parsing (the goblin crate), argument syntax of the converter (clap), the
  build id, which nothing reads;
* the text layout of outputs, the sanitising of names, and the byte encoding of
  fields: properties about them are unit tests' work;
* functions that only tests call (`merged_edges`, `symbol_for_id`,
  `total_tb_execs`).

Nothing is planned that the prover could still do: what is left to TLC is
liveness (section 4). Code added to the plugin or the converter belongs into the
module of its component, with the invariant of section 4 extended to it.
