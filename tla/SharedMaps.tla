----------------------------- MODULE SharedMaps -----------------------------
(***************************************************************************)
(* The maps of PluginState (plugin/src/state.rs) that sit behind mutexes,  *)
(* and everybody who locks them: vcpu_tb_trans with intern_symbol, the     *)
(* tiers' translation-time code, flush_edges, the tier 3 callbacks         *)
(* (plugin/src/tier3.rs) and plugin_exit (plugin/src/lib.rs).              *)
(*                                                                         *)
(* A critical section in which no other lock is taken is one step.  A lock *)
(* that is kept while another one is taken is held from step to step: by   *)
(* intern_symbol (symbol_ids, around symbols) and by plugin_exit.  Nothing *)
(* is assumed about the vCPUs being stopped when plugin_exit runs.         *)
(***************************************************************************)
EXTENDS Naturals, Sequences, Functions

CONSTANTS
    Vcpus,        \* vCPU threads
    Exit,         \* the thread that runs plugin_exit
    Free,         \* no holder
    NoName,       \* no symbol: of a block, of an unused id
    Tbs,          \* translation blocks
    SymbolOf,     \* SymbolOf[b]: the guest symbol of block b, or NoName
    FlagsOf,      \* FlagsOf[b]: coprocessor resources of b's instructions
    Devices,      \* device names
    Events,       \* discontinuities: type, from, to
    MaxSymId,     \* u16::MAX
    MaxOps        \* bound: operations begun by one vCPU

Names == {SymbolOf[b] : b \in Tbs} \ {NoName}

ASSUME SymbolOfAssumption == DOMAIN SymbolOf = Tbs
ASSUME ThreadsAssumption == Exit \notin Vcpus /\ Free \notin Vcpus \cup {Exit}
ASSUME MaxSymIdAssumption == MaxSymId \in Nat

Locks == {"symbol_ids", "symbols", "tb_map", "direct_calls", "flushed_branch_entries",
          "device_accesses", "discon_events", "writer"}
SymIds == 1 .. MaxSymId

VARIABLES
    held,         \* held[l]: who keeps lock l between two steps
    pc,           \* where each vCPU is
    cur,          \* cur[v]: the block v translates (a sequence of at most one)
    ids,          \* symbol_ids: name to id, 0 for an absent name
    symbols,      \* symbols: id to name
    next_sym_id,  \* counter of symbol ids
    tb_map,       \* known blocks
    flags,        \* coproc_flags of each known block
    devices,      \* device_accesses: block to sequence of names
    events,       \* discon_events
    opened,       \* the writer is there
    exitPc,       \* where plugin_exit is
    report,       \* what plugin_exit has written
    ops,          \* operations begun by each vCPU
    given,        \* history: given[n], the ids intern_symbol returned for n
    seen,         \* history: blocks translated, device accesses and discontinuities
    before        \* history: value of seen when plugin_exit began

interning == <<ids, symbols, next_sym_id, given>>
tier3 == <<flags, devices, events, seen>>
leaving == <<exitPc, report, before>>
vars == <<held, pc, cur, interning, tb_map, tier3, opened, leaving, ops>>

Nothing == [tbs |-> {}, devices |-> {}, events |-> [e \in Events |-> 0]]

Init ==
    /\ held = [l \in Locks |-> Free]
    /\ pc = [v \in Vcpus |-> "idle"]
    /\ cur = [v \in Vcpus |-> <<>>]
    /\ ids = [n \in Names |-> 0]
    /\ symbols = [i \in SymIds |-> NoName]
    /\ next_sym_id = 1
    /\ tb_map = {}
    /\ flags = [b \in Tbs |-> {}]
    /\ devices = [b \in Tbs |-> <<>>]
    /\ events = [e \in Events |-> 0]
    /\ opened = FALSE
    /\ exitPc = "running"
    /\ report = [resources |-> {}, devices |-> devices, events |-> events]
    /\ ops = [v \in Vcpus |-> 0]
    /\ given = [n \in Names |-> {}]
    /\ seen = Nothing
    /\ before = Nothing

Begin(v) ==
    /\ pc[v] = "idle"
    /\ ops[v] < MaxOps
    /\ ops' = [ops EXCEPT ![v] = @ + 1]

(* init_writer_if_needed publishes the writer. *)
PublishWriter(v) ==
    /\ pc[v] = "idle"
    /\ held["writer"] = Free
    /\ ~opened
    /\ opened' = TRUE
    /\ UNCHANGED <<held, pc, cur, interning, tb_map, tier3, leaving, ops>>

(* intern_symbol returns id i for the block's symbol; instrument_tb goes on. *)
Interned(v, b, i) ==
    /\ given' = [given EXCEPT ![SymbolOf[b]] = @ \cup {i}]
    /\ pc' = [pc EXCEPT ![v] = "map"]

(* instrument_tb: QEMU knows no symbol for the block, which keeps id 0. *)
NoSymbol(v, b) ==
    /\ Begin(v)
    /\ SymbolOf[b] = NoName
    /\ pc' = [pc EXCEPT ![v] = "map"]
    /\ cur' = [cur EXCEPT ![v] = <<b>>]
    /\ UNCHANGED <<held, interning, tb_map, tier3, opened, leaving>>

(* intern_symbol is called: the block has a symbol, symbol_ids is locked. *)
InternBegin(v, b) ==
    /\ Begin(v)
    /\ SymbolOf[b] # NoName
    /\ held["symbol_ids"] = Free
    /\ cur' = [cur EXCEPT ![v] = <<b>>]

(* intern_symbol: the name has an id. *)
InternHit(v, b) ==
    /\ InternBegin(v, b)
    /\ ids[SymbolOf[b]] # 0
    /\ Interned(v, b, ids[SymbolOf[b]])
    /\ UNCHANGED <<held, ids, symbols, next_sym_id, tb_map, tier3, opened, leaving>>

(* Mutant: the last id is taken for out of range. *)
Full_OffByOne(raw) == raw >= MaxSymId
(* raw_id > u16::MAX *)
Full(raw) == raw > MaxSymId

(* intern_symbol: no id is left; the name is not remembered. *)
InternFull(v, b) ==
    /\ InternBegin(v, b)
    /\ ids[SymbolOf[b]] = 0
    /\ Full(next_sym_id)
    /\ next_sym_id' = next_sym_id + 1
    /\ Interned(v, b, 0)
    /\ UNCHANGED <<held, ids, symbols, tb_map, tier3, opened, leaving>>

(* intern_symbol: a new id enters symbol_ids, whose lock is kept. *)
InternNew(v, b) ==
    /\ InternBegin(v, b)
    /\ ids[SymbolOf[b]] = 0
    /\ ~Full(next_sym_id)
    /\ next_sym_id' = next_sym_id + 1
    /\ ids' = [ids EXCEPT ![SymbolOf[b]] = next_sym_id]
    /\ held' = [held EXCEPT !["symbol_ids"] = v]
    /\ pc' = [pc EXCEPT ![v] = "symbols"]
    /\ UNCHANGED <<symbols, given, tb_map, tier3, opened, leaving>>

(* Mutant: the id is looked up again, under a second lock of symbol_ids. *)
InternInsert_Relock(v) ==
    /\ pc[v] = "symbols"
    /\ held["symbols"] = Free /\ held["symbol_ids"] = Free
    /\ LET b == cur[v][1]
           i == ids[SymbolOf[b]]
       IN  /\ symbols' = [symbols EXCEPT ![i] = SymbolOf[b]]
           /\ Interned(v, b, i)
    /\ UNCHANGED <<held, cur, ids, next_sym_id, tb_map, tier3, opened, leaving, ops>>

(* ... and symbols, inside that lock. *)
InternInsert(v) ==
    /\ pc[v] = "symbols"
    /\ held["symbols"] = Free
    /\ LET b == cur[v][1]
           i == ids[SymbolOf[b]]
       IN  /\ symbols' = [symbols EXCEPT ![i] = SymbolOf[b]]
           /\ Interned(v, b, i)
    /\ held' = [held EXCEPT !["symbol_ids"] = Free]
    /\ UNCHANGED <<cur, ids, next_sym_id, tb_map, tier3, opened, leaving, ops>>

(* tier0::instrument_tb: look the block up or insert it. *)
MapTb(v) ==
    /\ pc[v] = "map"
    /\ held["tb_map"] = Free
    /\ tb_map' = tb_map \cup {cur[v][1]}
    /\ pc' = [pc EXCEPT ![v] = "calls"]
    /\ UNCHANGED <<held, cur, interning, tier3, opened, leaving, ops>>

(* tier2::instrument_tb: the block's direct calls. *)
NoteCalls(v) ==
    /\ pc[v] = "calls"
    /\ held["direct_calls"] = Free
    /\ pc' = [pc EXCEPT ![v] = "flags"]
    /\ UNCHANGED <<held, cur, interning, tb_map, tier3, opened, leaving, ops>>

(* vcpu_tb_trans, tier 3: classify_tb's flags are stored, without a lock. *)
SetFlags(v) ==
    /\ pc[v] = "flags"
    /\ flags' = [flags EXCEPT ![cur[v][1]] = FlagsOf[cur[v][1]]]
    /\ seen' = [seen EXCEPT !.tbs = @ \cup {cur[v][1]}]
    /\ pc' = [pc EXCEPT ![v] = "idle"]
    /\ cur' = [cur EXCEPT ![v] = <<>>]
    /\ UNCHANGED <<held, interning, tb_map, devices, events, opened, leaving, ops>>

(* Mutant: the map's guard lives until the batch is written. *)
CountEntries_KeepsGuard(v) ==
    /\ Begin(v)
    /\ held["flushed_branch_entries"] = Free
    /\ held' = [held EXCEPT !["flushed_branch_entries"] = v]
    /\ pc' = [pc EXCEPT ![v] = "write"]
    /\ UNCHANGED <<cur, interning, tb_map, tier3, opened, leaving>>

(* flush_edges: the batch's branch entries, and the end of that lock ... *)
CountEntries(v) ==
    /\ Begin(v)
    /\ held["flushed_branch_entries"] = Free
    /\ pc' = [pc EXCEPT ![v] = "write"]
    /\ UNCHANGED <<held, cur, interning, tb_map, tier3, opened, leaving>>

(* ... before the writer's is taken. *)
WriteBatch(v) ==
    /\ pc[v] = "write"
    /\ held["writer"] = Free
    /\ pc' = [pc EXCEPT ![v] = "idle"]
    /\ UNCHANGED <<held, cur, interning, tb_map, tier3, opened, leaving, ops>>

(* Mutant: the name is pushed whether it is there or not. *)
AddDevice_Always(names, d) == Append(names, d)
(* if !entry.contains(&name) { entry.push(name) } *)
AddDevice(names, d) == IF d \in Range(names) THEN names ELSE Append(names, d)

(* mem_access_cb for an access to a device. *)
MemAccess(v, b, d) ==
    /\ Begin(v)
    /\ b \in tb_map
    /\ held["device_accesses"] = Free
    /\ devices' = [devices EXCEPT ![b] = AddDevice(@, d)]
    /\ seen' = [seen EXCEPT !.devices = @ \cup {<<b, d>>}]
    /\ UNCHANGED <<held, pc, cur, interning, tb_map, flags, events, opened, leaving>>

(* discon_cb *)
Discon(v, e) ==
    /\ Begin(v)
    /\ held["discon_events"] = Free
    /\ events' = [events EXCEPT ![e] = @ + 1]
    /\ seen' = [seen EXCEPT !.events[e] = @ + 1]
    /\ UNCHANGED <<held, pc, cur, interning, tb_map, flags, devices, opened, leaving>>

(* plugin_exit: the writer's lock is kept to the end; without a writer, return. *)
ExitBegin ==
    /\ exitPc = "running"
    /\ held["writer"] = Free
    /\ before' = seen
    /\ IF opened
       THEN exitPc' = "symbols" /\ held' = [held EXCEPT !["writer"] = Exit]
       ELSE exitPc' = "returned" /\ UNCHANGED held
    /\ UNCHANGED <<pc, cur, interning, tb_map, tier3, opened, report, ops>>

(* plugin_exit takes lock l and goes from `from` to `to`. *)
ExitTakes(l, from, to) ==
    /\ exitPc = from
    /\ held[l] = Free
    /\ exitPc' = to
    /\ UNCHANGED <<pc, cur, interning, tb_map, tier3, opened, before, ops>>

(* The symbol records, the TB records: a lock each. *)
ExitSymbols == ExitTakes("symbols", "symbols", "tbs") /\ UNCHANGED <<held, report>>
ExitTbs == ExitTakes("tb_map", "tbs", "flushed") /\ UNCHANGED <<held, report>>

(* compute_fall_throughs takes tb_map inside flushed_branch_entries. *)
ExitTakeFlushed ==
    /\ ExitTakes("flushed_branch_entries", "flushed", "fall_throughs")
    /\ held' = [held EXCEPT !["flushed_branch_entries"] = Exit]
    /\ UNCHANGED report
ExitFallThroughs ==
    /\ ExitTakes("tb_map", "fall_throughs", "direct")
    /\ held' = [held EXCEPT !["flushed_branch_entries"] = Free]
    /\ UNCHANGED report

(* The direct calls take tb_map inside direct_calls. *)
ExitTakeDirect ==
    /\ ExitTakes("direct_calls", "direct", "weights")
    /\ held' = [held EXCEPT !["direct_calls"] = Exit]
    /\ UNCHANGED report
ExitDirectCalls ==
    /\ ExitTakes("tb_map", "weights", "resources")
    /\ held' = [held EXCEPT !["direct_calls"] = Free]
    /\ UNCHANGED report

(* Tier 3: the blocks with flags. *)
ExitResources ==
    /\ ExitTakes("tb_map", "resources", "devices")
    /\ report' = [report EXCEPT !.resources = {b \in tb_map : flags[b] # {}}]
    /\ UNCHANGED held

(* The device names of each block, one record each; the lock is kept. *)
ExitDevices ==
    /\ ExitTakes("device_accesses", "devices", "events")
    /\ report' = [report EXCEPT !.devices = devices]
    /\ held' = [held EXCEPT !["device_accesses"] = Exit]

(* The discontinuities; footer; all guards end. *)
ExitEvents ==
    /\ ExitTakes("discon_events", "events", "done")
    /\ report' = [report EXCEPT !.events = events]
    /\ held' = [held EXCEPT !["device_accesses"] = Free, !["writer"] = Free]

ExitStep ==
    \/ ExitSymbols \/ ExitTbs
    \/ ExitTakeFlushed \/ ExitFallThroughs
    \/ ExitTakeDirect \/ ExitDirectCalls
    \/ ExitResources \/ ExitDevices \/ ExitEvents

(* A vCPU goes on with what it has begun. *)
Continue(v) == InternInsert(v) \/ MapTb(v) \/ NoteCalls(v) \/ SetFlags(v) \/ WriteBatch(v)

Next ==
    \/ \E v \in Vcpus : PublishWriter(v) \/ CountEntries(v) \/ Continue(v)
    \/ \E v \in Vcpus, b \in Tbs :
          NoSymbol(v, b) \/ InternHit(v, b) \/ InternFull(v, b) \/ InternNew(v, b)
    \/ \E v \in Vcpus, b \in Tbs, d \in Devices : MemAccess(v, b, d)
    \/ \E v \in Vcpus, e \in Events : Discon(v, e)
    \/ ExitBegin
    \/ ExitStep

(***************************************************************************)
(* A thread that can go on, goes on: the sections are short, and a mutex   *)
(* that is released again is obtained in the end.  Nobody has to begin.    *)
(***************************************************************************)
Fairness == WF_vars(ExitStep) /\ \A v \in Vcpus : WF_vars(Continue(v))

Spec == Init /\ [][Next]_vars /\ Fairness
-----------------------------------------------------------------------------
ExitPcs == {"running", "symbols", "tbs", "flushed", "fall_throughs", "direct", "weights",
            "resources", "devices", "events", "done", "returned"}

TypeOK ==
    /\ held \in [Locks -> Vcpus \cup {Exit, Free}]
    /\ pc \in [Vcpus -> {"idle", "symbols", "map", "calls", "flags", "write"}]
    /\ cur \in [Vcpus -> Seq(Tbs)]
    /\ \A v \in Vcpus : pc[v] \notin {"idle", "write"} => Len(cur[v]) = 1
    /\ ids \in [Names -> 0 .. MaxSymId]
    /\ symbols \in [SymIds -> Names \cup {NoName}]
    /\ next_sym_id \in Nat \ {0}
    /\ tb_map \subseteq Tbs
    /\ exitPc \in ExitPcs
    /\ given \in [Names -> SUBSET Nat]

(***************************************************************************)
(* One symbol, one id: intern_symbol gives all callers of a name the same  *)
(* id, on whichever vCPUs and however often the block is retranslated; an  *)
(* id other than 0 fits 16 bits and symbols has it under that very name;   *)
(* 0 is given only when every id is in use.                                *)
(***************************************************************************)
NamesStable ==
    \A n \in Names : \A i \in given[n] :
        /\ given[n] = {i}
        /\ i # 0 => i \in SymIds /\ symbols[i] = n
        /\ i = 0 => \A j \in SymIds : \E m \in Names : ids[m] = j

(* The lock a thread needs for its next step while it is in the middle of something. *)
Needs(t) ==
    IF t = Exit
    THEN CASE exitPc = "symbols" -> "symbols"
           [] exitPc \in {"tbs", "fall_throughs", "weights", "resources"} -> "tb_map"
           [] exitPc = "flushed" -> "flushed_branch_entries"
           [] exitPc = "direct" -> "direct_calls"
           [] exitPc = "devices" -> "device_accesses"
           [] exitPc = "events" -> "discon_events"
           [] OTHER -> "none"
    ELSE CASE pc[t] = "symbols" -> "symbols"
           [] pc[t] = "map" -> "tb_map"
           [] pc[t] = "calls" -> "direct_calls"
           [] pc[t] = "write" -> "writer"
           [] OTHER -> "none"

Waits(t) == Needs(t) # "none" /\ held[Needs(t)] # Free

(***************************************************************************)
(* No deadlock among the mutexes, even when callbacks run during           *)
(* plugin_exit: no group of threads waits for locks held inside the group. *)
(***************************************************************************)
NoWaitCycle ==
    \A S \in SUBSET (Vcpus \cup {Exit}) :
        S # {} => \E t \in S : ~(Waits(t) /\ held[Needs(t)] \in S)

(***************************************************************************)
(* What tier 3 reports: every block translated, every device access and    *)
(* discontinuity recorded when plugin_exit began is in the profile, each   *)
(* device of a block once, and nothing is reported that did not happen.    *)
(***************************************************************************)
ExitSnapshot ==
    exitPc = "done" =>
        LET reported == {p \in Tbs \X Devices : p[2] \in Range(report.devices[p[1]])}
        IN  /\ before.devices \subseteq reported
            /\ reported \subseteq seen.devices
            /\ \A b \in Tbs : IsInjective(report.devices[b])
            /\ \A e \in Events :
                  before.events[e] <= report.events[e] /\ report.events[e] <= seen.events[e]
            /\ \A b \in before.tbs : FlagsOf[b] # {} => b \in report.resources
            /\ \A b \in report.resources : FlagsOf[b] # {} /\ b \in tb_map

(***************************************************************************)
(* plugin_exit comes to its end once it holds the writer, and a vCPU whose *)
(* flush waits for the writer meanwhile gets it afterwards.                *)
(***************************************************************************)
EverybodyProceeds ==
    /\ (exitPc = "symbols") ~> (exitPc = "done")
    /\ \A v \in Vcpus : (pc[v] # "idle") ~> (pc[v] = "idle")
=============================================================================
