------------------------------ MODULE VcpuStore ------------------------------
(***************************************************************************)
(* PerVcpuStore and PluginState::ensure_vcpu_state (plugin/src/state.rs):  *)
(* the append-only tables of per-vCPU accumulators.  Every vCPU thread     *)
(* runs the vcpu_init callback once and grows each table until its own     *)
(* index is covered; afterwards it reaches its accumulator lock-free with  *)
(* get_mut.  Nothing serialises two vcpu_init callbacks.                   *)
(*                                                                         *)
(* One action per atomic access: the load of len, the fetch_add of push,   *)
(* the store of the pointer.  The outer `if len < count` of                *)
(* ensure_vcpu_state is the same test as the first one of the loop under   *)
(* it and is not a step of its own.  A panic in an extern "C" callback     *)
(* aborts the process.  A slot's content is abstracted to the vCPU whose   *)
(* push allocated it.                                                      *)
(***************************************************************************)
EXTENDS Integers, FiniteSets

CONSTANTS
    NVcpus,      \* vCPUs that QEMU starts: indices 0 .. NVcpus-1
    MAX_VCPUS,   \* slots of a PerVcpuStore (256 in the code)
    Tier,        \* profiling tier, 0 .. 3
    NoVcpu       \* the null pointer

Vcpus == 0 .. NVcpus - 1
Slots == 0 .. MAX_VCPUS - 1

ASSUME NVcpusAssumption == NVcpus \in Nat \ {0}
ASSUME MaxVcpusAssumption == MAX_VCPUS \in Nat \ {0}
ASSUME TierAssumption == Tier \in 0 .. 3
ASSUME NoVcpuAssumption == NoVcpu \notin Vcpus

VARIABLES
    len,       \* len[s]: the atomic slot counter of table s
    ptrs,      \* ptrs[s][i]: the vCPU that allocated slot i, or null
    pc,        \* pc[v]: where vCPU v is in its vcpu_init callback
    table,     \* table[v]: the table v is growing
    slot,      \* slot[v]: the index v's last fetch_add returned
    aborted,   \* the assertion of push failed and took the process down
    missed     \* history: <<v, s>> for which get_mut(v) returned None

vars == <<len, ptrs, pc, table, slot, aborted, missed>>

(* edge_accumulators, and indirect_calls from tier 2 on *)
Tables == {"edges", "calls"}

Init ==
    /\ len = [s \in Tables |-> 0]
    /\ ptrs = [s \in Tables |-> [i \in Slots |-> NoVcpu]]
    /\ pc = [v \in Vcpus |-> "new"]
    /\ table = [v \in Vcpus |-> "edges"]
    /\ slot = [v \in Vcpus |-> 0]
    /\ aborted = FALSE
    /\ missed = {}

(* vcpu_init: QEMU starts the callback on the new vCPU's thread. *)
VcpuInit(v) ==
    /\ ~aborted
    /\ pc[v] = "new"
    /\ pc' = [pc EXCEPT ![v] = "check"]
    /\ UNCHANGED <<len, ptrs, table, slot, aborted, missed>>

(* Mutant: `<=` in the loop, one push too many. *)
NeedSlot_OffByOne(v) ==
    /\ ~aborted
    /\ pc[v] = "check"
    /\ len[table[v]] <= v + 1
    /\ pc' = [pc EXCEPT ![v] = "claim"]
    /\ UNCHANGED <<len, ptrs, table, slot, aborted, missed>>

(* `while len() < vcpu_count` is true: enter push. *)
NeedSlot(v) ==
    /\ ~aborted
    /\ pc[v] = "check"
    /\ len[table[v]] < v + 1
    /\ pc' = [pc EXCEPT ![v] = "claim"]
    /\ UNCHANGED <<len, ptrs, table, slot, aborted, missed>>

(* Mutant: vcpu_init asks for vcpu_index slots, not vcpu_index + 1. *)
Covered_OneShort(v) ==
    /\ ~aborted
    /\ pc[v] = "check"
    /\ len[table[v]] >= v
    /\ IF table[v] = "edges" /\ Tier >= 2
       THEN table' = [table EXCEPT ![v] = "calls"] /\ UNCHANGED pc
       ELSE pc' = [pc EXCEPT ![v] = "ready"] /\ UNCHANGED table
    /\ UNCHANGED <<len, ptrs, slot, aborted, missed>>

(* Mutant: the loop runs until len equals the count (`!=`). *)
Covered_Exact(v) ==
    /\ ~aborted
    /\ pc[v] = "check"
    /\ len[table[v]] = v + 1
    /\ IF table[v] = "edges" /\ Tier >= 2
       THEN table' = [table EXCEPT ![v] = "calls"] /\ UNCHANGED pc
       ELSE pc' = [pc EXCEPT ![v] = "ready"] /\ UNCHANGED table
    /\ UNCHANGED <<len, ptrs, slot, aborted, missed>>

(* The loop ends: go on with the second table (tier >= 2) or return. *)
Covered(v) ==
    /\ ~aborted
    /\ pc[v] = "check"
    /\ len[table[v]] >= v + 1
    /\ IF table[v] = "edges" /\ Tier >= 2
       THEN table' = [table EXCEPT ![v] = "calls"] /\ UNCHANGED pc
       ELSE pc' = [pc EXCEPT ![v] = "ready"] /\ UNCHANGED table
    /\ UNCHANGED <<len, ptrs, slot, aborted, missed>>

(* Mutant: a plain load of len, incremented by nobody before the store. *)
Claim_PlainLoad(v) ==
    /\ ~aborted
    /\ pc[v] = "claim"
    /\ slot' = [slot EXCEPT ![v] = len[table[v]]]
    /\ IF len[table[v]] < MAX_VCPUS
       THEN pc' = [pc EXCEPT ![v] = "store"] /\ UNCHANGED aborted
       ELSE pc' = [pc EXCEPT ![v] = "panic"] /\ aborted' = TRUE
    /\ UNCHANGED <<len, ptrs, table, missed>>

(* Mutant: the counter goes the wrong way. *)
Claim_Decrement(v) ==
    /\ ~aborted
    /\ pc[v] = "claim"
    /\ len' = [len EXCEPT ![table[v]] = @ - 1]
    /\ slot' = [slot EXCEPT ![v] = len[table[v]]]
    /\ pc' = [pc EXCEPT ![v] = "store"]
    /\ UNCHANGED <<ptrs, table, aborted, missed>>

(* push: fetch_add hands out an index; the assertion rejects one past the end. *)
Claim(v) ==
    /\ ~aborted
    /\ pc[v] = "claim"
    /\ len' = [len EXCEPT ![table[v]] = @ + 1]
    /\ slot' = [slot EXCEPT ![v] = len[table[v]]]
    /\ IF len[table[v]] < MAX_VCPUS
       THEN pc' = [pc EXCEPT ![v] = "store"] /\ UNCHANGED aborted
       ELSE pc' = [pc EXCEPT ![v] = "panic"] /\ aborted' = TRUE
    /\ UNCHANGED <<ptrs, table, missed>>

(* push: publish the allocation, then re-test the loop. *)
StorePtr(v) ==
    /\ ~aborted
    /\ pc[v] = "store"
    /\ ptrs' = [ptrs EXCEPT ![table[v]][slot[v]] = v]
    /\ pc' = [pc EXCEPT ![v] = "check"]
    /\ UNCHANGED <<len, table, slot, aborted, missed>>

(* What get_mut(idx) returns; null stands for None. *)
GetMut(s, idx) == IF idx >= len[s] THEN NoVcpu ELSE ptrs[s][idx]

(* A callback of an initialised vCPU records an edge or an indirect call: *)
(* when get_mut returns None the sample is silently dropped.              *)
Record(v, s) ==
    /\ ~aborted
    /\ pc[v] = "ready"
    /\ s = "calls" => Tier >= 2
    /\ missed' = IF GetMut(s, v) = NoVcpu THEN missed \cup {<<v, s>>} ELSE missed
    /\ UNCHANGED <<len, ptrs, pc, table, slot, aborted>>

(* A step of a vcpu_init callback that has been started. *)
InitStep(v) ==
    \/ NeedSlot(v)
    \/ Covered(v)
    \/ Claim(v)
    \/ StorePtr(v)

Next ==
    \E v \in Vcpus :
        \/ VcpuInit(v)
        \/ InitStep(v)
        \/ \E s \in Tables : Record(v, s)

(* A callback that has started runs to its end unless the process dies: the *)
(* loop takes no lock and waits for nobody.  Nothing makes QEMU start a     *)
(* vCPU, and VcpuInit has no fairness.                                      *)
Fairness == \A v \in Vcpus : WF_vars(InitStep(v))

Spec == Init /\ [][Next]_vars /\ Fairness
-----------------------------------------------------------------------------
TypeOK ==
    /\ len \in [Tables -> Nat]
    /\ ptrs \in [Tables -> [Slots -> Vcpus \cup {NoVcpu}]]
    /\ pc \in [Vcpus -> {"new", "check", "claim", "store", "panic", "ready"}]
    /\ table \in [Vcpus -> Tables]
    /\ slot \in [Vcpus -> Nat]
    /\ aborted \in BOOLEAN
    /\ missed \subseteq Vcpus \X Tables

(***************************************************************************)
(* push never replaces an accumulator: once a slot's pointer is published, *)
(* no later push, from whatever thread, stores over it (the counts in it   *)
(* would be leaked).                                                       *)
(***************************************************************************)
SlotsWrittenOnce ==
    [][\A s \in Tables, i \in Slots :
          ptrs[s][i] # NoVcpu => ptrs'[s][i] = ptrs[s][i]]_vars

(* The vCPUs that are about to fetch_add in table s. *)
Claiming(s) == {v \in Vcpus : pc[v] = "claim" /\ table[v] = s}

(***************************************************************************)
(* How far concurrent initialisation overshoots: the slots handed out plus *)
(* those about to be never exceed 2*NVcpus - 1, so the counter stays       *)
(* within a factor of two of what sequential initialisation needs.         *)
(***************************************************************************)
BoundedOvershoot ==
    \A s \in Tables : len[s] + Cardinality(Claiming(s)) <= 2 * NVcpus - 1

(***************************************************************************)
(* The assertion of push ("too many vCPUs") cannot fail while the machine  *)
(* has at most (MAX_VCPUS + 1) / 2 vCPUs, in whatever order they start.    *)
(***************************************************************************)
NoPanicWithRoom == 2 * NVcpus - 1 <= MAX_VCPUS => ~aborted

(***************************************************************************)
(* plugin_exit's iter_mut reaches everybody's data: when no vcpu_init is   *)
(* running, every initialised vCPU's slot of every table of the tier is    *)
(* below len and published, although another thread may have been the one  *)
(* that pushed it.                                                         *)
(***************************************************************************)
QuiescentComplete ==
    (\A v \in Vcpus : pc[v] \in {"new", "ready"}) =>
        \A v \in Vcpus, s \in Tables :
            /\ pc[v] = "ready"
            /\ s = "calls" => Tier >= 2
            => GetMut(s, v) # NoVcpu

(***************************************************************************)
(* A vcpu_init callback that has started ends, and from then on the vCPU's *)
(* slot is, sooner or later, published in every table of the tier: it      *)
(* fills the slots of the vCPUs below it itself when they never start, and *)
(* the slot another thread claimed for it is stored by that thread.        *)
(***************************************************************************)
EventuallyInitialised ==
    \A v \in Vcpus :
        pc[v] = "check" ~>
            \/ aborted
            \/ /\ pc[v] = "ready"
               /\ \A s \in Tables :
                     (s = "calls" => Tier >= 2) => GetMut(s, v) # NoVcpu

(***************************************************************************)
(* The contract in the comment of PerVcpuStore: "Each index must be        *)
(* initialized (via `push`) before `get_mut`".  Refuted: another thread    *)
(* may have claimed the index without having stored the pointer yet.       *)
(***************************************************************************)
InitializedBeforeGetMut == missed = {}
=============================================================================
