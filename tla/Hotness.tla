------------------------------ MODULE Hotness ------------------------------
(***************************************************************************)
(* Tier 0 (plugin/src/tier0.rs): execution counts and first-seen sequence  *)
(* numbers of translation blocks, from tb_trans to the TB batch that       *)
(* plugin_exit writes.                                                     *)
(*                                                                         *)
(* QEMU is external.  It keeps at most one live translation of a block and *)
(* looks for it before translating; the plugin's callback runs while the   *)
(* new code is generated, and a translation that lost the race to be       *)
(* linked is discarded.  A store to code invalidates a translation at any  *)
(* moment; a flush of the whole code cache, and exit, happen while no vCPU *)
(* is inside generated code, a translation or a callback.                  *)
(*                                                                         *)
(* A TbKey (start address, instruction count) is a model value.  The       *)
(* inline ADD works on a per-vCPU counter and is one step with the test    *)
(* that follows it; the two atomic accesses of first_seen_cb are two.      *)
(***************************************************************************)
EXTENDS Naturals, Sequences, FiniteSets, Functions

CONSTANTS
    Vcpus,     \* vCPU threads
    TbKeys,    \* blocks of the guest program
    NoKey,     \* no block
    MaxExec    \* bound: executions of one block by one vCPU

ASSUME NoKeyAssumption == NoKey \notin TbKeys
ASSUME MaxExecAssumption == MaxExec \in Nat
ASSUME VcpusAssumption == IsFiniteSet(Vcpus)

VARIABLES
    known,      \* keys in tb_map
    seq,        \* first_seen_seq of each TbMeta (0: not set)
    count,      \* count[v][k]: exec_count scoreboard
    counter,    \* sequence_counter
    cache,      \* live translation of a key: none, with or without first_seen_cb
    pc,         \* what each vCPU is doing
    key,        \* the block vCPU v is translating or calling back for
    kind,       \* the instrumentation of the translation v is generating
    ticket,     \* the number v's fetch_add returned
    report,     \* the TB batch written at exit
    execs,      \* history: executions of each block
    born,       \* history: sequence_counter when the block first ran
    runners,    \* history: vCPUs that ran the block
    order       \* history: blocks in the order they first ran

meta == <<known, seq, count, counter>>
qemu == <<cache, pc, key, kind, ticket>>
history == <<execs, born, runners, order>>
vars == <<meta, qemu, report, history>>

Init ==
    /\ known = {}
    /\ seq = [k \in TbKeys |-> 0]
    /\ count = [v \in Vcpus |-> [k \in TbKeys |-> 0]]
    /\ counter = 1
    /\ cache = [k \in TbKeys |-> "none"]
    /\ pc = [v \in Vcpus |-> "idle"]
    /\ key = [v \in Vcpus |-> NoKey]
    /\ kind = [v \in Vcpus |-> "none"]
    /\ ticket = [v \in Vcpus |-> 0]
    /\ report = <<>>
    /\ execs = [k \in TbKeys |-> 0]
    /\ born = [k \in TbKeys |-> 0]
    /\ runners = [k \in TbKeys |-> {}]
    /\ order = <<>>

Running == report = <<>>

(* Mutant: a retranslation starts with a new TbMeta. *)
InstrumentTb_NewMeta(v, k) ==
    /\ Running
    /\ pc[v] = "idle"
    /\ cache[k] = "none"
    /\ kind' = [kind EXCEPT ![v] = "first"]
    /\ known' = known \cup {k}
    /\ count' = [w \in Vcpus |-> [count[w] EXCEPT ![k] = 0]]
    /\ seq' = [seq EXCEPT ![k] = 0]
    /\ pc' = [pc EXCEPT ![v] = "translating"]
    /\ key' = [key EXCEPT ![v] = k]
    /\ UNCHANGED <<counter, cache, ticket, report, history>>

(* Mutant: the sequence number is assigned at translation. *)
InstrumentTb_SeqAtTranslation(v, k) ==
    /\ Running
    /\ pc[v] = "idle"
    /\ cache[k] = "none"
    /\ kind' = [kind EXCEPT ![v] = "plain"]
    /\ known' = known \cup {k}
    /\ IF k \in known
       THEN UNCHANGED <<seq, counter>>
       ELSE seq' = [seq EXCEPT ![k] = counter] /\ counter' = counter + 1
    /\ pc' = [pc EXCEPT ![v] = "translating"]
    /\ key' = [key EXCEPT ![v] = k]
    /\ UNCHANGED <<count, cache, ticket, report, history>>

(***************************************************************************)
(* vcpu_tb_trans / tier0::instrument_tb, under the tb_map lock: a new key  *)
(* gets a TbMeta, the inline ADD and the conditional callback; a known one *)
(* only the ADD, on the scoreboard it already has.                         *)
(***************************************************************************)
InstrumentTb(v, k) ==
    /\ Running
    /\ pc[v] = "idle"
    /\ cache[k] = "none"
    /\ kind' = [kind EXCEPT ![v] = IF k \in known THEN "plain" ELSE "first"]
    /\ known' = known \cup {k}
    /\ pc' = [pc EXCEPT ![v] = "translating"]
    /\ key' = [key EXCEPT ![v] = k]
    /\ UNCHANGED <<seq, count, counter, cache, ticket, report, history>>

(* QEMU links the translation, unless another vCPU's is there already. *)
Link(v) ==
    /\ pc[v] = "translating"
    /\ cache' = [cache EXCEPT ![key[v]] = IF @ = "none" THEN kind[v] ELSE @]
    /\ pc' = [pc EXCEPT ![v] = "idle"]
    /\ key' = [key EXCEPT ![v] = NoKey]
    /\ kind' = [kind EXCEPT ![v] = "none"]
    /\ UNCHANGED <<meta, ticket, report, history>>

(* Mutant: the condition is compared after the second execution (EQ 2). *)
Exec_SecondTime(v, k) ==
    LET n == count[v][k] + 1
        first == execs[k] = 0
    IN  /\ Running
        /\ pc[v] = "idle"
        /\ cache[k] # "none"
        /\ n <= MaxExec
        /\ count' = [count EXCEPT ![v][k] = n]
        /\ IF cache[k] = "first" /\ n = 2
           THEN /\ pc' = [pc EXCEPT ![v] = "fetch"]
                /\ key' = [key EXCEPT ![v] = k]
           ELSE UNCHANGED <<pc, key>>
        /\ execs' = [execs EXCEPT ![k] = @ + 1]
        /\ born' = IF first THEN [born EXCEPT ![k] = counter] ELSE born
        /\ order' = IF first THEN Append(order, k) ELSE order
        /\ runners' = [runners EXCEPT ![k] = @ \cup {v}]
        /\ UNCHANGED <<known, seq, counter, cache, kind, ticket, report>>

(* Mutant: the callback is registered without its TbMeta. *)
Exec_NoUserData(v, k) ==
    LET n == count[v][k] + 1
        first == execs[k] = 0
    IN  /\ Running
        /\ pc[v] = "idle"
        /\ cache[k] # "none"
        /\ n <= MaxExec
        /\ count' = [count EXCEPT ![v][k] = n]
        /\ pc' = [pc EXCEPT ![v] = IF cache[k] = "first" /\ n = 1 THEN "fetch" ELSE @]
        /\ execs' = [execs EXCEPT ![k] = @ + 1]
        /\ born' = IF first THEN [born EXCEPT ![k] = counter] ELSE born
        /\ order' = IF first THEN Append(order, k) ELSE order
        /\ runners' = [runners EXCEPT ![k] = @ \cup {v}]
        /\ UNCHANGED <<known, seq, counter, cache, key, kind, ticket, report>>

(***************************************************************************)
(* A vCPU runs a translation: the inline ADD, then first_seen_cb if this   *)
(* translation carries it and the vCPU's own count is now 1.               *)
(***************************************************************************)
Exec(v, k) ==
    LET n == count[v][k] + 1
        first == execs[k] = 0
    IN  /\ Running
        /\ pc[v] = "idle"
        /\ cache[k] # "none"
        /\ n <= MaxExec
        /\ count' = [count EXCEPT ![v][k] = n]
        /\ IF cache[k] = "first" /\ n = 1
           THEN /\ pc' = [pc EXCEPT ![v] = "fetch"]
                /\ key' = [key EXCEPT ![v] = k]
           ELSE UNCHANGED <<pc, key>>
        /\ execs' = [execs EXCEPT ![k] = @ + 1]
        /\ born' = IF first THEN [born EXCEPT ![k] = counter] ELSE born
        /\ order' = IF first THEN Append(order, k) ELSE order
        /\ runners' = [runners EXCEPT ![k] = @ \cup {v}]
        /\ UNCHANGED <<known, seq, counter, cache, kind, ticket, report>>

(* Mutant: load and add in two steps, the add after the store. *)
FetchSeq_Load(v) ==
    /\ pc[v] = "fetch"
    /\ ticket' = [ticket EXCEPT ![v] = counter]
    /\ pc' = [pc EXCEPT ![v] = "store"]
    /\ UNCHANGED <<meta, cache, key, kind, report, history>>

(* first_seen_cb: sequence_counter.fetch_add(1) *)
FetchSeq(v) ==
    /\ pc[v] = "fetch"
    /\ ticket' = [ticket EXCEPT ![v] = counter]
    /\ counter' = counter + 1
    /\ pc' = [pc EXCEPT ![v] = "store"]
    /\ UNCHANGED <<known, seq, count, cache, key, kind, report, history>>

(* first_seen_cb: first_seen_seq.store(seq), whatever is there already *)
StoreSeq(v) ==
    /\ pc[v] = "store"
    /\ seq' = [seq EXCEPT ![key[v]] = ticket[v]]
    /\ pc' = [pc EXCEPT ![v] = "idle"]
    /\ key' = [key EXCEPT ![v] = NoKey]
    /\ ticket' = [ticket EXCEPT ![v] = 0]
    /\ UNCHANGED <<known, count, counter, cache, kind, report, execs, born, runners, order>>

(* Guest code overwrites the block: QEMU drops the translation. *)
Invalidate(k) ==
    /\ Running
    /\ cache[k] # "none"
    /\ cache' = [cache EXCEPT ![k] = "none"]
    /\ UNCHANGED <<meta, pc, key, kind, ticket, report, history>>

Quiescent == \A v \in Vcpus : pc[v] = "idle"

(* The code cache is flushed; the plugin's flush_cb does nothing. *)
FlushCb ==
    /\ Running
    /\ Quiescent
    /\ \E k \in TbKeys : cache[k] # "none"
    /\ cache' = [k \in TbKeys |-> "none"]
    /\ UNCHANGED <<meta, pc, key, kind, ticket, report, history>>

(* qemu_plugin_u64_sum over the scoreboard of k *)
TotalExec(k) == SumFunction([v \in Vcpus |-> count[v][k]])

(* plugin_exit: one TB record for every key of tb_map. *)
PluginExit ==
    /\ Running
    /\ Quiescent
    /\ known # {}
    /\ report' = [k \in known |-> [exec |-> TotalExec(k), first_seen |-> seq[k]]]
    /\ UNCHANGED <<meta, qemu, history>>

Next ==
    \/ \E v \in Vcpus, k \in TbKeys : InstrumentTb(v, k) \/ Exec(v, k)
    \/ \E v \in Vcpus : Link(v) \/ FetchSeq(v) \/ StoreSeq(v)
    \/ \E k \in TbKeys : Invalidate(k)
    \/ FlushCb
    \/ PluginExit

Spec == Init /\ [][Next]_vars
-----------------------------------------------------------------------------
TypeOK ==
    /\ known \subseteq TbKeys
    /\ seq \in [TbKeys -> Nat]
    /\ count \in [Vcpus -> [TbKeys -> Nat]]
    /\ counter \in Nat
    /\ cache \in [TbKeys -> {"none", "first", "plain"}]
    /\ pc \in [Vcpus -> {"idle", "translating", "fetch", "store"}]
    /\ key \in [Vcpus -> TbKeys \cup {NoKey}]
    /\ \A v \in Vcpus : pc[v] # "idle" => key[v] \in TbKeys
    /\ kind \in [Vcpus -> {"none", "first", "plain"}]
    /\ ticket \in [Vcpus -> Nat]
    /\ execs \in [TbKeys -> Nat]
    /\ born \in [TbKeys -> Nat]
    /\ runners \in [TbKeys -> SUBSET Vcpus]

(***************************************************************************)
(* The exec_count written at exit is the number of times the block really  *)
(* ran, over all vCPUs, retranslations, invalidations and flushes: tb_map  *)
(* hands every retranslation the scoreboard of the first one.              *)
(***************************************************************************)
ExecCountsExact ==
    \A k \in DOMAIN report : report[k].exec = execs[k]

(***************************************************************************)
(* Two blocks never get the same first-seen number, in whatever order the  *)
(* callbacks of different vCPUs interleave (the converter sorts by it).    *)
(***************************************************************************)
SeqsUnique ==
    \A j, k \in TbKeys : j # k /\ seq[j] # 0 => seq[j] # seq[k]

(***************************************************************************)
(* A number never places a block earlier than it ran: all numbers handed   *)
(* out before the block's first execution on any vCPU are smaller.         *)
(***************************************************************************)
NeverTooEarly ==
    \A k \in TbKeys : seq[k] # 0 => execs[k] > 0 /\ born[k] <= seq[k]

Position(k) == CHOOSE i \in 1 .. Len(order) : order[i] = k

(***************************************************************************)
(* Blocks that only one and the same vCPU runs are numbered in the order   *)
(* they first ran, in spite of retranslations and of the other vCPUs.      *)
(***************************************************************************)
SameVcpuOrder ==
    \A j, k \in TbKeys :
        /\ seq[j] # 0 /\ seq[k] # 0
        /\ runners[j] = runners[k] /\ Cardinality(runners[j]) = 1
        => (Position(j) < Position(k) <=> seq[j] < seq[k])

(***************************************************************************)
(* The test first_seen_seq_populated asserts that an executed block has    *)
(* first_seen_seq > 0.  Refuted: a block that is retranslated before it    *)
(* first runs keeps 0, for a retranslation carries no callback.            *)
(***************************************************************************)
ExecutedHasSeq ==
    \A k \in DOMAIN report : report[k].exec > 0 => report[k].first_seen > 0
=============================================================================
