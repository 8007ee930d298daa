----------------------------- MODULE BlockProofs -----------------------------
(***************************************************************************)
(* Proofs about single blocks: how often and in which order blocks ran     *)
(* (Hotness, for any vCPUs and blocks), and how a block's instructions are *)
(* classified (Decoder, for any bytes of any guest).                       *)
(***************************************************************************)
EXTENDS Hotness, Decoder, TableTheorems, SequenceTheorems

(* Every number handed out is below the counter and is in one place only:  *)
(* in the hands of a callback that has not stored it yet, or in one TbMeta. *)
TicketsUnique ==
    /\ counter >= 1
    /\ \A k \in TbKeys : seq[k] < counter
    /\ \A v \in Vcpus : pc[v] = "store" => ticket[v] >= 1 /\ ticket[v] < counter
    /\ \A v \in Vcpus, k \in TbKeys : pc[v] = "store" => seq[k] # ticket[v]
    /\ \A v, w \in Vcpus : v # w /\ pc[v] = "store" /\ pc[w] = "store"
                             => ticket[v] # ticket[w]

(* The history of a block's first execution, along the steps of its callback. *)
TicketsLate ==
    /\ \A k \in TbKeys : execs[k] > 0 => born[k] <= counter
    /\ \A v \in Vcpus : pc[v] \in {"fetch", "store"} => execs[key[v]] > 0
    /\ \A v \in Vcpus : pc[v] = "store" => born[key[v]] <= ticket[v]

(* The type invariant: in particular, a vCPU inside a translation or a callback has its block. *)
THEOREM TypeInvariant == Spec => []TypeOK
<1> USE NoKeyAssumption, MaxExecAssumption
<1>1. Init => TypeOK
  <2> SUFFICES ASSUME Init PROVE TypeOK
    OBVIOUS
  <2>1. count \in [Vcpus -> [TbKeys -> Nat]]
    <3>1. [k \in TbKeys |-> 0] \in [TbKeys -> Nat]
      OBVIOUS
    <3> QED
      BY <3>1 DEF Init
  <2>2. runners \in [TbKeys -> SUBSET Vcpus]
    BY DEF Init
  <2> QED
    BY <2>1, <2>2 DEF Init, TypeOK
<1>2. TypeOK /\ [Next]_vars => TypeOK'
  <2> SUFFICES ASSUME TypeOK, [Next]_vars PROVE TypeOK'
    OBVIOUS
  <2> USE DEF TypeOK, history, meta, qemu
  <2>1. ASSUME NEW v \in Vcpus, NEW k \in TbKeys, InstrumentTb(v, k) PROVE TypeOK'
    BY <2>1 DEF InstrumentTb
  <2>2. ASSUME NEW v \in Vcpus, NEW k \in TbKeys, Exec(v, k) PROVE TypeOK'
    <3>1. count[v][k] + 1 \in Nat /\ execs[k] + 1 \in Nat /\ counter \in Nat
      OBVIOUS
    <3>2. count' \in [Vcpus -> [TbKeys -> Nat]]
      BY <2>2, <3>1 DEF Exec
    <3>3. execs' \in [TbKeys -> Nat] /\ born' \in [TbKeys -> Nat]
      BY <2>2, <3>1 DEF Exec
    <3>4. runners' \in [TbKeys -> SUBSET Vcpus]
      BY <2>2 DEF Exec
    <3>5. /\ pc' \in [Vcpus -> {"idle", "translating", "fetch", "store"}]
          /\ key' \in [Vcpus -> TbKeys \cup {NoKey}]
          /\ \A w \in Vcpus : pc'[w] # "idle" => key'[w] \in TbKeys
      <4>1. CASE pc' = [pc EXCEPT ![v] = "fetch"] /\ key' = [key EXCEPT ![v] = k]
        BY <4>1
      <4>2. CASE UNCHANGED <<pc, key>>
        BY <4>2
      <4> QED
        BY <2>2, <4>1, <4>2, Zenon DEF Exec
    <3> QED
      BY <2>2, <3>2, <3>3, <3>4, <3>5 DEF Exec
  <2>3. ASSUME NEW v \in Vcpus, Link(v) PROVE TypeOK'
    BY <2>3 DEF Link
  <2>4. ASSUME NEW v \in Vcpus, FetchSeq(v) PROVE TypeOK'
    BY <2>4 DEF FetchSeq
  <2>5. ASSUME NEW v \in Vcpus, StoreSeq(v) PROVE TypeOK'
    BY <2>5 DEF StoreSeq
  <2>6. ASSUME NEW k \in TbKeys, Invalidate(k) PROVE TypeOK'
    BY <2>6 DEF Invalidate
  <2>7. CASE FlushCb
    BY <2>7 DEF FlushCb
  <2>8. CASE PluginExit
    BY <2>8 DEF PluginExit
  <2>9. CASE UNCHANGED vars
    BY <2>9 DEF vars
  <2> QED
    BY <2>1, <2>2, <2>3, <2>4, <2>5, <2>6, <2>7, <2>8, <2>9 DEF Next
<1> QED
  BY <1>1, <1>2, PTL DEF Spec

(* fetch_add gives every callback a number of its own. *)
LEMMA TicketsUniqueInvariant == Spec => []TicketsUnique
<1>1. Init => TicketsUnique
  BY DEF Init, TicketsUnique
<1>2. TypeOK /\ TicketsUnique /\ [Next]_vars => TicketsUnique'
  <2> SUFFICES ASSUME TypeOK, TicketsUnique, [Next]_vars PROVE TicketsUnique'
    OBVIOUS
  <2> USE DEF history, meta, qemu
  <2>1. ASSUME NEW v \in Vcpus, NEW k \in TbKeys, InstrumentTb(v, k) PROVE TicketsUnique'
    BY <2>1 DEF InstrumentTb, TypeOK, TicketsUnique
  <2>2. ASSUME NEW v \in Vcpus, NEW k \in TbKeys, Exec(v, k) PROVE TicketsUnique'
    BY <2>2 DEF Exec, TypeOK, TicketsUnique
  <2>3. ASSUME NEW v \in Vcpus, Link(v) PROVE TicketsUnique'
    BY <2>3 DEF Link, TypeOK, TicketsUnique
  <2>4. ASSUME NEW v \in Vcpus, FetchSeq(v) PROVE TicketsUnique'
    BY <2>4 DEF FetchSeq, TypeOK, TicketsUnique
  <2>5. ASSUME NEW v \in Vcpus, StoreSeq(v) PROVE TicketsUnique'
    BY <2>5 DEF StoreSeq, TypeOK, TicketsUnique
  <2>6. ASSUME NEW k \in TbKeys, Invalidate(k) PROVE TicketsUnique'
    BY <2>6 DEF Invalidate, TypeOK, TicketsUnique
  <2>7. CASE FlushCb
    BY <2>7 DEF FlushCb, TypeOK, TicketsUnique
  <2>8. CASE PluginExit
    BY <2>8 DEF PluginExit, TypeOK, TicketsUnique
  <2>9. CASE UNCHANGED vars
    BY <2>9 DEF vars, TypeOK, TicketsUnique
  <2> QED
    BY <2>1, <2>2, <2>3, <2>4, <2>5, <2>6, <2>7, <2>8, <2>9 DEF Next
<1> QED
  BY <1>1, <1>2, TypeInvariant, PTL DEF Spec

(***************************************************************************)
(* SeqsUnique: no two blocks share a first-seen number.                    *)
(***************************************************************************)
THEOREM FirstSeenUnique == Spec => []SeqsUnique
<1>1. Init => SeqsUnique
  BY DEF Init, SeqsUnique
<1>2. TypeOK /\ TicketsUnique /\ SeqsUnique /\ [Next]_vars => SeqsUnique'
  <2> SUFFICES ASSUME TypeOK, TicketsUnique, SeqsUnique, [Next]_vars PROVE SeqsUnique'
    OBVIOUS
  <2>1. ASSUME NEW v \in Vcpus, StoreSeq(v) PROVE SeqsUnique'
    BY <2>1 DEF StoreSeq, TypeOK, TicketsUnique, SeqsUnique
  <2>2. CASE seq' = seq
    BY <2>2 DEF SeqsUnique
  <2>3. Next => seq' = seq \/ \E v \in Vcpus : StoreSeq(v)
    BY DEF Next, InstrumentTb, Exec, Link, FetchSeq, Invalidate, FlushCb, PluginExit, meta
  <2> QED
    BY <2>1, <2>2, <2>3 DEF vars, meta
<1> QED
  BY <1>1, <1>2, TypeInvariant, TicketsUniqueInvariant, PTL DEF Spec

(* A callback runs after the execution that triggered it. *)
LEMMA TicketsLateInvariant == Spec => []TicketsLate
<1>1. Init => TicketsLate
  BY DEF Init, TicketsLate
<1>2. TypeOK /\ TicketsLate /\ [Next]_vars => TicketsLate'
  <2> SUFFICES ASSUME TypeOK, TicketsLate, [Next]_vars PROVE TicketsLate'
    OBVIOUS
  <2> USE DEF history, meta, qemu
  <2>1. ASSUME NEW v \in Vcpus, NEW k \in TbKeys, InstrumentTb(v, k) PROVE TicketsLate'
    BY <2>1 DEF InstrumentTb, TypeOK, TicketsLate
  <2>2. ASSUME NEW v \in Vcpus, NEW k \in TbKeys, Exec(v, k) PROVE TicketsLate'
    <3>1. counter' = counter /\ ticket' = ticket /\ execs[k] \in Nat
      BY <2>2 DEF Exec, TypeOK
    <3>2. \A j \in TbKeys : execs'[j] = IF j = k THEN execs[j] + 1 ELSE execs[j]
      BY <2>2 DEF Exec, TypeOK
    <3>3. \A j \in TbKeys : born'[j] = IF j = k /\ execs[k] = 0 THEN counter ELSE born[j]
      BY <2>2 DEF Exec, TypeOK
    <3>4. /\ pc[v] = "idle"
          /\ \/ pc' = [pc EXCEPT ![v] = "fetch"] /\ key' = [key EXCEPT ![v] = k]
             \/ UNCHANGED <<pc, key>>
      BY <2>2, Zenon DEF Exec
    <3>5. \A j \in TbKeys : execs'[j] > 0 => born'[j] <= counter'
      BY <3>1, <3>2, <3>3 DEF TypeOK, TicketsLate
    <3>6. \A w \in Vcpus : pc'[w] \in {"fetch", "store"} => execs'[key'[w]] > 0
      BY <3>1, <3>2, <3>4 DEF TypeOK, TicketsLate
    <3>7. \A w \in Vcpus : pc'[w] = "store" => born'[key'[w]] <= ticket'[w]
      <4> SUFFICES ASSUME NEW w \in Vcpus, pc'[w] = "store"
                   PROVE  born'[key'[w]] <= ticket'[w]
        OBVIOUS
      <4>1. pc[w] = "store" /\ key'[w] = key[w] /\ key[w] \in TbKeys
        BY <3>4 DEF TypeOK
      <4>2. execs[key[w]] > 0 /\ born[key[w]] <= ticket[w]
        BY <4>1 DEF TicketsLate
      <4> QED
        BY <3>1, <3>3, <4>1, <4>2
    <3> QED
      BY <3>5, <3>6, <3>7 DEF TicketsLate
  <2>3. ASSUME NEW v \in Vcpus, Link(v) PROVE TicketsLate'
    BY <2>3 DEF Link, TypeOK, TicketsLate
  <2>4. ASSUME NEW v \in Vcpus, FetchSeq(v) PROVE TicketsLate'
    BY <2>4 DEF FetchSeq, TypeOK, TicketsLate
  <2>5. ASSUME NEW v \in Vcpus, StoreSeq(v) PROVE TicketsLate'
    BY <2>5 DEF StoreSeq, TypeOK, TicketsLate
  <2>6. ASSUME NEW k \in TbKeys, Invalidate(k) PROVE TicketsLate'
    BY <2>6 DEF Invalidate, TypeOK, TicketsLate
  <2>7. CASE FlushCb
    BY <2>7 DEF FlushCb, TypeOK, TicketsLate
  <2>8. CASE PluginExit
    BY <2>8 DEF PluginExit, TypeOK, TicketsLate
  <2>9. CASE UNCHANGED vars
    BY <2>9 DEF vars, TypeOK, TicketsLate
  <2> QED
    BY <2>1, <2>2, <2>3, <2>4, <2>5, <2>6, <2>7, <2>8, <2>9 DEF Next
<1> QED
  BY <1>1, <1>2, TypeInvariant, PTL DEF Spec

(***************************************************************************)
(* NeverTooEarly: the number of a block is at least the counter's value    *)
(* when the block first ran, whichever vCPU's store came last.             *)
(***************************************************************************)
THEOREM FirstSeenNeverTooEarly == Spec => []NeverTooEarly
<1>1. Init => NeverTooEarly
  BY DEF Init, NeverTooEarly
<1>2. TypeOK /\ TicketsLate /\ NeverTooEarly /\ [Next]_vars => NeverTooEarly'
  <2> SUFFICES ASSUME TypeOK, TicketsLate, NeverTooEarly, [Next]_vars PROVE NeverTooEarly'
    OBVIOUS
  <2>1. ASSUME NEW v \in Vcpus, StoreSeq(v) PROVE NeverTooEarly'
    BY <2>1 DEF StoreSeq, TypeOK, TicketsLate, NeverTooEarly
  <2>2. ASSUME NEW v \in Vcpus, NEW k \in TbKeys, Exec(v, k) PROVE NeverTooEarly'
    BY <2>2 DEF Exec, TypeOK, NeverTooEarly
  <2>3. CASE UNCHANGED <<seq, execs, born>>
    BY <2>3 DEF NeverTooEarly
  <2>4. Next => \/ UNCHANGED <<seq, execs, born>>
                \/ \E v \in Vcpus : StoreSeq(v)
                \/ \E v \in Vcpus, k \in TbKeys : Exec(v, k)
    BY DEF Next, InstrumentTb, Link, FetchSeq, Invalidate, FlushCb, PluginExit, meta, history
  <2> QED
    BY <2>1, <2>2, <2>3, <2>4 DEF vars, meta, history
<1> QED
  BY <1>1, <1>2, TypeInvariant, TicketsLateInvariant, PTL DEF Spec
-----------------------------------------------------------------------------
(* The scoreboard's total is the number of executions, up to the exit. *)
CountsTotal == \A k \in TbKeys : TotalExec(k) = execs[k]

(* Every inline ADD reaches the total: whoever runs a block bumps one slot of it. *)
LEMMA CountsTotalInvariant == Spec => []CountsTotal
<1>1. Init => CountsTotal
  <2> SUFFICES ASSUME Init, NEW k \in TbKeys PROVE TotalExec(k) = execs[k]
    BY DEF CountsTotal
  <2> DEFINE f == [v \in Vcpus |-> count[v][k]]
  <2>1. \A v \in Vcpus : f[v] = IF v = NoKey THEN 0 ELSE 0
    BY DEF Init
  <2>2. DOMAIN f = Vcpus /\ execs[k] = 0
    BY DEF Init
  <2>3. TotalExec(k) = SumFunctionOnSet(f, DOMAIN f)
    BY DEF TotalExec, SumFunction
  <2> HIDE DEF f
  <2>4. SumFunctionOnSet(f, Vcpus) = 0
    BY <2>1, SumPoint, VcpusAssumption
  <2> QED
    BY <2>2, <2>3, <2>4
<1>2. TypeOK /\ CountsTotal /\ [Next]_vars => CountsTotal'
  <2> SUFFICES ASSUME TypeOK, CountsTotal, [Next]_vars PROVE CountsTotal'
    OBVIOUS
  <2>1. ASSUME NEW v \in Vcpus, NEW k \in TbKeys, Exec(v, k) PROVE CountsTotal'
    <3> SUFFICES ASSUME NEW j \in TbKeys PROVE TotalExec(j)' = execs'[j]
      BY DEF CountsTotal
    <3> DEFINE f == [w \in Vcpus |-> count[w][j]]
               g == [w \in Vcpus |-> count'[w][j]]
               n == IF j = k THEN 1 ELSE 0
    <3>1. \A w \in Vcpus : f[w] \in Nat /\ g[w] = IF w = v THEN f[w] + n ELSE f[w]
      BY <2>1 DEF Exec, TypeOK
    <3>2. execs'[j] = execs[j] + n
      BY <2>1 DEF Exec, TypeOK
    <3>3. TotalExec(j) = SumFunctionOnSet(f, DOMAIN f) /\ TotalExec(j)' = SumFunctionOnSet(g, DOMAIN g)
      BY DEF TotalExec, SumFunction
    <3>4. DOMAIN f = Vcpus /\ DOMAIN g = Vcpus /\ n \in Nat
      OBVIOUS
    <3> HIDE DEF f, g, n
    <3>5. SumFunctionOnSet(g, Vcpus) = SumFunctionOnSet(f, Vcpus) + n
      BY <3>1, <3>4, SumBump, VcpusAssumption
    <3> QED
      BY <3>2, <3>3, <3>4, <3>5 DEF CountsTotal
  <2>2. CASE UNCHANGED <<count, execs>>
    BY <2>2 DEF CountsTotal, TotalExec
  <2>3. Next => UNCHANGED <<count, execs>> \/ \E v \in Vcpus, k \in TbKeys : Exec(v, k)
    BY DEF Next, InstrumentTb, Link, FetchSeq, StoreSeq, Invalidate, FlushCb, PluginExit, meta, history
  <2> QED
    BY <2>1, <2>2, <2>3 DEF vars, meta, history
<1> QED
  BY <1>1, <1>2, TypeInvariant, PTL DEF Spec

(***************************************************************************)
(* ExecCountsExact: for any number of vCPUs the exec_count in the profile  *)
(* is the number of executions, through retranslations and flushes.        *)
(***************************************************************************)
THEOREM ExecCountsReported == Spec => []ExecCountsExact
<1>1. Init => ExecCountsExact
  BY DEF Init, ExecCountsExact
<1>2. TypeOK /\ CountsTotal /\ ExecCountsExact /\ [Next]_vars => ExecCountsExact'
  <2> SUFFICES ASSUME TypeOK, CountsTotal, ExecCountsExact, [Next]_vars PROVE ExecCountsExact'
    OBVIOUS
  <2>1. ASSUME NEW v \in Vcpus, NEW k \in TbKeys, Exec(v, k) PROVE ExecCountsExact'
    <3>1. report' = <<>>
      BY <2>1 DEF Exec, Running
    <3> QED
      BY <3>1 DEF ExecCountsExact
  <2>2. CASE PluginExit
    BY <2>2 DEF PluginExit, ExecCountsExact, CountsTotal, TypeOK, history
  <2>3. CASE UNCHANGED <<report, execs>>
    BY <2>3 DEF ExecCountsExact
  <2>4. Next => \/ UNCHANGED <<report, execs>> \/ PluginExit
                \/ \E v \in Vcpus, k \in TbKeys : Exec(v, k)
    BY DEF Next, InstrumentTb, Link, FetchSeq, StoreSeq, Invalidate, FlushCb, history
  <2> QED
    BY <2>1, <2>2, <2>3, <2>4 DEF vars, history
<1> QED
  BY <1>1, <1>2, TypeInvariant, CountsTotalInvariant, PTL DEF Spec
-----------------------------------------------------------------------------
(* j first ran before k did. *)
Before(j, k) == \E a, b \in 1 .. Len(order) : a < b /\ order[a] = j /\ order[b] = k

(* The log of first executions has each executed block once. *)
OrderOK ==
    /\ order \in Seq(TbKeys)
    /\ \A a, b \in 1 .. Len(order) : order[a] = order[b] => a = b
    /\ \A k \in TbKeys : execs[k] > 0 <=> \E a \in 1 .. Len(order) : order[a] = k

(* Who ran what, and what the callbacks under way are for. *)
RunnersOK ==
    /\ \A v \in Vcpus, k \in TbKeys : v \in runners[k] <=> count[v][k] > 0
    /\ \A k \in TbKeys : execs[k] = 0 <=> runners[k] = {}
    /\ \A v \in Vcpus : pc[v] \in {"fetch", "store"} => v \in runners[key[v]]

(***************************************************************************)
(* Why the numbers of one vCPU's own blocks follow the order of execution: *)
(* while it is in a callback it runs nothing else, so the block of the     *)
(* callback is the last of its own, and its number the largest.            *)
(***************************************************************************)
Own(v, k) == runners[k] = {v}

OwnBlocksOrdered ==
    /\ \A v \in Vcpus, j \in TbKeys :
          pc[v] \in {"fetch", "store"} /\ Own(v, key[v]) /\ Own(v, j) /\ j # key[v]
             => Before(j, key[v])
    /\ \A v \in Vcpus, j \in TbKeys :
          pc[v] = "store" /\ Own(v, j) /\ j # key[v] => seq[j] < ticket[v]
    /\ \A v \in Vcpus, j, k \in TbKeys :
          Own(v, j) /\ Own(v, k) /\ j # k /\ seq[j] # 0 /\ seq[k] # 0
             => (Before(j, k) <=> seq[j] < seq[k])

(* A first execution is logged once, at the end. *)
LEMMA OrderInvariant == Spec => []OrderOK
<1>1. Init => OrderOK
  BY DEF Init, OrderOK
<1>2. TypeOK /\ OrderOK /\ [Next]_vars => OrderOK'
  <2> SUFFICES ASSUME TypeOK, OrderOK, [Next]_vars PROVE OrderOK'
    OBVIOUS
  <2>1. ASSUME NEW v \in Vcpus, NEW k \in TbKeys, Exec(v, k) PROVE OrderOK'
    <3>1. \A j \in TbKeys : execs[j] \in Nat /\ execs'[j] = IF j = k THEN execs[j] + 1 ELSE execs[j]
      BY <2>1 DEF Exec, TypeOK
    <3>2. CASE execs[k] = 0
      <4>1. order' = Append(order, k)
        BY <2>1, <3>2 DEF Exec
      <4>2. /\ order' \in Seq(TbKeys) /\ Len(order) \in Nat /\ Len(order') = Len(order) + 1
            /\ \A a \in 1 .. Len(order) : order'[a] = order[a] /\ order[a] # k
            /\ order'[Len(order) + 1] = k
        BY <3>2, <4>1 DEF OrderOK
      <4> QED
        BY <3>1, <3>2, <4>2, SMTT(60) DEF OrderOK
    <3>3. CASE execs[k] # 0
      BY <2>1, <3>1, <3>3 DEF Exec, OrderOK
    <3> QED
      BY <3>2, <3>3
  <2>2. CASE UNCHANGED <<execs, order>>
    BY <2>2 DEF OrderOK
  <2>3. Next => UNCHANGED <<execs, order>> \/ \E v \in Vcpus, k \in TbKeys : Exec(v, k)
    BY DEF Next, InstrumentTb, Link, FetchSeq, StoreSeq, Invalidate, FlushCb, PluginExit, history
  <2> QED
    BY <2>1, <2>2, <2>3 DEF vars, history
<1> QED
  BY <1>1, <1>2, TypeInvariant, PTL DEF Spec

(* A vCPU that is in a block's callback has run the block. *)
LEMMA RunnersInvariant == Spec => []RunnersOK
<1>1. Init => RunnersOK
  BY DEF Init, RunnersOK
<1>2. TypeOK /\ RunnersOK /\ [Next]_vars => RunnersOK'
  <2> SUFFICES ASSUME TypeOK, RunnersOK, [Next]_vars PROVE RunnersOK'
    OBVIOUS
  <2> USE DEF history, meta, qemu
  <2>1. ASSUME NEW v \in Vcpus, NEW k \in TbKeys, InstrumentTb(v, k) PROVE RunnersOK'
    BY <2>1 DEF InstrumentTb, TypeOK, RunnersOK
  <2>2. ASSUME NEW v \in Vcpus, NEW k \in TbKeys, Exec(v, k) PROVE RunnersOK'
    <3>1. \A j \in TbKeys : execs[j] \in Nat /\ execs'[j] = IF j = k THEN execs[j] + 1 ELSE execs[j]
      BY <2>2 DEF Exec, TypeOK
    <3>2. /\ runners'[k] = runners[k] \cup {v}
          /\ \A j \in TbKeys : j # k => runners'[j] = runners[j]
      BY <2>2 DEF Exec, TypeOK
    <3>3. \A w \in Vcpus, j \in TbKeys :
             count[w][j] \in Nat /\ count'[w][j] = IF w = v /\ j = k THEN count[w][j] + 1 ELSE count[w][j]
      BY <2>2 DEF Exec, TypeOK
    <3>4. \/ pc' = [pc EXCEPT ![v] = "fetch"] /\ key' = [key EXCEPT ![v] = k]
          \/ UNCHANGED <<pc, key>>
      BY <2>2, Zenon DEF Exec
    <3>5. \A w \in Vcpus, j \in TbKeys : w \in runners'[j] <=> count'[w][j] > 0
      <4> TAKE w \in Vcpus, j \in TbKeys
      <4>1. w \in runners[j] <=> count[w][j] > 0
        BY DEF RunnersOK
      <4>2. w \in runners'[j] <=> w \in runners[j] \/ (w = v /\ j = k)
        BY <3>2
      <4> QED
        BY <3>3, <4>1, <4>2
    <3>6. \A j \in TbKeys : execs'[j] = 0 <=> runners'[j] = {}
      <4> TAKE j \in TbKeys
      <4>1. CASE j = k
        <5>1. execs'[j] # 0 /\ v \in runners'[j]
          BY <3>1, <3>2, <4>1
        <5> QED
          BY <5>1
      <4>2. CASE j # k
        <5>1. execs'[j] = execs[j] /\ runners'[j] = runners[j]
          BY <3>1, <3>2, <4>2
        <5> QED
          BY <5>1 DEF RunnersOK
      <4> QED
        BY <4>1, <4>2
    <3>7. ASSUME NEW w \in Vcpus, pc'[w] \in {"fetch", "store"} PROVE w \in runners'[key'[w]]
      <4>1. CASE w = v /\ key'[w] = k
        BY <3>2, <4>1
      <4>2. CASE pc'[w] = pc[w] /\ key'[w] = key[w]
        <5>1. w \in runners[key[w]] /\ key[w] \in TbKeys
          BY <3>7, <4>2 DEF RunnersOK, TypeOK
        <5> QED
          BY <3>2, <4>2, <5>1
      <4> QED
        BY <3>4, <4>1, <4>2 DEF TypeOK
    <3> QED
      BY <3>5, <3>6, <3>7 DEF RunnersOK
  <2>3. ASSUME NEW v \in Vcpus, Link(v) PROVE RunnersOK'
    BY <2>3 DEF Link, TypeOK, RunnersOK
  <2>4. ASSUME NEW v \in Vcpus, FetchSeq(v) PROVE RunnersOK'
    BY <2>4 DEF FetchSeq, TypeOK, RunnersOK
  <2>5. ASSUME NEW v \in Vcpus, StoreSeq(v) PROVE RunnersOK'
    BY <2>5 DEF StoreSeq, TypeOK, RunnersOK
  <2>6. ASSUME NEW k \in TbKeys, Invalidate(k) PROVE RunnersOK'
    BY <2>6 DEF Invalidate, TypeOK, RunnersOK
  <2>7. CASE FlushCb
    BY <2>7 DEF FlushCb, TypeOK, RunnersOK
  <2>8. CASE PluginExit
    BY <2>8 DEF PluginExit, TypeOK, RunnersOK
  <2>9. CASE UNCHANGED vars
    BY <2>9 DEF vars, TypeOK, RunnersOK
  <2> QED
    BY <2>1, <2>2, <2>3, <2>4, <2>5, <2>6, <2>7, <2>8, <2>9 DEF Next
<1> QED
  BY <1>1, <1>2, TypeInvariant, PTL DEF Spec

(* Executing a block never reverses the log, and a new block goes behind all others. *)
LEMMA ExecKeepsOrder ==
    ASSUME TypeOK, OrderOK, NEW v \in Vcpus, NEW k \in TbKeys, Exec(v, k)
    PROVE  /\ \A i, j \in TbKeys : Before(i, j) => Before(i, j)'
           /\ \A i, j \in TbKeys : execs[i] > 0 /\ execs[j] > 0 => (Before(i, j)' => Before(i, j))
           /\ execs[k] = 0 => \A i \in TbKeys : execs[i] > 0 => Before(i, k)'
<1>1. CASE execs[k] = 0
  <2>1. order' = Append(order, k) /\ order \in Seq(TbKeys)
    BY <1>1 DEF Exec, OrderOK
  <2>2. /\ Len(order) \in Nat /\ Len(order') = Len(order) + 1
        /\ \A a \in 1 .. Len(order) : order'[a] = order[a]
        /\ order'[Len(order) + 1] = k
    BY <2>1
  <2>3. \A i, j \in TbKeys : Before(i, j) => Before(i, j)'
    BY <2>2 DEF Before
  <2>4. ASSUME NEW i \in TbKeys, NEW j \in TbKeys, execs[i] > 0, execs[j] > 0, Before(i, j)'
        PROVE  Before(i, j)
    <3>1. PICK a, b \in 1 .. Len(order') : a < b /\ order'[a] = i /\ order'[b] = j
      BY <2>4 DEF Before
    <3>2. a # Len(order) + 1 /\ b # Len(order) + 1
      BY <1>1, <2>2, <2>4, <3>1
    <3>3. a \in 1 .. Len(order) /\ b \in 1 .. Len(order)
      BY <2>2, <3>1, <3>2
    <3>4. order[a] = i /\ order[b] = j
      BY <2>2, <3>1, <3>3
    <3> QED
      BY <3>1, <3>3, <3>4 DEF Before
  <2>5. ASSUME NEW i \in TbKeys, execs[i] > 0 PROVE Before(i, k)'
    <3>1. PICK a \in 1 .. Len(order) : order[a] = i
      BY <2>5 DEF OrderOK
    <3>2. /\ a \in 1 .. Len(order') /\ Len(order') \in 1 .. Len(order') /\ a < Len(order')
          /\ order'[a] = i /\ order'[Len(order')] = k
      BY <2>2, <3>1
    <3> QED
      BY <3>2 DEF Before
  <2> QED
    BY <2>3, <2>4, <2>5
<1>2. CASE execs[k] # 0
  <2>1. order' = order
    BY <1>2 DEF Exec
  <2> QED
    BY <1>2, <2>1 DEF Before
<1> QED
  BY <1>1, <1>2

(* The order of one vCPU's own blocks and the numbers it gives them. *)
LEMMA OwnBlocksInvariant == Spec => []OwnBlocksOrdered
<1>1. Init => OwnBlocksOrdered
  BY DEF Init, OwnBlocksOrdered
<1> DEFINE Ctx == TypeOK /\ TicketsUnique /\ NeverTooEarly /\ OrderOK /\ RunnersOK
<1>2. Ctx /\ OwnBlocksOrdered /\ [Next]_vars => OwnBlocksOrdered'
  <2> SUFFICES ASSUME Ctx, OwnBlocksOrdered, [Next]_vars PROVE OwnBlocksOrdered'
    OBVIOUS
  <2> USE DEF history, meta, qemu
  <2>1. ASSUME NEW v \in Vcpus, NEW k \in TbKeys, Exec(v, k) PROVE OwnBlocksOrdered'
    <3>1. /\ runners'[k] = runners[k] \cup {v}
          /\ \A j \in TbKeys : j # k => runners'[j] = runners[j]
      BY <2>1 DEF Exec, TypeOK
    <3>2. /\ pc[v] = "idle" /\ seq' = seq /\ ticket' = ticket
          /\ \/ pc' = [pc EXCEPT ![v] = "fetch"] /\ key' = [key EXCEPT ![v] = k] /\ count[v][k] + 1 = 1
             \/ UNCHANGED <<pc, key>>
      BY <2>1, Zenon DEF Exec
    <3>3. /\ \A i, j \in TbKeys : Before(i, j) => Before(i, j)'
          /\ \A i, j \in TbKeys : execs[i] > 0 /\ execs[j] > 0 => (Before(i, j)' => Before(i, j))
          /\ execs[k] = 0 => \A i \in TbKeys : execs[i] > 0 => Before(i, k)'
      BY <2>1, ExecKeepsOrder
    <3>4. \A w \in Vcpus, j \in TbKeys : Own(w, j)' => Own(w, j) \/ (w = v /\ j = k /\ execs[k] = 0)
      <4> SUFFICES ASSUME NEW w \in Vcpus, NEW j \in TbKeys, runners'[j] = {w}, runners[j] # {w}
                   PROVE  w = v /\ j = k /\ execs[k] = 0
        BY DEF Own
      <4>1. j = k /\ runners'[k] = runners[k] \cup {v}
        BY <3>1
      <4>2. w = v /\ runners[k] = {}
        BY <4>1
      <4> QED
        BY <4>1, <4>2 DEF RunnersOK
    <3>5. \A w \in Vcpus, j \in TbKeys : Own(w, j) => execs[j] > 0
      BY DEF Own, RunnersOK, TypeOK
    <3>6. ASSUME NEW w \in Vcpus, NEW j \in TbKeys, pc'[w] \in {"fetch", "store"},
                 Own(w, key[w])', Own(w, j)', j # key'[w]
          PROVE  Before(j, key[w])'
      <4>1. CASE pc'[w] = pc[w] /\ key'[w] = key[w]
        <5>1. pc[w] \in {"fetch", "store"} /\ w # v /\ key[w] \in TbKeys
          BY <3>2, <3>6, <4>1 DEF TypeOK
        <5>2. Own(w, key[w]) /\ Own(w, j)
          BY <3>4, <3>6, <4>1, <5>1 DEF Own
        <5>3. Before(j, key[w])
          BY <3>6, <4>1, <5>1, <5>2 DEF OwnBlocksOrdered
        <5>4. \E a, b \in 1 .. Len(order') : a < b /\ order'[a] = j /\ order'[b] = key[w]
          BY <3>3, <5>1, <5>3 DEF Before
        <5> QED
          BY <4>1, <5>4 DEF Before
      <4>2. CASE w = v /\ key'[w] = k /\ count[v][k] + 1 = 1
        <5>1. v \notin runners[k]
          BY <4>2 DEF RunnersOK, TypeOK
        <5>2. execs[k] = 0
          BY <3>4, <3>6, <4>2, <5>1 DEF Own
        <5>3. Own(w, j) /\ execs[j] > 0
          BY <3>4, <3>5, <3>6, <4>2
        <5> QED
          BY <3>3, <4>2, <5>2, <5>3 DEF Before
      <4> QED
        BY <3>2, <4>1, <4>2 DEF TypeOK
    <3>7. ASSUME NEW w \in Vcpus, NEW j \in TbKeys, pc'[w] = "store", Own(w, j)', j # key'[w]
          PROVE  seq'[j] < ticket'[w]
      <4>1. pc[w] = "store" /\ key'[w] = key[w] /\ w # v
        BY <3>2, <3>7 DEF TypeOK
      <4>2. Own(w, j)
        BY <3>4, <3>7, <4>1
      <4> QED
        BY <3>2, <3>7, <4>1, <4>2 DEF OwnBlocksOrdered
    <3>8. ASSUME NEW w \in Vcpus, NEW i \in TbKeys, NEW j \in TbKeys, Own(w, i)', Own(w, j)', i # j,
                 seq'[i] # 0, seq'[j] # 0
          PROVE  Before(i, j)' <=> seq'[i] < seq'[j]
      <4>1. execs[i] > 0 /\ execs[j] > 0
        BY <3>2, <3>8 DEF NeverTooEarly
      <4>2. Own(w, i) /\ Own(w, j)
        BY <3>4, <3>8, <4>1
      <4> QED
        BY <3>2, <3>3, <3>8, <4>1, <4>2 DEF OwnBlocksOrdered
    <3> QED
      BY <3>6, <3>7, <3>8 DEF OwnBlocksOrdered
  <2>2. ASSUME NEW v \in Vcpus, StoreSeq(v) PROVE OwnBlocksOrdered'
    <3>1. /\ order' = order /\ runners' = runners /\ pc[v] = "store" /\ key[v] \in TbKeys
          /\ v \in runners[key[v]]
      BY <2>2 DEF StoreSeq, TypeOK, RunnersOK
    <3>2. \A j \in TbKeys : seq'[j] = IF j = key[v] THEN ticket[v] ELSE seq[j]
      BY <2>2 DEF StoreSeq, TypeOK
    <3>3. /\ \A w \in Vcpus, j \in TbKeys : Own(w, j)' <=> Own(w, j)
          /\ \A i, j \in TbKeys : Before(i, j)' <=> Before(i, j)
      BY <3>1 DEF Own, Before
    <3>4. \A w \in Vcpus : w # v => pc'[w] = pc[w] /\ key'[w] = key[w] /\ ticket'[w] = ticket[w]
      BY <2>2 DEF StoreSeq, TypeOK
    <3>5. pc'[v] = "idle"
      BY <2>2 DEF StoreSeq, TypeOK
    <3>6. ASSUME NEW w \in Vcpus, NEW j \in TbKeys, pc'[w] \in {"fetch", "store"},
                 Own(w, key[w])', Own(w, j)', j # key'[w]
          PROVE  Before(j, key[w])'
      <4>1. w # v /\ pc[w] \in {"fetch", "store"} /\ key'[w] = key[w] /\ key[w] \in TbKeys
        BY <3>4, <3>5, <3>6 DEF TypeOK
      <4>2. Own(w, key[w]) /\ Own(w, j)
        BY <3>1, <3>6, <4>1 DEF Own
      <4>3. Before(j, key[w])
        BY <3>6, <4>1, <4>2 DEF OwnBlocksOrdered
      <4> QED
        BY <3>1, <4>1, <4>3 DEF Before
    <3>7. ASSUME NEW w \in Vcpus, NEW j \in TbKeys, pc'[w] = "store", Own(w, j)', j # key'[w]
          PROVE  seq'[j] < ticket'[w]
      <4>1. w # v /\ pc[w] = "store" /\ key'[w] = key[w] /\ ticket'[w] = ticket[w]
        BY <3>4, <3>5, <3>7
      <4>2. Own(w, j) /\ j # key[v]
        BY <3>1, <3>3, <3>7, <4>1 DEF Own
      <4> QED
        BY <3>2, <3>7, <4>1, <4>2 DEF OwnBlocksOrdered
    <3>8. ASSUME NEW w \in Vcpus, NEW i \in TbKeys, NEW j \in TbKeys, Own(w, i)', Own(w, j)', i # j,
                 seq'[i] # 0, seq'[j] # 0
          PROVE  Before(i, j)' <=> seq'[i] < seq'[j]
      <4>1. Own(w, i) /\ Own(w, j)
        BY <3>3, <3>8
      <4>2. CASE i # key[v] /\ j # key[v]
        BY <3>2, <3>3, <3>8, <4>1, <4>2 DEF OwnBlocksOrdered
      <4>3. ASSUME NEW l \in TbKeys, l # key[v], Own(w, l), Own(w, key[v])
            PROVE  Before(l, key[v]) /\ ~Before(key[v], l) /\ seq'[l] < seq'[key[v]]
        <5>1. w = v
          BY <3>1, <4>3 DEF Own
        <5>2. Before(l, key[v]) /\ seq[l] < ticket[v]
          BY <3>1, <4>3, <5>1 DEF OwnBlocksOrdered
        <5>3. ~Before(key[v], l)
          BY <5>2 DEF Before, OrderOK
        <5> QED
          BY <3>1, <3>2, <4>3, <5>2, <5>3
      <4>4. \A l \in TbKeys : seq'[l] \in Nat
        BY <3>1, <3>2 DEF TypeOK
      <4> QED
        BY <3>1, <3>3, <3>8, <4>1, <4>2, <4>3, <4>4
    <3> QED
      BY <3>6, <3>7, <3>8 DEF OwnBlocksOrdered
  <2>3. ASSUME UNCHANGED <<seq, runners, order>>,
               \A w \in Vcpus : pc'[w] \in {"fetch", "store"}
                                  => pc[w] \in {"fetch", "store"} /\ key'[w] = key[w],
               \A w \in Vcpus : pc'[w] = "store"
                                  => \/ pc[w] = "store" /\ ticket'[w] = ticket[w]
                                     \/ ticket'[w] = counter
        PROVE  OwnBlocksOrdered'
    <3>1. /\ \A w, j : Own(w, j)' <=> Own(w, j)
          /\ \A i, j : Before(i, j)' <=> Before(i, j)
      BY <2>3 DEF Own, Before
    <3>2. ASSUME NEW w \in Vcpus, NEW j \in TbKeys, pc'[w] \in {"fetch", "store"},
                 Own(w, key[w])', Own(w, j)', j # key'[w]
          PROVE  Before(j, key[w])'
      <4>1. pc[w] \in {"fetch", "store"} /\ key'[w] = key[w]
        BY <2>3, <3>2
      <4>2. Own(w, key[w]) /\ Own(w, j)
        BY <2>3, <3>2, <4>1 DEF Own
      <4> QED
        BY <2>3, <3>2, <4>1, <4>2 DEF OwnBlocksOrdered, Before
    <3>3. ASSUME NEW w \in Vcpus, NEW j \in TbKeys, pc'[w] = "store", Own(w, j)', j # key'[w]
          PROVE  seq'[j] < ticket'[w]
      <4>1. key'[w] = key[w] /\ Own(w, j) /\ seq'[j] = seq[j]
        BY <2>3, <3>1, <3>3
      <4>2. CASE pc[w] = "store" /\ ticket'[w] = ticket[w]
        BY <3>3, <4>1, <4>2 DEF OwnBlocksOrdered
      <4>3. CASE ticket'[w] = counter
        BY <4>1, <4>3 DEF TicketsUnique
      <4> QED
        BY <2>3, <3>3, <4>2, <4>3
    <3>4. \A w \in Vcpus, i, j \in TbKeys :
             Own(w, i)' /\ Own(w, j)' /\ i # j /\ seq'[i] # 0 /\ seq'[j] # 0
                => (Before(i, j)' <=> seq'[i] < seq'[j])
      BY <2>3, <3>1 DEF OwnBlocksOrdered
    <3> QED
      BY <3>2, <3>3, <3>4 DEF OwnBlocksOrdered
  <2>4. ASSUME NEW v \in Vcpus, Link(v) \/ FetchSeq(v) \/ \E k \in TbKeys : InstrumentTb(v, k)
        PROVE  OwnBlocksOrdered'
    <3>1. /\ UNCHANGED <<seq, runners, order>>
          /\ \A w \in Vcpus : pc'[w] \in {"fetch", "store"}
                                => pc[w] \in {"fetch", "store"} /\ key'[w] = key[w]
          /\ \A w \in Vcpus : pc'[w] = "store"
                                => \/ pc[w] = "store" /\ ticket'[w] = ticket[w]
                                   \/ ticket'[w] = counter
      BY <2>4 DEF InstrumentTb, Link, FetchSeq, TypeOK
    <3> QED
      BY <2>3, <3>1
  <2>5. CASE UNCHANGED <<seq, pc, key, ticket, runners, order>>
    BY <2>5 DEF OwnBlocksOrdered, Own, Before
  <2>6. Next => \/ \E v \in Vcpus, k \in TbKeys : InstrumentTb(v, k) \/ Exec(v, k)
                \/ \E v \in Vcpus : Link(v) \/ FetchSeq(v) \/ StoreSeq(v)
                \/ UNCHANGED <<seq, pc, key, ticket, runners, order>>
    BY DEF Next, Invalidate, FlushCb, PluginExit
  <2> QED
    BY <2>1, <2>2, <2>4, <2>5, <2>6 DEF vars
<1> QED
  BY <1>1, <1>2, TypeInvariant, TicketsUniqueInvariant, FirstSeenNeverTooEarly,
     OrderInvariant, RunnersInvariant, PTL DEF Spec

(***************************************************************************)
(* SameVcpuOrder: the first-seen numbers of blocks that one vCPU alone     *)
(* runs are in the order of their first executions.                        *)
(***************************************************************************)
THEOREM FirstSeenFollowsVcpu == Spec => []SameVcpuOrder
<1> DEFINE Ctx == TypeOK /\ NeverTooEarly /\ OrderOK /\ OwnBlocksOrdered
<1>1. Ctx => SameVcpuOrder
  <2> SUFFICES ASSUME Ctx, NEW j \in TbKeys, NEW k \in TbKeys, seq[j] # 0, seq[k] # 0,
                      runners[j] = runners[k], Cardinality(runners[j]) = 1
               PROVE  Position(j) < Position(k) <=> seq[j] < seq[k]
    BY DEF SameVcpuOrder
  <2>1. PICK v \in Vcpus : Own(v, j) /\ Own(v, k)
    <3>1. IsFiniteSet(runners[j]) /\ runners[j] \subseteq Vcpus
      BY VcpusAssumption, FS_Subset DEF TypeOK
    <3>2. \E v : runners[j] = {v}
      BY <3>1, FS_Singleton
    <3> QED
      BY <3>1, <3>2 DEF Own
  <2>2. \A l \in TbKeys : seq[l] # 0 =>
           /\ Position(l) \in 1 .. Len(order) /\ order[Position(l)] = l
           /\ \A a \in 1 .. Len(order) : order[a] = l => a = Position(l)
    BY DEF NeverTooEarly, OrderOK, Position
  <2>3. CASE j = k
    BY <2>2, <2>3 DEF TypeOK, OrderOK
  <2>4. CASE j # k
    <3>1. Before(j, k) <=> seq[j] < seq[k]
      BY <2>1, <2>4 DEF OwnBlocksOrdered
    <3>2. Before(j, k) <=> Position(j) < Position(k)
      BY <2>2 DEF Before
    <3> QED
      BY <3>1, <3>2
  <2> QED
    BY <2>3, <2>4
<1> QED
  BY <1>1, TypeInvariant, FirstSeenNeverTooEarly, OrderInvariant, OwnBlocksInvariant, PTL

-----------------------------------------------------------------------------
(* A 32-bit word in its two halves. *)
IsWord(w) ==
    /\ w.hi \in Int /\ 0 <= w.hi /\ w.hi < 65536
    /\ w.lo \in Int /\ 0 <= w.lo /\ w.lo < 65536

(* Instruction bytes as numbers. *)
LEMMA ByteFacts ==
    ASSUME NEW bytes \in Seq(0 .. 255)
    PROVE  \A i \in 1 .. Len(bytes) : bytes[i] \in Int /\ 0 <= bytes[i] /\ bytes[i] < 256
<1> DEFINE B == 0 .. 255
<1>1. \A b \in B : b \in Int /\ 0 <= b /\ b < 256
  OBVIOUS
<1>2. bytes \in Seq(B)
  OBVIOUS
<1> HIDE DEF B
<1> QED
  BY <1>1, <1>2, ElementOfSeq

(* Little-endian bytes make a word. *)
LEMMA WordFacts ==
    ASSUME NEW bytes \in Seq(0 .. 255)
    PROVE  /\ Len(bytes) >= 2 => IsWord(Short(bytes))
           /\ Len(bytes) >= 4 => IsWord(Word(bytes))
<1>1. \A i \in 1 .. Len(bytes) : bytes[i] \in Int /\ 0 <= bytes[i] /\ bytes[i] < 256
  BY ByteFacts
<1>2. ASSUME Len(bytes) >= 2 PROVE Half(bytes, 1) \in Int /\ 0 <= Half(bytes, 1) /\ Half(bytes, 1) < 65536
  <2>1. 1 \in 1 .. Len(bytes) /\ 2 \in 1 .. Len(bytes)
    BY <1>2
  <2> QED
    BY <1>1, <2>1 DEF Half
<1>3. ASSUME Len(bytes) >= 4 PROVE Half(bytes, 3) \in Int /\ 0 <= Half(bytes, 3) /\ Half(bytes, 3) < 65536
  <2>1. 3 \in 1 .. Len(bytes) /\ 4 \in 1 .. Len(bytes)
    BY <1>3
  <2> QED
    BY <1>1, <2>1 DEF Half
<1> QED
  BY <1>2, <1>3 DEF IsWord, Short, Word

(* A test that succeeds found the value it compares each of its fields with. *)
LEMMA Matched ==
    ASSUME NEW w, NEW F, Matches(w, F), NEW a, NEW b, NEW c, <<a, b, c>> \in F
    PROVE  Field(w, a, b) = c
  BY DEF Matches

(* The fields that the masks compare, as arithmetic on the halves. *)
LEMMA MaskFields ==
    ASSUME NEW w, IsWord(w)
    PROVE  /\ Field(w, 31, 27) = w.hi \div 2048
           /\ Field(w, 31, 26) = w.hi \div 1024
           /\ Field(w, 31, 25) = w.hi \div 512
           /\ Field(w, 31, 24) = w.hi \div 256
           /\ Field(w, 31, 23) = w.hi \div 128
           /\ Field(w, 31, 21) = w.hi \div 32
           /\ Field(w, 31, 16) = w.hi
           /\ Field(w, 27, 25) = (w.hi \div 512) % 8
           /\ Field(w, 28, 25) = (w.hi \div 512) % 16
           /\ Field(w, 15, 12) = w.lo \div 4096
           /\ Field(w, 15, 13) = w.lo \div 8192
           /\ Field(w, 6, 0) = w.lo % 128
           /\ Field(w, 1, 0) = w.lo % 4
  BY DEF Field, Bits, IsWord

(* The words each test of classify_hexagon accepts. *)
LEMMA HexagonHits ==
    ASSUME NEW w, IsWord(w), NEW i \in Hits(HexagonRules, w)
    PROVE  \/ i = 1 /\ 20480 <= w.hi /\ w.hi < 21504
           \/ i = 2 /\ 23040 <= w.hi /\ w.hi < 23552
           \/ i = 3 /\ 22528 <= w.hi /\ w.hi < 23040
           \/ i = 4 /\ 23808 <= w.hi /\ w.hi < 24064
<1>1. i \in 1 .. 4 /\ Matches(w, HexagonRules[i].fields)
  BY DEF Hits, HexagonRules
<1>2. /\ <<31, 26, 20>> \in HexagonRules[1].fields
      /\ <<31, 25, 45>> \in HexagonRules[2].fields
      /\ <<31, 25, 44>> \in HexagonRules[3].fields
      /\ <<31, 24, 93>> \in HexagonRules[4].fields
  BY DEF HexagonRules, Rule
<1>3. \/ i = 1 /\ Field(w, 31, 26) = 20
      \/ i = 2 /\ Field(w, 31, 25) = 45
      \/ i = 3 /\ Field(w, 31, 25) = 44
      \/ i = 4 /\ Field(w, 31, 24) = 93
  BY ONLY <1>1, <1>2, Matched
<1>4. \/ i = 1 /\ w.hi \div 1024 = 20
      \/ i = 2 /\ w.hi \div 512 = 45
      \/ i = 3 /\ w.hi \div 512 = 44
      \/ i = 4 /\ w.hi \div 256 = 93
  BY <1>3, MaskFields
<1> QED
  BY ONLY <1>4, IsWord(w) DEF IsWord

(* No coprocessor instruction has 5 in its top four bits. *)
LEMMA HexagonFlags ==
    ASSUME NEW w, IsWord(w), Uses(HexagonResources, w) # {}
    PROVE  w.hi < 20480 \/ 24576 <= w.hi
<1>1. PICK r \in HexagonResources : Matches(w, r[2])
  BY DEF Uses
<1>2. \/ \E c \in {3, 5} : <<31, 27, c>> \in r[2]
      \/ \E c \in {1168, 1335, 1031, 1071} : <<31, 21, c>> \in r[2]
      \/ \E c \in {464, 468, 479, 265} : <<31, 23, c>> \in r[2]
      \/ \E c \in {235, 136, 139, 214, 217, 220} : <<31, 24, c>> \in r[2]
  BY <1>1 DEF HexagonResources
<1>3. \/ Field(w, 31, 27) \in {3, 5}
      \/ Field(w, 31, 21) \in {1168, 1335, 1031, 1071}
      \/ Field(w, 31, 23) \in {464, 468, 479, 265}
      \/ Field(w, 31, 24) \in {235, 136, 139, 214, 217, 220}
  BY ONLY <1>1, <1>2, Matched
<1>4. \/ w.hi \div 2048 \in {3, 5}
      \/ w.hi \div 32 \in {1168, 1335, 1031, 1071}
      \/ w.hi \div 128 \in {464, 468, 479, 265}
      \/ w.hi \div 256 \in {235, 136, 139, 214, 217, 220}
  BY <1>3, MaskFields
<1> QED
  BY ONLY <1>4, IsWord(w) DEF IsWord

(* The words each test of classify_aarch64 accepts. *)
LEMMA Aarch64Hits ==
    ASSUME NEW w, IsWord(w), NEW i \in Hits(Aarch64Rules, w)
    PROVE  \/ i = 1 /\ 37888 <= w.hi /\ w.hi < 38912
           \/ i = 2 /\ 5120 <= w.hi /\ w.hi < 6144
           \/ i = 3 /\ w.hi = 54847
           \/ i = 4 /\ w.hi = 54815
           \/ i = 5 /\ w.hi = 54879
<1>1. i \in 1 .. 5 /\ Matches(w, Aarch64Rules[i].fields)
  BY DEF Hits, Aarch64Rules
<1>2. /\ <<31, 26, 37>> \in Aarch64Rules[1].fields
      /\ <<31, 26, 5>> \in Aarch64Rules[2].fields
      /\ <<31, 16, 54847>> \in Aarch64Rules[3].fields
      /\ <<31, 16, 54815>> \in Aarch64Rules[4].fields
      /\ <<31, 16, 54879>> \in Aarch64Rules[5].fields
  BY DEF Aarch64Rules, Rule
<1>3. \/ i = 1 /\ Field(w, 31, 26) = 37
      \/ i = 2 /\ Field(w, 31, 26) = 5
      \/ i = 3 /\ Field(w, 31, 16) = 54847
      \/ i = 4 /\ Field(w, 31, 16) = 54815
      \/ i = 5 /\ Field(w, 31, 16) = 54879
  BY ONLY <1>1, <1>2, Matched
<1>4. \/ i = 1 /\ w.hi \div 1024 = 37
      \/ i = 2 /\ w.hi \div 1024 = 5
      \/ i = 3 /\ w.hi = 54847
      \/ i = 4 /\ w.hi = 54815
      \/ i = 5 /\ w.hi = 54879
  BY <1>3, MaskFields
<1> QED
  BY ONLY <1>4, IsWord(w) DEF IsWord

(* The bits 28 .. 25 of SIMD and floating-point instructions. *)
LEMMA Aarch64Flags ==
    ASSUME NEW w, IsWord(w), Uses(Aarch64Resources, w) # {}
    PROVE  (w.hi \div 512) % 8 = 7 \/ (w.hi \div 512) % 16 = 2
<1>1. PICK r \in Aarch64Resources : Matches(w, r[2])
  BY DEF Uses
<1>2. <<27, 25, 7>> \in r[2] \/ <<28, 25, 2>> \in r[2]
  BY <1>1 DEF Aarch64Resources
<1>3. Field(w, 27, 25) = 7 \/ Field(w, 28, 25) = 2
  BY ONLY <1>1, <1>2, Matched
<1> QED
  BY <1>3, MaskFields

(* The words each test of classify_riscv accepts. *)
LEMMA RiscvHits ==
    ASSUME NEW w, IsWord(w)
    PROVE  /\ \A i \in Hits(Riscv32Rules, w) :
                (i = 1 /\ w.lo % 128 = 111) \/ (i = 2 /\ w.lo % 128 = 103)
           /\ \A i \in Hits(Riscv16Rules, w) :
                \/ i = 1 /\ w.lo % 4 = 1 /\ w.lo \div 8192 = 5
                \/ i = 2 /\ w.lo % 4 = 1 /\ w.lo \div 8192 = 1
                \/ i = 3 /\ w.lo % 4 = 2 /\ w.lo \div 4096 = 8
                \/ i = 4 /\ w.lo % 4 = 2 /\ w.lo \div 4096 = 9
<1>1. ASSUME NEW i \in Hits(Riscv32Rules, w)
      PROVE  (i = 1 /\ w.lo % 128 = 111) \/ (i = 2 /\ w.lo % 128 = 103)
  <2>1. i \in 1 .. 2 /\ Matches(w, Riscv32Rules[i].fields)
    BY DEF Hits, Riscv32Rules
  <2>2. <<6, 0, 111>> \in Riscv32Rules[1].fields /\ <<6, 0, 103>> \in Riscv32Rules[2].fields
    BY DEF Riscv32Rules, Rule
  <2>3. (i = 1 /\ Field(w, 6, 0) = 111) \/ (i = 2 /\ Field(w, 6, 0) = 103)
    BY ONLY <2>1, <2>2, Matched
  <2> QED
    BY <2>3, MaskFields
<1>2. ASSUME NEW i \in Hits(Riscv16Rules, w)
      PROVE  \/ i = 1 /\ w.lo % 4 = 1 /\ w.lo \div 8192 = 5
             \/ i = 2 /\ w.lo % 4 = 1 /\ w.lo \div 8192 = 1
             \/ i = 3 /\ w.lo % 4 = 2 /\ w.lo \div 4096 = 8
             \/ i = 4 /\ w.lo % 4 = 2 /\ w.lo \div 4096 = 9
  <2>1. i \in 1 .. 4 /\ Matches(w, Riscv16Rules[i].fields)
    BY DEF Hits, Riscv16Rules
  <2>2. /\ <<15, 13, 5>> \in Riscv16Rules[1].fields /\ <<1, 0, 1>> \in Riscv16Rules[1].fields
        /\ <<15, 13, 1>> \in Riscv16Rules[2].fields /\ <<1, 0, 1>> \in Riscv16Rules[2].fields
        /\ <<15, 12, 8>> \in Riscv16Rules[3].fields /\ <<1, 0, 2>> \in Riscv16Rules[3].fields
        /\ <<15, 12, 9>> \in Riscv16Rules[4].fields /\ <<1, 0, 2>> \in Riscv16Rules[4].fields
    BY DEF Riscv16Rules, Rule
  <2>3. \/ i \in {1, 2} /\ Field(w, 1, 0) = 1
        \/ i \in {3, 4} /\ Field(w, 1, 0) = 2
    BY ONLY <2>1, <2>2, Matched
  <2>4. \/ i = 1 /\ Field(w, 15, 13) = 5
        \/ i = 2 /\ Field(w, 15, 13) = 1
        \/ i = 3 /\ Field(w, 15, 12) = 8
        \/ i = 4 /\ Field(w, 15, 12) = 9
    BY ONLY <2>1, <2>2, Matched
  <2> QED
    BY <2>3, <2>4, MaskFields
<1> QED
  BY <1>1, <1>2

(* The opcodes of RISC-V floating-point and vector instructions. *)
LEMMA RiscvFlags ==
    ASSUME NEW w, IsWord(w), Uses(RiscvResources, w) # {}
    PROVE  w.lo % 128 \notin {111, 103}
<1>1. PICK r \in RiscvResources : Matches(w, r[2])
  BY DEF Uses
<1>2. \E c \in {87, 7, 39, 83, 67, 71, 75, 79} : <<6, 0, c>> \in r[2]
  BY <1>1 DEF RiscvResources
<1>3. Field(w, 6, 0) \in {87, 7, 39, 83, 67, 71, 75, 79}
  BY ONLY <1>1, <1>2, Matched
<1> QED
  BY <1>3, MaskFields

(* No word satisfies two tests of a classifier. *)
LEMMA RulesDisjoint ==
    ASSUME NEW w, IsWord(w),
           NEW rules \in {HexagonRules, Aarch64Rules, Riscv32Rules, Riscv16Rules}
    PROVE  \A i, j \in Hits(rules, w) : i = j
<1> SUFFICES ASSUME NEW i \in Hits(rules, w), NEW j \in Hits(rules, w)
             PROVE  i = j
  OBVIOUS
<1>0. w.lo \in Int /\ w.hi \in Int
  BY DEF IsWord
<1>1. CASE rules = HexagonRules
  BY <1>0, <1>1, HexagonHits
<1>2. CASE rules = Aarch64Rules
  BY <1>0, <1>2, Aarch64Hits
<1>3. CASE rules = Riscv32Rules
  BY <1>0, <1>3, RiscvHits
<1>4. CASE rules = Riscv16Rules
  <2>1. /\ \/ i = 1 /\ w.lo % 4 = 1 /\ w.lo \div 8192 = 5
           \/ i = 2 /\ w.lo % 4 = 1 /\ w.lo \div 8192 = 1
           \/ i = 3 /\ w.lo % 4 = 2 /\ w.lo \div 4096 = 8
           \/ i = 4 /\ w.lo % 4 = 2 /\ w.lo \div 4096 = 9
        /\ \/ j = 1 /\ w.lo % 4 = 1 /\ w.lo \div 8192 = 5
           \/ j = 2 /\ w.lo % 4 = 1 /\ w.lo \div 8192 = 1
           \/ j = 3 /\ w.lo % 4 = 2 /\ w.lo \div 4096 = 8
           \/ j = 4 /\ w.lo % 4 = 2 /\ w.lo \div 4096 = 9
    BY <1>4, RiscvHits
  <2> QED
    BY ONLY <1>0, <2>1
<1> QED
  BY <1>1, <1>2, <1>3, <1>4

(* A word that satisfies no test is classified Other. *)
LEMMA NoHit ==
    ASSUME NEW rules, NEW w, FirstMatch(rules, w) # Other
    PROVE  Hits(rules, w) # {}
  BY DEF FirstMatch

(* No transfer of a fixed-width guest is a coprocessor instruction. *)
LEMMA TransferUsesNothing ==
    ASSUME NEW w, IsWord(w)
    PROVE  /\ FirstMatch(HexagonRules, w) # Other => Uses(HexagonResources, w) = {}
           /\ FirstMatch(Aarch64Rules, w) # Other => Uses(Aarch64Resources, w) = {}
           /\ FirstMatch(Riscv32Rules, w) # Other => Uses(RiscvResources, w) = {}
<1>0. w.lo \in Int /\ w.hi \in Int
  BY DEF IsWord
<1>1. ASSUME FirstMatch(HexagonRules, w) # Other, Uses(HexagonResources, w) # {}
      PROVE  FALSE
  <2>1. PICK i : i \in Hits(HexagonRules, w)
    BY <1>1, NoHit
  <2>2. 20480 <= w.hi /\ w.hi < 24576
    BY <1>0, <2>1, HexagonHits
  <2> QED
    BY <1>0, <1>1, <2>2, HexagonFlags
<1>2. ASSUME FirstMatch(Aarch64Rules, w) # Other, Uses(Aarch64Resources, w) # {}
      PROVE  FALSE
  <2>1. PICK i : i \in Hits(Aarch64Rules, w)
    BY <1>2, NoHit
  <2>2. \/ 37888 <= w.hi /\ w.hi < 38912
        \/ 5120 <= w.hi /\ w.hi < 6144
        \/ w.hi \in {54847, 54815, 54879}
    BY <2>1, Aarch64Hits
  <2>3. (w.hi \div 512) % 8 = 7 \/ (w.hi \div 512) % 16 = 2
    BY <1>2, Aarch64Flags
  <2> QED
    BY ONLY <1>0, <2>2, <2>3
<1>3. ASSUME FirstMatch(Riscv32Rules, w) # Other, Uses(RiscvResources, w) # {}
      PROVE  FALSE
  <2>1. PICK i : i \in Hits(Riscv32Rules, w)
    BY <1>3, NoHit
  <2>2. w.lo % 128 \in {111, 103}
    BY <2>1, RiscvHits
  <2> QED
    BY <1>3, <2>2, RiscvFlags
<1> QED
  BY <1>1, <1>2, <1>3

(* The guests whose instructions are decoded. *)
Archs == {"Hexagon", "Aarch64", "Riscv", "X86", "Unknown"}

(* Arch::from_name knows no other guests. *)
LEMMA FromNameType ==
    ASSUME NEW name
    PROVE  FromName(name) \in Archs
  BY DEF FromName, Archs

(* classify and classify_resources never both recognise an instruction. *)
LEMMA ClassesDisjoint ==
    ASSUME NEW bytes \in Seq(0 .. 255), NEW arch \in Archs,
           Classify(arch, bytes) # Other
    PROVE  Resources(arch, bytes) = {}
<1>0. Len(bytes) \in Nat
  OBVIOUS
<1>1. CASE arch = "Hexagon"
  <2>1. Len(bytes) >= 4 /\ ~Duplex(Word(bytes)) /\ FirstMatch(HexagonRules, Word(bytes)) # Other
    BY <1>0, <1>1 DEF Classify, ClassifyHexagon
  <2>2. Resources(arch, bytes) = Uses(HexagonResources, Word(bytes))
    BY <1>0, <1>1, <2>1 DEF Resources
  <2> QED
    BY <2>1, <2>2, WordFacts, TransferUsesNothing
<1>2. CASE arch = "Aarch64"
  <2>1. Len(bytes) >= 4 /\ FirstMatch(Aarch64Rules, Word(bytes)) # Other
    BY <1>0, <1>2 DEF Classify
  <2>2. Resources(arch, bytes) = Uses(Aarch64Resources, Word(bytes))
    BY <1>0, <1>2, <2>1 DEF Resources
  <2> QED
    BY <2>1, <2>2, WordFacts, TransferUsesNothing
<1>3. CASE arch = "Riscv"
  <2>1. ClassifyRiscv(bytes) # Other
    BY <1>3 DEF Classify
  <2>2. CASE Len(bytes) < 4 \/ Compressed(bytes)
    BY <1>0, <1>3, <2>2 DEF Resources
  <2>3. CASE Len(bytes) >= 4 /\ ~Compressed(bytes)
    <3>1. FirstMatch(Riscv32Rules, Word(bytes)) # Other
      BY <1>0, <2>1, <2>3 DEF ClassifyRiscv
    <3>2. Resources(arch, bytes) = Uses(RiscvResources, Word(bytes))
      BY <1>0, <1>3, <2>3 DEF Resources
    <3> QED
      BY <2>3, <3>1, <3>2, WordFacts, TransferUsesNothing
  <2> QED
    BY <1>0, <2>2, <2>3
<1>4. CASE arch = "X86"
  <2> DEFINE op == SkipPrefixes(bytes)
  <2>1. op # <<>> /\ op[1] \in {232, 233, 235, 255}
    BY <1>4 DEF Classify, ClassifyX86
  <2>2. Resources(arch, bytes) = ResourcesX86(bytes)
    BY <1>4 DEF Resources
  <2> QED
    BY <2>1, <2>2 DEF ResourcesX86
<1>5. CASE arch = "Unknown"
  BY <1>5 DEF Classify
<1> QED
  BY <1>1, <1>2, <1>3, <1>4, <1>5 DEF Archs

(* What a decoded instruction was and what was made of it. *)
DecodeResult ==
    \/ insn = <<>>
    \/ \E x \in Inputs : /\ insn = <<x>>
                         /\ class = Classify(FromName(x.target), x.bytes)
                         /\ flags = Resources(FromName(x.target), x.bytes)

(* The specification computes both results from one input. *)
LEMMA DecodeInvariant == DecodeSpec => []DecodeResult
<1>1. DecodeInit => DecodeResult
  BY DEF DecodeInit, DecodeResult
<1>2. DecodeResult /\ [DecodeNext]_decodeVars => DecodeResult'
  BY DEF DecodeResult, DecodeNext, Decode, decodeVars
<1> QED
  BY <1>1, <1>2, PTL DEF DecodeSpec

(***************************************************************************)
(* The masks of classify and classify_resources do not overlap, for every  *)
(* instruction of every guest and not only for the enumerated ones: no     *)
(* word satisfies two tests of its classifier, and none is both a transfer *)
(* and a coprocessor instruction.                                          *)
(***************************************************************************)
THEOREM NoMaskOverlaps == DecodeSpec => []MasksDisjoint
<1>1. DecodeResult => MasksDisjoint
  <2> SUFFICES ASSUME DecodeResult, Decoded PROVE MasksDisjoint
    BY DEF MasksDisjoint
  <2>1. PICK x \in Inputs : /\ insn = <<x>>
                            /\ class = Classify(FromName(x.target), x.bytes)
                            /\ flags = Resources(FromName(x.target), x.bytes)
    BY DEF DecodeResult, Decoded
  <2> DEFINE bytes == x.bytes
             w == IF Len(bytes) < 4 THEN Short(bytes) ELSE Word(bytes)
  <2>2. /\ insn[1].bytes = bytes /\ Arch = FromName(x.target)
        /\ bytes \in Seq(0 .. 255) /\ Arch \in Archs
    BY <2>1, InputsAssumption, FromNameType DEF Arch
  <2>3. class # Other => flags = {}
    BY <2>1, <2>2, ClassesDisjoint
  <2>4. ASSUME Arch \in {"Hexagon", "Aarch64", "Riscv"}, Len(bytes) \in {2, 4}
        PROVE  \A i, j \in Hits(Rules(bytes), w) : i = j
    <3>1. Rules(bytes) \in {HexagonRules, Aarch64Rules, Riscv32Rules, Riscv16Rules}
      BY <2>4 DEF Rules
    <3>2. IsWord(w)
      <4> HIDE DEF bytes
      <4>0. bytes \in Seq(0 .. 255)
        BY <2>2
      <4>1. CASE Len(bytes) = 2
        <5>0. Len(bytes) >= 2
          BY ONLY <4>1
        <5>1. IsWord(Short(bytes))
          BY ONLY <4>0, <5>0, WordFacts
        <5>2. w = Short(bytes)
          BY <4>1
        <5> QED
          BY <5>1, <5>2
      <4>2. CASE Len(bytes) = 4
        <5>0. Len(bytes) >= 4
          BY ONLY <4>2
        <5>1. IsWord(Word(bytes))
          BY ONLY <4>0, <5>0, WordFacts
        <5>2. w = Word(bytes)
          BY <4>2
        <5> QED
          BY <5>1, <5>2
      <4> QED
        BY <2>4, <4>1, <4>2
    <3> HIDE DEF w
    <3> QED
      BY <3>1, <3>2, RulesDisjoint
  <2> HIDE DEF bytes
  <2> QED
    BY <2>2, <2>3, <2>4 DEF MasksDisjoint
<1> QED
  BY <1>1, DecodeInvariant, PTL

(* The powers of two that fit a word. *)
LEMMA Powers ==
    \A k \in 0 .. 30 : /\ 2^k \in Nat /\ 2^k > 0
                       /\ k < 30 => 2^(k + 1) = 2 * 2^k
<1> DEFINE Pow(k) == 2^k
<1>1. /\ Pow(0) = 1 /\ Pow(1) = 2 /\ Pow(2) = 4 /\ Pow(3) = 8
      /\ Pow(4) = 16 /\ Pow(5) = 32 /\ Pow(6) = 64 /\ Pow(7) = 128
      /\ Pow(8) = 256 /\ Pow(9) = 512 /\ Pow(10) = 1024 /\ Pow(11) = 2048
      /\ Pow(12) = 4096 /\ Pow(13) = 8192 /\ Pow(14) = 16384 /\ Pow(15) = 32768
      /\ Pow(16) = 65536 /\ Pow(17) = 131072 /\ Pow(18) = 262144 /\ Pow(19) = 524288
      /\ Pow(20) = 1048576 /\ Pow(21) = 2097152 /\ Pow(22) = 4194304 /\ Pow(23) = 8388608
      /\ Pow(24) = 16777216 /\ Pow(25) = 33554432 /\ Pow(26) = 67108864 /\ Pow(27) = 134217728
      /\ Pow(28) = 268435456 /\ Pow(29) = 536870912 /\ Pow(30) = 1073741824
  OBVIOUS
<1> HIDE DEF Pow
<1>2. ASSUME NEW k \in 0 .. 30
      PROVE  Pow(k) \in Nat /\ Pow(k) > 0 /\ (k < 30 => Pow(k + 1) = 2 * Pow(k))
  BY <1>1
<1> QED
  BY <1>2 DEF Pow

(* Numbers that agree modulo 2m agree in the last bit and, without it, modulo m. *)
LEMMA DropBit ==
    ASSUME NEW x \in Int, NEW y \in Int, NEW m \in Nat, m > 0, x % (2 * m) = y % (2 * m)
    PROVE  x % 2 = y % 2 /\ (x \div 2) % m = (y \div 2) % m
<1> DEFINE M == 2 * m
           q == x \div M
           r == y \div M
           t == x % M
           u == t \div 2
           b == t % 2
<1>1. M \in Nat /\ M > 0 /\ y % M = t
  OBVIOUS
<1>2. /\ q \in Int /\ r \in Int /\ t \in Int
      /\ x = M * q + t /\ y = M * r + t /\ 0 <= t /\ t < M
  <2> HIDE DEF M
  <2> QED
    BY <1>1
<1>3. u \in Int /\ b \in Int /\ t = 2 * u + b /\ 0 <= b /\ b < 2
  <2> HIDE DEF t
  <2> QED
    BY <1>2
<1> HIDE DEF q, r, t, u, b
<1>4. 0 <= u /\ u < m
  BY <1>2, <1>3
<1>5. x = 2 * (m * q + u) + b /\ y = 2 * (m * r + u) + b
  BY <1>2, <1>3
<1>6. x \div 2 = m * q + u /\ y \div 2 = m * r + u /\ x % 2 = b /\ y % 2 = b
  BY <1>2, <1>3, <1>5
<1>7. (m * q + u) % m = u /\ (m * r + u) % m = u
  BY <1>2, <1>3, <1>4
<1> QED
  BY <1>6, <1>7

(* Shifting by one more bit. *)
LEMMA ShiftOne ==
    ASSUME NEW x \in Int, NEW a \in Nat, a > 0
    PROVE  (x \div a) \div 2 = x \div (2 * a)
  OBVIOUS

(* The p bits of x from bit k on are those of y from bit l on. *)
SameRun(x, k, y, l, p) == (x \div 2^k) % 2^p = (y \div 2^l) % 2^p
SameBits(x, k, y, l, p) ==
    \A j \in 0 .. p - 1 : (x \div 2^(k + j)) % 2 = (y \div 2^(l + j)) % 2

(* Equal fields of two numbers are equal bit by bit. *)
LEMMA RunBits ==
    ASSUME NEW x \in Int, NEW y \in Int, NEW k \in Nat, NEW l \in Nat, NEW p \in Nat,
           k + p <= 30, l + p <= 30, SameRun(x, k, y, l, p)
    PROVE  SameBits(x, k, y, l, p)
<1> DEFINE C(j) == (x \div 2^(k + j)) % 2^(p - j) = (y \div 2^(l + j)) % 2^(p - j)
           Bad == {j \in 0 .. p : ~C(j)}
<1>1. ASSUME NEW j \in Nat, j < p, C(j)
      PROVE  (x \div 2^(k + j)) % 2 = (y \div 2^(l + j)) % 2 /\ C(j + 1)
  <2> DEFINE kj == k + j
             lj == l + j
             r == p - (j + 1)
             X == x \div 2^kj
             Y == y \div 2^lj
             m == 2^r
  <2>1. kj \in 0 .. 30 /\ kj < 30 /\ lj \in 0 .. 30 /\ lj < 30 /\ r \in 0 .. 30 /\ r < 30
    BY <1>1
  <2>2. p - j = r + 1 /\ k + (j + 1) = kj + 1 /\ l + (j + 1) = lj + 1 /\ p - (j + 1) = r
    BY <1>1
  <2>3. X % 2^(r + 1) = Y % 2^(r + 1)
    BY <1>1, <2>2
  <2> HIDE DEF kj, lj, r
  <2>4. /\ 2^kj \in Nat /\ 2^kj > 0 /\ 2^(kj + 1) = 2 * 2^kj
        /\ 2^lj \in Nat /\ 2^lj > 0 /\ 2^(lj + 1) = 2 * 2^lj
        /\ m \in Nat /\ m > 0 /\ 2^(r + 1) = 2 * m
    BY <2>1, Powers
  <2>5. X \in Int /\ Y \in Int
    BY <2>4
  <2>6. x \div 2^(kj + 1) = X \div 2 /\ y \div 2^(lj + 1) = Y \div 2
    BY <2>4, ShiftOne
  <2>7. X % (2 * m) = Y % (2 * m)
    BY <2>3, <2>4
  <2> HIDE DEF X, Y, m
  <2>8. X % 2 = Y % 2 /\ (X \div 2) % m = (Y \div 2) % m
    BY <2>4, <2>5, <2>7, DropBit
  <2>9. (x \div 2^(kj + 1)) % 2^r = (y \div 2^(lj + 1)) % 2^r
    BY <2>6, <2>8 DEF m
  <2>10. X % 2 = Y % 2
    BY <2>8
  <2> QED
    BY <2>2, <2>9, <2>10 DEF X, Y, kj, lj
<1>2. C(0)
  BY k + 0 = k, l + 0 = l, p - 0 = p DEF SameRun
<1>3. Bad = {}
  <2> SUFFICES ASSUME Bad # {} PROVE FALSE
    OBVIOUS
  <2>1. Bad \subseteq Nat
    OBVIOUS
  <2>2. PICK j \in Bad : \A i \in Bad : j <= i
    <3> HIDE DEF Bad
    <3> QED
      BY <2>1, SmallestExists
  <2>3. j \in 0 .. p /\ ~C(j)
    OBVIOUS
  <2> HIDE DEF C
  <2>4. j # 0
    BY <1>2, <2>3
  <2>5. j - 1 \in Nat /\ j - 1 < p /\ j - 1 \in 0 .. p /\ (j - 1) + 1 = j
    BY <2>3, <2>4
  <2>6. C(j - 1)
    BY <2>2, <2>5
  <2>7. C((j - 1) + 1)
    BY <1>1, <2>5, <2>6
  <2> QED
    BY <2>3, <2>5, <2>7
<1> SUFFICES ASSUME NEW j \in 0 .. p - 1
             PROVE  (x \div 2^(k + j)) % 2 = (y \div 2^(l + j)) % 2
  BY DEF SameBits
<1>4. j \in Nat /\ j < p /\ j \in 0 .. p
  OBVIOUS
<1>5. C(j)
  <2> HIDE DEF C
  <2> QED
    BY <1>3, <1>4
<1> QED
  BY <1>1, <1>4, <1>5

(* The p bits of v from bit k on are the field of the word w from bit l on. *)
FieldRun(v, k, w, l, p) == (v \div 2^k) % 2^p = Field(w, l + p - 1, l)
BitIs(v, a, w, b) == (v \div 2^a) % 2 = Field(w, b, b)
FieldSame(v, k, w, l, p) == \A j \in 0 .. p - 1 : BitIs(v, k + j, w, l + j)

(* Equal fields of a number and of a word's half are equal bit by bit. *)
LEMMA FieldBits ==
    ASSUME NEW w, IsWord(w), NEW v \in Int, NEW k \in Nat, NEW l \in 0 .. 31,
           NEW p \in 1 .. 16, k + p <= 30,
           l + p <= 16 \/ (16 <= l /\ l + p <= 32),
           FieldRun(v, k, w, l, p)
    PROVE  FieldSame(v, k, w, l, p)
<1> SUFFICES ASSUME NEW j \in 0 .. p - 1
             PROVE  (v \div 2^(k + j)) % 2 = Field(w, l + j, l + j)
  BY DEF FieldSame, BitIs
<1>1. w.hi \in Int /\ w.lo \in Int
  BY DEF IsWord
<1>0. v \in Int /\ k \in Nat /\ k + p <= 30
  OBVIOUS
<1>2. CASE l + p <= 16
  <2>1. /\ ~(l >= 16) /\ l + p - 1 < 16 /\ (l + p - 1) - l + 1 = p
        /\ ~(l + j >= 16) /\ l + j < 16 /\ (l + j) - (l + j) + 1 = 1
    BY <1>2
  <2>2. Field(w, l + p - 1, l) = (w.lo \div 2^l) % 2^p
    BY <2>1 DEF Field, Bits
  <2>3. Field(w, l + j, l + j) = (w.lo \div 2^(l + j)) % 2^1
    BY <2>1 DEF Field, Bits
  <2>4. l + p <= 30 /\ l \in Nat /\ p \in Nat
    BY <1>2
  <2>5. SameRun(v, k, w.lo, l, p)
    BY <2>2 DEF SameRun, FieldRun
  <2>6. SameBits(v, k, w.lo, l, p)
    BY ONLY <1>1, <2>4, <2>5, <1>0, RunBits
  <2> QED
    BY <2>3, <2>6, 2^1 = 2 DEF SameBits
<1>3. CASE 16 <= l /\ l + p <= 32
  <2> DEFINE h == l - 16
  <2>1. /\ l >= 16 /\ (l + p - 1 - 16) - h + 1 = p /\ l - 16 = h
        /\ l + j >= 16 /\ (l + j - 16) - (h + j) + 1 = 1 /\ l + j - 16 = h + j
        /\ h \in Nat /\ h + p <= 30 /\ p \in Nat
    BY <1>3
  <2> HIDE DEF h
  <2>2. Field(w, l + p - 1, l) = (w.hi \div 2^h) % 2^p
    BY <2>1 DEF Field, Bits
  <2>3. Field(w, l + j, l + j) = (w.hi \div 2^(h + j)) % 2^1
    BY <2>1 DEF Field, Bits
  <2>4. SameRun(v, k, w.hi, h, p)
    BY <2>2 DEF SameRun, FieldRun
  <2>5. SameBits(v, k, w.hi, h, p)
    BY ONLY <1>1, <2>1, <2>4, <1>0, RunBits
  <2> QED
    BY <2>3, <2>5, 2^1 = 2 DEF SameBits
<1> QED
  BY <1>2, <1>3

(* hex_r22_target: the number whose fields are those of the word. *)
LEMMA HexR22Runs ==
    ASSUME NEW w, IsWord(w)
    PROVE  \E v \in Int :
             /\ HexR22(w) = 4 * v
             /\ v \in -(2^21) .. 2^21 - 1
             /\ FieldRun(v, 21, w, 24, 1)
             /\ FieldRun(v, 13, w, 16, 8)
             /\ FieldRun(v, 7, w, 8, 6)
             /\ FieldRun(v, 0, w, 1, 7)
<1> DEFINE a == Field(w, 24, 24)
           b == Field(w, 23, 16)
           c == Field(w, 13, 8)
           d == Field(w, 7, 1)
           x == a * 2097152 + b * 8192 + c * 128 + d
           v == IF x >= 2097152 THEN x - 4194304 ELSE x
<1>1. /\ a \in Int /\ 0 <= a /\ a < 2
      /\ b \in Int /\ 0 <= b /\ b < 256
      /\ c \in Int /\ 0 <= c /\ c < 64
      /\ d \in Int /\ 0 <= d /\ d < 128
  BY SMT DEF Field, Bits, IsWord
<1>2. HexR22(w) = 4 * v
  <2> HIDE DEF a, b, c, d
  <2> QED
    BY <1>1, SMT DEF HexR22, SignExtend, a, b, c, d
<1> HIDE DEF a, b, c, d
<1>3. x \in Int /\ v \in Int /\ -2097152 <= v /\ v < 2097152
  BY <1>1, SMT
<1>4. (v \div 2097152) % 2 = a
  BY <1>1, SMT
<1>5. (v \div 8192) % 256 = b
  BY <1>1, SMT
<1>6. (v \div 128) % 64 = c
  BY <1>1, SMT
<1>7. (v \div 1) % 128 = d
  BY <1>1, SMT
<1> HIDE DEF x, v
<1> QED
  BY <1>2, <1>3, <1>4, <1>5, <1>6, <1>7, SMT DEF FieldRun, a, b, c, d

(* hex_r15_target: the number whose fields are those of the word. *)
LEMMA HexR15Runs ==
    ASSUME NEW w, IsWord(w)
    PROVE  \E v \in Int :
             /\ HexR15(w) = 4 * v
             /\ v \in -(2^14) .. 2^14 - 1
             /\ FieldRun(v, 13, w, 22, 2)
             /\ FieldRun(v, 8, w, 16, 5)
             /\ FieldRun(v, 7, w, 13, 1)
             /\ FieldRun(v, 0, w, 1, 7)
<1> DEFINE a == Field(w, 23, 22)
           b == Field(w, 20, 16)
           c == Field(w, 13, 13)
           d == Field(w, 7, 1)
           x == a * 8192 + b * 256 + c * 128 + d
           v == IF x >= 16384 THEN x - 32768 ELSE x
<1>1. /\ a \in Int /\ 0 <= a /\ a < 4
      /\ b \in Int /\ 0 <= b /\ b < 32
      /\ c \in Int /\ 0 <= c /\ c < 2
      /\ d \in Int /\ 0 <= d /\ d < 128
  BY SMT DEF Field, Bits, IsWord
<1>2. HexR15(w) = 4 * v
  <2> HIDE DEF a, b, c, d
  <2> QED
    BY <1>1, SMT DEF HexR15, SignExtend, a, b, c, d
<1> HIDE DEF a, b, c, d
<1>3. x \in Int /\ v \in Int /\ -16384 <= v /\ v < 16384
  BY <1>1, SMT
<1>4. (v \div 8192) % 4 = a
  BY <1>1, SMT
<1>5. (v \div 256) % 32 = b
  BY <1>1, SMT
<1>6. (v \div 128) % 2 = c
  BY <1>1, SMT
<1>7. (v \div 1) % 128 = d
  BY <1>1, SMT
<1> HIDE DEF x, v
<1> QED
  BY <1>2, <1>3, <1>4, <1>5, <1>6, <1>7, SMT DEF FieldRun, a, b, c, d

(* aarch64_imm26_target: the number whose fields are those of the word. *)
LEMMA Aarch64Imm26Runs ==
    ASSUME NEW w, IsWord(w)
    PROVE  \E v \in Int :
             /\ Aarch64Imm26(w) = 4 * v
             /\ v \in -(2^25) .. 2^25 - 1
             /\ FieldRun(v, 16, w, 16, 10)
             /\ FieldRun(v, 0, w, 0, 16)
<1> DEFINE a == Field(w, 25, 16)
           b == Field(w, 15, 0)
           x == a * 65536 + b
           v == IF x >= 33554432 THEN x - 67108864 ELSE x
<1>1. /\ a \in Int /\ 0 <= a /\ a < 1024
      /\ b \in Int /\ 0 <= b /\ b < 65536
  BY SMT DEF Field, Bits, IsWord
<1>2. Aarch64Imm26(w) = 4 * v
  <2>1. Field(w, 25, 0) = x
    BY SMT DEF Field, Bits
  <2>2. x \in Int
    BY <1>1, SMT
  <2> HIDE DEF x
  <2> QED
    BY <2>1, <2>2, SMT DEF Aarch64Imm26, SignExtend
<1> HIDE DEF a, b
<1>3. x \in Int /\ v \in Int /\ -33554432 <= v /\ v < 33554432
  BY <1>1, SMT
<1>4. (v \div 65536) % 1024 = a
  BY <1>1, SMT
<1>5. (v \div 1) % 65536 = b
  BY <1>1, SMT
<1> HIDE DEF x, v
<1> QED
  BY <1>2, <1>3, <1>4, <1>5, SMT DEF FieldRun, a, b

(* riscv_jal_target: the number whose fields are those of the word. *)
LEMMA RiscvJalRuns ==
    ASSUME NEW w, IsWord(w)
    PROVE  \E v \in Int :
             /\ RiscvJal(w) = 2 * v
             /\ v \in -(2^19) .. 2^19 - 1
             /\ FieldRun(v, 19, w, 31, 1)
             /\ FieldRun(v, 15, w, 16, 4)
             /\ FieldRun(v, 11, w, 12, 4)
             /\ FieldRun(v, 10, w, 20, 1)
             /\ FieldRun(v, 0, w, 21, 10)
<1> DEFINE a == Field(w, 31, 31)
           b == Field(w, 19, 16)
           c == Field(w, 15, 12)
           d == Field(w, 20, 20)
           e == Field(w, 30, 21)
           x == a * 524288 + b * 32768 + c * 2048 + d * 1024 + e
           v == IF x >= 524288 THEN x - 1048576 ELSE x
<1>1. /\ a \in Int /\ 0 <= a /\ a < 2
      /\ b \in Int /\ 0 <= b /\ b < 16
      /\ c \in Int /\ 0 <= c /\ c < 16
      /\ d \in Int /\ 0 <= d /\ d < 2
      /\ e \in Int /\ 0 <= e /\ e < 1024
  BY SMT DEF Field, Bits, IsWord
<1>2. RiscvJal(w) = 2 * v
  <2>1. Field(w, 19, 12) = b * 16 + c
    BY SMT DEF Field, Bits
  <2> HIDE DEF a, b, c, d, e
  <2>2. RiscvJal(w) = SignExtend(a * 2^20 + (b * 16 + c) * 2^12 + d * 2^11 + e * 2, 21)
    BY <2>1, SMT DEF RiscvJal, a, d, e
  <2>3. a * 2^20 + (b * 16 + c) * 2^12 + d * 2^11 + e * 2 = 2 * x /\ x \in Int
    BY <1>1, SMT
  <2> HIDE DEF x
  <2> QED
    BY <2>2, <2>3, SMT DEF SignExtend
<1> HIDE DEF a, b, c, d, e
<1>3. x \in Int /\ v \in Int /\ -524288 <= v /\ v < 524288
  BY <1>1, SMT
<1>4. (v \div 524288) % 2 = a
  BY <1>1, SMT
<1>5. (v \div 32768) % 16 = b
  BY <1>1, SMT
<1>6. (v \div 2048) % 16 = c
  BY <1>1, SMT
<1>7. (v \div 1024) % 2 = d
  BY <1>1, SMT
<1>8. (v \div 1) % 1024 = e
  BY <1>1, SMT
<1> HIDE DEF x, v
<1> QED
  BY <1>2, <1>3, <1>4, <1>5, <1>6, <1>7, <1>8, SMT DEF FieldRun, a, b, c, d, e

(* riscv_cj_target: the number whose fields are those of the word. *)
LEMMA RiscvCjRuns ==
    ASSUME NEW w, IsWord(w)
    PROVE  \E v \in Int :
             /\ RiscvCj(w) = 2 * v
             /\ v \in -(2^10) .. 2^10 - 1
             /\ FieldRun(v, 10, w, 12, 1)
             /\ FieldRun(v, 9, w, 8, 1)
             /\ FieldRun(v, 7, w, 9, 2)
             /\ FieldRun(v, 6, w, 6, 1)
             /\ FieldRun(v, 5, w, 7, 1)
             /\ FieldRun(v, 4, w, 2, 1)
             /\ FieldRun(v, 3, w, 11, 1)
             /\ FieldRun(v, 0, w, 3, 3)
<1> DEFINE a == Field(w, 12, 12)
           b == Field(w, 8, 8)
           c == Field(w, 10, 9)
           d == Field(w, 6, 6)
           e == Field(w, 7, 7)
           f == Field(w, 2, 2)
           g == Field(w, 11, 11)
           h == Field(w, 5, 3)
           x == a * 1024 + b * 512 + c * 128 + d * 64 + e * 32 + f * 16 + g * 8 + h
           v == IF x >= 1024 THEN x - 2048 ELSE x
<1>1. /\ a \in Int /\ 0 <= a /\ a < 2
      /\ b \in Int /\ 0 <= b /\ b < 2
      /\ c \in Int /\ 0 <= c /\ c < 4
      /\ d \in Int /\ 0 <= d /\ d < 2
      /\ e \in Int /\ 0 <= e /\ e < 2
      /\ f \in Int /\ 0 <= f /\ f < 2
      /\ g \in Int /\ 0 <= g /\ g < 2
      /\ h \in Int /\ 0 <= h /\ h < 8
  BY SMT DEF Field, Bits, IsWord
<1>2. RiscvCj(w) = 2 * v
  BY <1>1, SMT DEF RiscvCj, SignExtend
<1> HIDE DEF a, b, c, d, e, f, g, h
<1>3. x \in Int /\ v \in Int /\ -1024 <= v /\ v < 1024
  BY <1>1, SMT
<1>4. (v \div 1024) % 2 = a
  BY <1>1, SMT
<1>5. (v \div 512) % 2 = b
  BY <1>1, SMT
<1>6. (v \div 128) % 4 = c
  BY <1>1, SMT
<1>7. (v \div 64) % 2 = d
  BY <1>1, SMT
<1>8. (v \div 32) % 2 = e
  BY <1>1, SMT
<1>9. (v \div 16) % 2 = f
  BY <1>1, SMT
<1>10. (v \div 8) % 2 = g
  BY <1>1, SMT
<1>11. (v \div 1) % 8 = h
  BY <1>1, SMT
<1> HIDE DEF x, v
<1> QED
  BY <1>2, <1>3, <1>4, <1>5, <1>6, <1>7, <1>8, <1>9, <1>10, <1>11, SMT DEF FieldRun, a, b, c, d, e, f, g, h

(* A run of instruction bits in a layout. *)
LEMMA DownFacts ==
    ASSUME NEW a \in Nat, NEW b \in Nat, b <= a
    PROVE  /\ Down(a, b) \in Seq(Int) /\ Len(Down(a, b)) = a - b + 1
           /\ \A i \in 1 .. a - b + 1 : Down(a, b)[i] = a - i + 1
  BY DEF Down

(* hex_r22_target: the offset is the number with these bits. *)
LEMMA HexR22Reads ==
    ASSUME NEW w, IsWord(w), NEW bits,
           Len(bits) = 22, \A i \in 1 .. 22 : bits[i] = IF i = 1 THEN 24 ELSE IF i <= 9 THEN 25 - i ELSE 23 - i
    PROVE  \E v \in Int : HexR22(w) = 4 * v /\ TwosComplement(v, w, bits)
<1>1. PICK v \in Int :
      /\ HexR22(w) = 4 * v
      /\ v \in -(2^21) .. 2^21 - 1
      /\ FieldRun(v, 21, w, 24, 1)
      /\ FieldRun(v, 13, w, 16, 8)
      /\ FieldRun(v, 7, w, 8, 6)
      /\ FieldRun(v, 0, w, 1, 7)
  BY HexR22Runs, SMT
<1>2. /\ FieldSame(v, 21, w, 24, 1)
      /\ FieldSame(v, 13, w, 16, 8)
      /\ FieldSame(v, 7, w, 8, 6)
      /\ FieldSame(v, 0, w, 1, 7)
  BY <1>1, FieldBits, SMT
<1>3. ASSUME NEW i \in 1 .. 22
      PROVE  BitIs(v, 22 - i, w, bits[i])
  <2>1. CASE 1 <= i /\ i <= 1
    <3> DEFINE j == 1 - i
    <3>1. j \in 0 .. 1 - 1 /\ 22 - i = 21 + j /\ bits[i] = 24 + j
      BY <2>1, SMT
    <3> HIDE DEF j
    <3>2. BitIs(v, 21 + j, w, 24 + j)
      BY ONLY <1>2, <3>1, SMT DEF FieldSame
    <3> QED
      BY ONLY <3>1, <3>2, SMT
  <2>2. CASE 2 <= i /\ i <= 9
    <3> DEFINE j == 9 - i
    <3>1. j \in 0 .. 8 - 1 /\ 22 - i = 13 + j /\ bits[i] = 16 + j
      BY <2>2, SMT
    <3> HIDE DEF j
    <3>2. BitIs(v, 13 + j, w, 16 + j)
      BY ONLY <1>2, <3>1, SMT DEF FieldSame
    <3> QED
      BY ONLY <3>1, <3>2, SMT
  <2>3. CASE 10 <= i /\ i <= 15
    <3> DEFINE j == 15 - i
    <3>1. j \in 0 .. 6 - 1 /\ 22 - i = 7 + j /\ bits[i] = 8 + j
      BY <2>3, SMT
    <3> HIDE DEF j
    <3>2. BitIs(v, 7 + j, w, 8 + j)
      BY ONLY <1>2, <3>1, SMT DEF FieldSame
    <3> QED
      BY ONLY <3>1, <3>2, SMT
  <2>4. CASE 16 <= i /\ i <= 22
    <3> DEFINE j == 22 - i
    <3>1. j \in 0 .. 7 - 1 /\ 22 - i = 0 + j /\ bits[i] = 1 + j
      BY <2>4, SMT
    <3> HIDE DEF j
    <3>2. BitIs(v, 0 + j, w, 1 + j)
      BY ONLY <1>2, <3>1, SMT DEF FieldSame
    <3> QED
      BY ONLY <3>1, <3>2, SMT
  <2> QED
    BY <2>1, <2>2, <2>3, <2>4
<1>4. TwosComplement(v, w, bits)
  BY <1>1, <1>3, SMT DEF TwosComplement, BitIs
<1> QED
  BY <1>1, <1>4, SMT

(* hex_r15_target: the offset is the number with these bits. *)
LEMMA HexR15Reads ==
    ASSUME NEW w, IsWord(w), NEW bits,
           Len(bits) = 15,
           \A i \in 1 .. 15 :
               bits[i] = IF i <= 2 THEN 24 - i ELSE IF i <= 7 THEN 23 - i ELSE IF i = 8 THEN 13 ELSE 16 - i
    PROVE  \E v \in Int : HexR15(w) = 4 * v /\ TwosComplement(v, w, bits)
<1>1. PICK v \in Int :
      /\ HexR15(w) = 4 * v
      /\ v \in -(2^14) .. 2^14 - 1
      /\ FieldRun(v, 13, w, 22, 2)
      /\ FieldRun(v, 8, w, 16, 5)
      /\ FieldRun(v, 7, w, 13, 1)
      /\ FieldRun(v, 0, w, 1, 7)
  BY HexR15Runs, SMT
<1>2. /\ FieldSame(v, 13, w, 22, 2)
      /\ FieldSame(v, 8, w, 16, 5)
      /\ FieldSame(v, 7, w, 13, 1)
      /\ FieldSame(v, 0, w, 1, 7)
  BY <1>1, FieldBits, SMT
<1>3. ASSUME NEW i \in 1 .. 15
      PROVE  BitIs(v, 15 - i, w, bits[i])
  <2>1. CASE 1 <= i /\ i <= 2
    <3> DEFINE j == 2 - i
    <3>1. j \in 0 .. 2 - 1 /\ 15 - i = 13 + j /\ bits[i] = 22 + j
      BY <2>1, SMT
    <3> HIDE DEF j
    <3>2. BitIs(v, 13 + j, w, 22 + j)
      BY ONLY <1>2, <3>1, SMT DEF FieldSame
    <3> QED
      BY ONLY <3>1, <3>2, SMT
  <2>2. CASE 3 <= i /\ i <= 7
    <3> DEFINE j == 7 - i
    <3>1. j \in 0 .. 5 - 1 /\ 15 - i = 8 + j /\ bits[i] = 16 + j
      BY <2>2, SMT
    <3> HIDE DEF j
    <3>2. BitIs(v, 8 + j, w, 16 + j)
      BY ONLY <1>2, <3>1, SMT DEF FieldSame
    <3> QED
      BY ONLY <3>1, <3>2, SMT
  <2>3. CASE 8 <= i /\ i <= 8
    <3> DEFINE j == 8 - i
    <3>1. j \in 0 .. 1 - 1 /\ 15 - i = 7 + j /\ bits[i] = 13 + j
      BY <2>3, SMT
    <3> HIDE DEF j
    <3>2. BitIs(v, 7 + j, w, 13 + j)
      BY ONLY <1>2, <3>1, SMT DEF FieldSame
    <3> QED
      BY ONLY <3>1, <3>2, SMT
  <2>4. CASE 9 <= i /\ i <= 15
    <3> DEFINE j == 15 - i
    <3>1. j \in 0 .. 7 - 1 /\ 15 - i = 0 + j /\ bits[i] = 1 + j
      BY <2>4, SMT
    <3> HIDE DEF j
    <3>2. BitIs(v, 0 + j, w, 1 + j)
      BY ONLY <1>2, <3>1, SMT DEF FieldSame
    <3> QED
      BY ONLY <3>1, <3>2, SMT
  <2> QED
    BY <2>1, <2>2, <2>3, <2>4
<1>4. TwosComplement(v, w, bits)
  BY <1>1, <1>3, SMT DEF TwosComplement, BitIs
<1> QED
  BY <1>1, <1>4, SMT

(* aarch64_imm26_target: the offset is the number with these bits. *)
LEMMA Aarch64Imm26Reads ==
    ASSUME NEW w, IsWord(w), NEW bits,
           Len(bits) = 26, \A i \in 1 .. 26 : bits[i] = 26 - i
    PROVE  \E v \in Int : Aarch64Imm26(w) = 4 * v /\ TwosComplement(v, w, bits)
<1>1. PICK v \in Int :
      /\ Aarch64Imm26(w) = 4 * v
      /\ v \in -(2^25) .. 2^25 - 1
      /\ FieldRun(v, 16, w, 16, 10)
      /\ FieldRun(v, 0, w, 0, 16)
  BY Aarch64Imm26Runs, SMT
<1>2. /\ FieldSame(v, 16, w, 16, 10)
      /\ FieldSame(v, 0, w, 0, 16)
  BY <1>1, FieldBits, SMT
<1>3. ASSUME NEW i \in 1 .. 26
      PROVE  BitIs(v, 26 - i, w, bits[i])
  <2>1. CASE 1 <= i /\ i <= 10
    <3> DEFINE j == 10 - i
    <3>1. j \in 0 .. 10 - 1 /\ 26 - i = 16 + j /\ bits[i] = 16 + j
      BY <2>1, SMT
    <3> HIDE DEF j
    <3>2. BitIs(v, 16 + j, w, 16 + j)
      BY ONLY <1>2, <3>1, SMT DEF FieldSame
    <3> QED
      BY ONLY <3>1, <3>2, SMT
  <2>2. CASE 11 <= i /\ i <= 26
    <3> DEFINE j == 26 - i
    <3>1. j \in 0 .. 16 - 1 /\ 26 - i = 0 + j /\ bits[i] = 0 + j
      BY <2>2, SMT
    <3> HIDE DEF j
    <3>2. BitIs(v, 0 + j, w, 0 + j)
      BY ONLY <1>2, <3>1, SMT DEF FieldSame
    <3> QED
      BY ONLY <3>1, <3>2, SMT
  <2> QED
    BY <2>1, <2>2
<1>4. TwosComplement(v, w, bits)
  BY <1>1, <1>3, SMT DEF TwosComplement, BitIs
<1> QED
  BY <1>1, <1>4, SMT

(* riscv_jal_target: the offset is the number with these bits. *)
LEMMA RiscvJalReads ==
    ASSUME NEW w, IsWord(w), NEW bits,
           Len(bits) = 20,
           \A i \in 1 .. 20 :
               bits[i] = IF i = 1 THEN 31 ELSE IF i <= 9 THEN 21 - i ELSE IF i = 10 THEN 20 ELSE 41 - i
    PROVE  \E v \in Int : RiscvJal(w) = 2 * v /\ TwosComplement(v, w, bits)
<1>1. PICK v \in Int :
      /\ RiscvJal(w) = 2 * v
      /\ v \in -(2^19) .. 2^19 - 1
      /\ FieldRun(v, 19, w, 31, 1)
      /\ FieldRun(v, 15, w, 16, 4)
      /\ FieldRun(v, 11, w, 12, 4)
      /\ FieldRun(v, 10, w, 20, 1)
      /\ FieldRun(v, 0, w, 21, 10)
  BY RiscvJalRuns, SMT
<1>2. /\ FieldSame(v, 19, w, 31, 1)
      /\ FieldSame(v, 15, w, 16, 4)
      /\ FieldSame(v, 11, w, 12, 4)
      /\ FieldSame(v, 10, w, 20, 1)
      /\ FieldSame(v, 0, w, 21, 10)
  BY <1>1, FieldBits, SMT
<1>3. ASSUME NEW i \in 1 .. 20
      PROVE  BitIs(v, 20 - i, w, bits[i])
  <2>1. CASE 1 <= i /\ i <= 1
    <3> DEFINE j == 1 - i
    <3>1. j \in 0 .. 1 - 1 /\ 20 - i = 19 + j /\ bits[i] = 31 + j
      BY <2>1, SMT
    <3> HIDE DEF j
    <3>2. BitIs(v, 19 + j, w, 31 + j)
      BY ONLY <1>2, <3>1, SMT DEF FieldSame
    <3> QED
      BY ONLY <3>1, <3>2, SMT
  <2>2. CASE 2 <= i /\ i <= 5
    <3> DEFINE j == 5 - i
    <3>1. j \in 0 .. 4 - 1 /\ 20 - i = 15 + j /\ bits[i] = 16 + j
      BY <2>2, SMT
    <3> HIDE DEF j
    <3>2. BitIs(v, 15 + j, w, 16 + j)
      BY ONLY <1>2, <3>1, SMT DEF FieldSame
    <3> QED
      BY ONLY <3>1, <3>2, SMT
  <2>3. CASE 6 <= i /\ i <= 9
    <3> DEFINE j == 9 - i
    <3>1. j \in 0 .. 4 - 1 /\ 20 - i = 11 + j /\ bits[i] = 12 + j
      BY <2>3, SMT
    <3> HIDE DEF j
    <3>2. BitIs(v, 11 + j, w, 12 + j)
      BY ONLY <1>2, <3>1, SMT DEF FieldSame
    <3> QED
      BY ONLY <3>1, <3>2, SMT
  <2>4. CASE 10 <= i /\ i <= 10
    <3> DEFINE j == 10 - i
    <3>1. j \in 0 .. 1 - 1 /\ 20 - i = 10 + j /\ bits[i] = 20 + j
      BY <2>4, SMT
    <3> HIDE DEF j
    <3>2. BitIs(v, 10 + j, w, 20 + j)
      BY ONLY <1>2, <3>1, SMT DEF FieldSame
    <3> QED
      BY ONLY <3>1, <3>2, SMT
  <2>5. CASE 11 <= i /\ i <= 20
    <3> DEFINE j == 20 - i
    <3>1. j \in 0 .. 10 - 1 /\ 20 - i = 0 + j /\ bits[i] = 21 + j
      BY <2>5, SMT
    <3> HIDE DEF j
    <3>2. BitIs(v, 0 + j, w, 21 + j)
      BY ONLY <1>2, <3>1, SMT DEF FieldSame
    <3> QED
      BY ONLY <3>1, <3>2, SMT
  <2> QED
    BY <2>1, <2>2, <2>3, <2>4, <2>5
<1>4. TwosComplement(v, w, bits)
  BY <1>1, <1>3, SMT DEF TwosComplement, BitIs
<1> QED
  BY <1>1, <1>4, SMT

(* riscv_cj_target: the offset is the number with these bits. *)
LEMMA RiscvCjReads ==
    ASSUME NEW w, IsWord(w), NEW bits,
           Len(bits) = 11,
           bits[1] = 12, bits[2] = 8, bits[3] = 10, bits[4] = 9, bits[5] = 6, bits[6] = 7,
           bits[7] = 2, bits[8] = 11, bits[9] = 5, bits[10] = 4, bits[11] = 3
    PROVE  \E v \in Int : RiscvCj(w) = 2 * v /\ TwosComplement(v, w, bits)
<1>1. PICK v \in Int :
      /\ RiscvCj(w) = 2 * v
      /\ v \in -(2^10) .. 2^10 - 1
      /\ FieldRun(v, 10, w, 12, 1)
      /\ FieldRun(v, 9, w, 8, 1)
      /\ FieldRun(v, 7, w, 9, 2)
      /\ FieldRun(v, 6, w, 6, 1)
      /\ FieldRun(v, 5, w, 7, 1)
      /\ FieldRun(v, 4, w, 2, 1)
      /\ FieldRun(v, 3, w, 11, 1)
      /\ FieldRun(v, 0, w, 3, 3)
  BY RiscvCjRuns, SMT
<1>2. /\ FieldSame(v, 10, w, 12, 1)
      /\ FieldSame(v, 9, w, 8, 1)
      /\ FieldSame(v, 7, w, 9, 2)
      /\ FieldSame(v, 6, w, 6, 1)
      /\ FieldSame(v, 5, w, 7, 1)
      /\ FieldSame(v, 4, w, 2, 1)
      /\ FieldSame(v, 3, w, 11, 1)
      /\ FieldSame(v, 0, w, 3, 3)
  BY <1>1, FieldBits, SMT
<1>3. ASSUME NEW i \in 1 .. 11
      PROVE  BitIs(v, 11 - i, w, bits[i])
  <2>1. CASE 1 <= i /\ i <= 1
    <3> DEFINE j == 1 - i
    <3>1. j \in 0 .. 1 - 1 /\ 11 - i = 10 + j /\ bits[i] = 12 + j
      BY <2>1, SMT
    <3> HIDE DEF j
    <3>2. BitIs(v, 10 + j, w, 12 + j)
      BY ONLY <1>2, <3>1, SMT DEF FieldSame
    <3> QED
      BY ONLY <3>1, <3>2, SMT
  <2>2. CASE 2 <= i /\ i <= 2
    <3> DEFINE j == 2 - i
    <3>1. j \in 0 .. 1 - 1 /\ 11 - i = 9 + j /\ bits[i] = 8 + j
      BY <2>2, SMT
    <3> HIDE DEF j
    <3>2. BitIs(v, 9 + j, w, 8 + j)
      BY ONLY <1>2, <3>1, SMT DEF FieldSame
    <3> QED
      BY ONLY <3>1, <3>2, SMT
  <2>3. CASE 3 <= i /\ i <= 4
    <3> DEFINE j == 4 - i
    <3>1. j \in 0 .. 2 - 1 /\ 11 - i = 7 + j /\ bits[i] = 9 + j
      BY <2>3, SMT
    <3> HIDE DEF j
    <3>2. BitIs(v, 7 + j, w, 9 + j)
      BY ONLY <1>2, <3>1, SMT DEF FieldSame
    <3> QED
      BY ONLY <3>1, <3>2, SMT
  <2>4. CASE 5 <= i /\ i <= 5
    <3> DEFINE j == 5 - i
    <3>1. j \in 0 .. 1 - 1 /\ 11 - i = 6 + j /\ bits[i] = 6 + j
      BY <2>4, SMT
    <3> HIDE DEF j
    <3>2. BitIs(v, 6 + j, w, 6 + j)
      BY ONLY <1>2, <3>1, SMT DEF FieldSame
    <3> QED
      BY ONLY <3>1, <3>2, SMT
  <2>5. CASE 6 <= i /\ i <= 6
    <3> DEFINE j == 6 - i
    <3>1. j \in 0 .. 1 - 1 /\ 11 - i = 5 + j /\ bits[i] = 7 + j
      BY <2>5, SMT
    <3> HIDE DEF j
    <3>2. BitIs(v, 5 + j, w, 7 + j)
      BY ONLY <1>2, <3>1, SMT DEF FieldSame
    <3> QED
      BY ONLY <3>1, <3>2, SMT
  <2>6. CASE 7 <= i /\ i <= 7
    <3> DEFINE j == 7 - i
    <3>1. j \in 0 .. 1 - 1 /\ 11 - i = 4 + j /\ bits[i] = 2 + j
      BY <2>6, SMT
    <3> HIDE DEF j
    <3>2. BitIs(v, 4 + j, w, 2 + j)
      BY ONLY <1>2, <3>1, SMT DEF FieldSame
    <3> QED
      BY ONLY <3>1, <3>2, SMT
  <2>7. CASE 8 <= i /\ i <= 8
    <3> DEFINE j == 8 - i
    <3>1. j \in 0 .. 1 - 1 /\ 11 - i = 3 + j /\ bits[i] = 11 + j
      BY <2>7, SMT
    <3> HIDE DEF j
    <3>2. BitIs(v, 3 + j, w, 11 + j)
      BY ONLY <1>2, <3>1, SMT DEF FieldSame
    <3> QED
      BY ONLY <3>1, <3>2, SMT
  <2>8. CASE 9 <= i /\ i <= 11
    <3> DEFINE j == 11 - i
    <3>1. j \in 0 .. 3 - 1 /\ 11 - i = 0 + j /\ bits[i] = 3 + j
      BY <2>8, SMT
    <3> HIDE DEF j
    <3>2. BitIs(v, 0 + j, w, 3 + j)
      BY ONLY <1>2, <3>1, SMT DEF FieldSame
    <3> QED
      BY ONLY <3>1, <3>2, SMT
  <2> QED
    BY <2>1, <2>2, <2>3, <2>4, <2>5, <2>6, <2>7, <2>8
<1>4. TwosComplement(v, w, bits)
  BY <1>1, <1>3, SMT DEF TwosComplement, BitIs
<1> QED
  BY <1>1, <1>4, SMT

(* s lists n bits; they count down from c - 1; u is s followed by t, n together. *)
Listed(s, n) == s \in Seq(Int) /\ Len(s) = n
Counting(s, n, c) == \A i \in 1 .. n : s[i] = c - i
Joined(u, s, m, t, n) == \A i \in 1 .. n : u[i] = IF i <= m THEN s[i] ELSE t[i - m]

(* Down lists consecutive bits. *)
LEMMA DownRun ==
    ASSUME NEW a \in Nat, NEW b \in Nat, b <= a, NEW n \in Nat, n = a - b + 1,
           NEW c \in Nat, c = a + 1
    PROVE  Listed(Down(a, b), n) /\ Counting(Down(a, b), n, c)
  BY DownFacts DEF Listed, Counting

(* Listing two runs one behind the other. *)
LEMMA JoinRuns ==
    ASSUME NEW s, NEW m \in Nat, Listed(s, m), NEW t, NEW n \in Nat, Listed(t, n),
           NEW k \in Nat, k = m + n
    PROVE  Listed(s \o t, k) /\ Joined(s \o t, s, m, t, k)
<1>1. s \in Seq(Int) /\ t \in Seq(Int) /\ Len(s) = m /\ Len(t) = n
  BY DEF Listed
<1>2. s \o t \in Seq(Int) /\ Len(s \o t) = m + n
  BY <1>1, ConcatProperties
<1>3. Listed(s \o t, k)
  BY <1>2 DEF Listed
<1>4. ASSUME NEW i \in 1 .. k
      PROVE  (s \o t)[i] = IF i <= m THEN s[i] ELSE t[i - m]
  <2>1. i \in 1 .. Len(s) + Len(t)
    BY <1>1
  <2>2. (s \o t)[i] = IF i <= Len(s) THEN s[i] ELSE t[i - Len(s)]
    BY <1>1, <2>1, ConcatProperties
  <2> QED
    BY <1>1, <2>2
<1> QED
  BY <1>3, <1>4 DEF Joined

(* The bits of the 22-bit immediate of Hexagon, from the sign down. *)
LEMMA HexR22Layout ==
    ASSUME NEW bits, bits = << 24 >> \o Down(23, 16) \o Down(13, 8) \o Down(7, 1)
    PROVE  Len(bits) = 22 /\ \A i \in 1 .. 22 : bits[i] = IF i = 1 THEN 24 ELSE IF i <= 9 THEN 25 - i ELSE 23 - i
<1> DEFINE p == <<24>>
           q == Down(23, 16)
           r == Down(13, 8)
           s == Down(7, 1)
           pq == p \o q
           pqr == pq \o r
           all == pqr \o s
<1>0. bits = all
  OBVIOUS
<1>1. Listed(p, 1) /\ p[1] = 24
  BY DEF Listed
<1>2. Listed(q, 8) /\ Counting(q, 8, 24)
  BY ONLY DownRun, 23 - 16 + 1 = 8, 23 + 1 = 24
<1>3. Listed(r, 6) /\ Counting(r, 6, 14)
  BY ONLY DownRun, 13 - 8 + 1 = 6, 13 + 1 = 14
<1>4. Listed(s, 7) /\ Counting(s, 7, 8)
  BY ONLY DownRun, 7 - 1 + 1 = 7, 7 + 1 = 8
<1> HIDE DEF p, q, r, s
<1>5. Listed(pq, 9) /\ Joined(pq, p, 1, q, 9)
  BY ONLY <1>1, <1>2, JoinRuns, 1 + 8 = 9
<1> HIDE DEF pq
<1>6. Listed(pqr, 15) /\ Joined(pqr, pq, 9, r, 15)
  BY ONLY <1>5, <1>3, JoinRuns, 9 + 6 = 15
<1> HIDE DEF pqr
<1>7. Listed(all, 22) /\ Joined(all, pqr, 15, s, 22)
  BY ONLY <1>6, <1>4, JoinRuns, 15 + 7 = 22
<1> HIDE DEF all
<1> QED
  BY ONLY <1>0, <1>1, <1>2, <1>3, <1>4, <1>5, <1>6, <1>7 DEF Listed, Counting, Joined

(* The bits of the 15-bit immediate of Hexagon, from the sign down. *)
LEMMA HexR15Layout ==
    ASSUME NEW bits, bits = <<23, 22>> \o Down(20, 16) \o << 13 >> \o Down(7, 1)
    PROVE  /\ Len(bits) = 15
           /\ \A i \in 1 .. 15 :
                 bits[i] = IF i <= 2 THEN 24 - i ELSE IF i <= 7 THEN 23 - i ELSE IF i = 8 THEN 13 ELSE 16 - i
<1> DEFINE p == <<23, 22>>
           q == Down(20, 16)
           r == <<13>>
           s == Down(7, 1)
           pq == p \o q
           pqr == pq \o r
           all == pqr \o s
<1>0. bits = all
  OBVIOUS
<1>1. Listed(p, 2) /\ p[1] = 23 /\ p[2] = 22
  BY DEF Listed
<1>2. Listed(q, 5) /\ Counting(q, 5, 21)
  BY ONLY DownRun, 20 - 16 + 1 = 5, 20 + 1 = 21
<1>3. Listed(r, 1) /\ r[1] = 13
  BY DEF Listed
<1>4. Listed(s, 7) /\ Counting(s, 7, 8)
  BY ONLY DownRun, 7 - 1 + 1 = 7, 7 + 1 = 8
<1> HIDE DEF p, q, r, s
<1>5. Listed(pq, 7) /\ Joined(pq, p, 2, q, 7)
  BY ONLY <1>1, <1>2, JoinRuns, 2 + 5 = 7
<1> HIDE DEF pq
<1>6. Listed(pqr, 8) /\ Joined(pqr, pq, 7, r, 8)
  BY ONLY <1>5, <1>3, JoinRuns, 7 + 1 = 8
<1> HIDE DEF pqr
<1>7. Listed(all, 15) /\ Joined(all, pqr, 8, s, 15)
  BY ONLY <1>6, <1>4, JoinRuns, 8 + 7 = 15
<1> HIDE DEF all
<1> QED
  BY ONLY <1>0, <1>1, <1>2, <1>3, <1>4, <1>5, <1>6, <1>7 DEF Listed, Counting, Joined

(* The bits of the immediate of JAL, from the sign down. *)
LEMMA RiscvJalLayout ==
    ASSUME NEW bits, bits = << 31 >> \o Down(19, 12) \o << 20 >> \o Down(30, 21)
    PROVE  /\ Len(bits) = 20
           /\ \A i \in 1 .. 20 :
                 bits[i] = IF i = 1 THEN 31 ELSE IF i <= 9 THEN 21 - i ELSE IF i = 10 THEN 20 ELSE 41 - i
<1> DEFINE p == <<31>>
           q == Down(19, 12)
           r == <<20>>
           s == Down(30, 21)
           pq == p \o q
           pqr == pq \o r
           all == pqr \o s
<1>0. bits = all
  OBVIOUS
<1>1. Listed(p, 1) /\ p[1] = 31
  BY DEF Listed
<1>2. Listed(q, 8) /\ Counting(q, 8, 20)
  BY ONLY DownRun, 19 - 12 + 1 = 8, 19 + 1 = 20
<1>3. Listed(r, 1) /\ r[1] = 20
  BY DEF Listed
<1>4. Listed(s, 10) /\ Counting(s, 10, 31)
  BY ONLY DownRun, 30 - 21 + 1 = 10, 30 + 1 = 31
<1> HIDE DEF p, q, r, s
<1>5. Listed(pq, 9) /\ Joined(pq, p, 1, q, 9)
  BY ONLY <1>1, <1>2, JoinRuns, 1 + 8 = 9
<1> HIDE DEF pq
<1>6. Listed(pqr, 10) /\ Joined(pqr, pq, 9, r, 10)
  BY ONLY <1>5, <1>3, JoinRuns, 9 + 1 = 10
<1> HIDE DEF pqr
<1>7. Listed(all, 20) /\ Joined(all, pqr, 10, s, 20)
  BY ONLY <1>6, <1>4, JoinRuns, 10 + 10 = 20
<1> HIDE DEF all
<1> QED
  BY ONLY <1>0, <1>1, <1>2, <1>3, <1>4, <1>5, <1>6, <1>7 DEF Listed, Counting, Joined

(* The one test that succeeds decides. *)
LEMMA FirstMatchIs ==
    ASSUME NEW w, IsWord(w),
           NEW rules \in {HexagonRules, Aarch64Rules, Riscv32Rules, Riscv16Rules},
           FirstMatch(rules, w).kind = "Direct"
    PROVE  \E i \in Hits(rules, w) : /\ rules[i].imm # "none"
                                     /\ FirstMatch(rules, w) = Direct(Offset(rules[i].imm, w))
<1>1. Hits(rules, w) # {}
  BY DEF FirstMatch, Other
<1>2. \A i, j \in Hits(rules, w) : i = j
  BY RulesDisjoint
<1>3. \A i \in Hits(rules, w) : i \in Int
  BY DEF Hits, HexagonRules, Aarch64Rules, Riscv32Rules, Riscv16Rules
<1>4. \E i \in Hits(rules, w) : \A j \in Hits(rules, w) : i <= j
  BY <1>1, <1>2, <1>3
<1> DEFINE k == CHOOSE i \in Hits(rules, w) : \A j \in Hits(rules, w) : i <= j
<1>5. k \in Hits(rules, w)
  BY <1>4
<1>6. FirstMatch(rules, w) =
        IF rules[k].imm = "none" THEN Indirect ELSE Direct(Offset(rules[k].imm, w))
  BY <1>1 DEF FirstMatch
<1> HIDE DEF k
<1> QED
  BY <1>5, <1>6 DEF Indirect

(* A direct transfer's offset is read off the layout l of the word w. *)
ReadOff(offset, l, w) ==
    offset % l.unit = 0 /\ TwosComplement(offset \div l.unit, w, l.bits)

(* A multiple of the unit is read off exactly. *)
LEMMA ScaledNumber ==
    ASSUME NEW v \in Int, NEW w, NEW bits, NEW unit \in {2, 4}, TwosComplement(v, w, bits),
           NEW offset, offset = unit * v
    PROVE  ReadOff(offset, [bits |-> bits, unit |-> unit], w)
<1>1. offset % unit = 0 /\ offset \div unit = v
  OBVIOUS
<1> QED
  BY <1>1 DEF ReadOff

(* classify_hexagon: J2_call, J2_jump, J2_callt, J2_callf. *)
LEMMA HexagonOffset ==
    ASSUME NEW bytes \in Seq(0 .. 255), Len(bytes) >= 4,
           ClassifyHexagon(Word(bytes)).kind = "Direct"
    PROVE  ReadOff(ClassifyHexagon(Word(bytes)).offset, Layout("Hexagon", bytes), Word(bytes))
<1> DEFINE w == Word(bytes)
<1>1. IsWord(w)
  BY WordFacts
<1>2. ClassifyHexagon(w) = FirstMatch(HexagonRules, w) /\ FirstMatch(HexagonRules, w).kind = "Direct"
  BY DEF ClassifyHexagon, Other
<1>3. PICK i \in Hits(HexagonRules, w) :
        HexagonRules[i].imm # "none" /\ FirstMatch(HexagonRules, w) = Direct(Offset(HexagonRules[i].imm, w))
  BY <1>1, <1>2, FirstMatchIs
<1>4. /\ HexagonRules[1].imm = "none" /\ HexagonRules[2].imm = "r22"
      /\ HexagonRules[3].imm = "r22" /\ HexagonRules[4].imm = "r15"
  BY DEF HexagonRules, Rule
<1>5. /\ bytes[3] \in Int /\ 0 <= bytes[3] /\ bytes[3] < 256
      /\ bytes[4] \in Int /\ 0 <= bytes[4] /\ bytes[4] < 256
      /\ w.hi = bytes[3] + 256 * bytes[4]
  <2>1. w.hi = bytes[3] + 256 * bytes[4]
    BY DEF Word, Half
  <2>2. 3 \in 1 .. Len(bytes) /\ 4 \in 1 .. Len(bytes)
    OBVIOUS
  <2> QED
    BY <2>1, <2>2, ByteFacts
<1>6. Bits(bytes[4], 7, 1) = bytes[4] \div 2
  BY <1>5 DEF Bits
<1>7. ClassifyHexagon(w).offset = Offset(HexagonRules[i].imm, w)
  BY <1>2, <1>3 DEF Direct
<1>8. CASE i \in {2, 3}
  <2> DEFINE bits == <<24>> \o Down(23, 16) \o Down(13, 8) \o Down(7, 1)
  <2>0. (23040 <= w.hi /\ w.hi < 23552) \/ (22528 <= w.hi /\ w.hi < 23040)
    BY <1>1, <1>8, HexagonHits
  <2>1. 22528 <= w.hi /\ w.hi < 23552
    BY ONLY <1>5, <2>0
  <2>2. bytes[4] \div 2 # 46
    BY ONLY <1>5, <2>1
  <2>3. Layout("Hexagon", bytes) = [bits |-> bits, unit |-> 4]
    BY <1>6, <2>2 DEF Layout
  <2>4. Offset("r22", w) = HexR22(w) /\ HexagonRules[i].imm = "r22"
    BY <1>4, <1>8 DEF Offset
  <2>5. Len(bits) = 22 /\ \A j \in 1 .. 22 : bits[j] = IF j = 1 THEN 24 ELSE IF j <= 9 THEN 25 - j ELSE 23 - j
    BY HexR22Layout
  <2> HIDE DEF bits, w
  <2>6. PICK v \in Int : HexR22(w) = 4 * v /\ TwosComplement(v, w, bits)
    BY <1>1, <2>5, HexR22Reads
  <2>7. ReadOff(HexR22(w), [bits |-> bits, unit |-> 4], w)
    BY <2>6, ScaledNumber
  <2> QED
    BY <1>7, <2>3, <2>4, <2>7 DEF w
<1>9. CASE i = 4
  <2> DEFINE bits == <<23, 22>> \o Down(20, 16) \o <<13>> \o Down(7, 1)
  <2>1. 23808 <= w.hi /\ w.hi < 24064
    BY <1>1, <1>9, HexagonHits
  <2>2. bytes[4] \div 2 = 46
    BY ONLY <1>5, <2>1
  <2>3. Layout("Hexagon", bytes) = [bits |-> bits, unit |-> 4]
    BY <1>6, <2>2 DEF Layout
  <2>4. Offset("r15", w) = HexR15(w) /\ HexagonRules[i].imm = "r15"
    BY <1>4, <1>9 DEF Offset
  <2>5. Len(bits) = 15 /\ \A j \in 1 .. 15 : bits[j] =
          IF j <= 2 THEN 24 - j ELSE IF j <= 7 THEN 23 - j ELSE IF j = 8 THEN 13 ELSE 16 - j
    BY HexR15Layout
  <2> HIDE DEF bits, w
  <2>6. PICK v \in Int : HexR15(w) = 4 * v /\ TwosComplement(v, w, bits)
    BY <1>1, <2>5, HexR15Reads
  <2>7. ReadOff(HexR15(w), [bits |-> bits, unit |-> 4], w)
    BY <2>6, ScaledNumber
  <2> QED
    BY <1>7, <2>3, <2>4, <2>7 DEF w
<1> QED
  BY <1>1, <1>3, <1>4, <1>8, <1>9, HexagonHits

(* classify_aarch64: B and BL. *)
LEMMA Aarch64Offset ==
    ASSUME NEW bytes \in Seq(0 .. 255), Len(bytes) >= 4,
           FirstMatch(Aarch64Rules, Word(bytes)).kind = "Direct"
    PROVE  ReadOff(FirstMatch(Aarch64Rules, Word(bytes)).offset, Layout("Aarch64", bytes), Word(bytes))
<1> DEFINE w == Word(bytes)
           bits == Down(25, 0)
<1>1. IsWord(w)
  BY WordFacts
<1>2. PICK i \in Hits(Aarch64Rules, w) :
        Aarch64Rules[i].imm # "none" /\ FirstMatch(Aarch64Rules, w) = Direct(Offset(Aarch64Rules[i].imm, w))
  BY <1>1, FirstMatchIs
<1>3. /\ Aarch64Rules[1].imm = "imm26" /\ Aarch64Rules[2].imm = "imm26"
      /\ Aarch64Rules[3].imm = "none" /\ Aarch64Rules[4].imm = "none" /\ Aarch64Rules[5].imm = "none"
  BY DEF Aarch64Rules, Rule
<1>4. Aarch64Rules[i].imm = "imm26"
  BY <1>1, <1>2, <1>3, Aarch64Hits
<1>5. FirstMatch(Aarch64Rules, w).offset = Aarch64Imm26(w)
  BY <1>2, <1>4 DEF Direct, Offset
<1>6. Layout("Aarch64", bytes) = [bits |-> bits, unit |-> 4]
  BY DEF Layout
<1>7. Len(bits) = 26 /\ \A j \in 1 .. 26 : bits[j] = 26 - j
  <2>1. Listed(bits, 26) /\ Counting(bits, 26, 26)
    BY ONLY DownRun, 25 - 0 + 1 = 26, 25 + 1 = 26
  <2> HIDE DEF bits
  <2> QED
    BY <2>1 DEF Listed, Counting
<1> HIDE DEF bits, w
<1>8. PICK v \in Int : Aarch64Imm26(w) = 4 * v /\ TwosComplement(v, w, bits)
  BY <1>1, <1>7, Aarch64Imm26Reads
<1>9. ReadOff(Aarch64Imm26(w), [bits |-> bits, unit |-> 4], w)
  BY <1>8, ScaledNumber
<1> QED
  BY <1>5, <1>6, <1>9 DEF w

(* An immediate of the low half does not depend on the high half. *)
LEMMA CjOfLowHalf ==
    ASSUME NEW w, NEW u, w.lo = u.lo
    PROVE  RiscvCj(w) = RiscvCj(u)
  BY SMT DEF RiscvCj, Field

(* classify_riscv: JAL, and C.J and C.JAL, which may come with bytes behind them. *)
LEMMA RiscvOffset ==
    ASSUME NEW bytes \in Seq(0 .. 255), ClassifyRiscv(bytes).kind = "Direct",
           NEW w, w = IF Len(bytes) < 4 THEN Short(bytes) ELSE Word(bytes)
    PROVE  ReadOff(ClassifyRiscv(bytes).offset, Layout("Riscv", bytes), w)
<1>0. Len(bytes) \in Nat /\ Len(bytes) >= 2
  BY DEF ClassifyRiscv, Other
<1>1. IsWord(w)
  <2>1. CASE Len(bytes) < 4
    BY <1>0, <2>1, WordFacts
  <2>2. CASE Len(bytes) >= 4
    BY <1>0, <2>2, WordFacts
  <2> QED
    BY <1>0, <2>1, <2>2
<1>2. CASE Compressed(bytes)
  <2> DEFINE bits == <<12, 8, 10, 9, 6, 7, 2, 11, 5, 4, 3>>
             u == Short(bytes)
  <2>1. IsWord(u)
    BY <1>0, WordFacts
  <2>2. ClassifyRiscv(bytes) = FirstMatch(Riscv16Rules, u)
    BY <1>0, <1>2 DEF ClassifyRiscv
  <2>3. PICK i \in Hits(Riscv16Rules, u) :
          Riscv16Rules[i].imm # "none" /\ FirstMatch(Riscv16Rules, u) = Direct(Offset(Riscv16Rules[i].imm, u))
    BY <2>1, <2>2, FirstMatchIs
  <2>4. /\ Riscv16Rules[1].imm = "cj" /\ Riscv16Rules[2].imm = "cj"
        /\ Riscv16Rules[3].imm = "none" /\ Riscv16Rules[4].imm = "none"
    BY DEF Riscv16Rules, Rule
  <2>5. Riscv16Rules[i].imm = "cj"
    BY <2>1, <2>3, <2>4, RiscvHits
  <2>6. w.lo = u.lo
    BY DEF Short, Word
  <2>7. ClassifyRiscv(bytes).offset = RiscvCj(w)
    BY <2>2, <2>3, <2>5, <2>6, CjOfLowHalf DEF Direct, Offset
  <2>8. Layout("Riscv", bytes) = [bits |-> bits, unit |-> 2]
    BY <1>2 DEF Layout
  <2>9. /\ Len(bits) = 11
        /\ bits[1] = 12 /\ bits[2] = 8 /\ bits[3] = 10 /\ bits[4] = 9 /\ bits[5] = 6 /\ bits[6] = 7
        /\ bits[7] = 2 /\ bits[8] = 11 /\ bits[9] = 5 /\ bits[10] = 4 /\ bits[11] = 3
    OBVIOUS
  <2> HIDE DEF bits
  <2>10. PICK v \in Int : RiscvCj(w) = 2 * v /\ TwosComplement(v, w, bits)
    BY ONLY <1>1, <2>9, RiscvCjReads
  <2>11. ReadOff(RiscvCj(w), [bits |-> bits, unit |-> 2], w)
    BY <2>10, ScaledNumber
  <2> QED
    BY <2>7, <2>8, <2>11
<1>3. CASE ~Compressed(bytes)
  <2> DEFINE bits == <<31>> \o Down(19, 12) \o <<20>> \o Down(30, 21)
  <2>1. Len(bytes) >= 4 /\ ClassifyRiscv(bytes) = FirstMatch(Riscv32Rules, Word(bytes))
    BY <1>0, <1>3 DEF ClassifyRiscv, Other
  <2>2. w = Word(bytes)
    BY <1>0, <2>1
  <2>3. PICK i \in Hits(Riscv32Rules, w) :
          Riscv32Rules[i].imm # "none" /\ FirstMatch(Riscv32Rules, w) = Direct(Offset(Riscv32Rules[i].imm, w))
    BY <1>1, <2>1, <2>2, FirstMatchIs
  <2>4. Riscv32Rules[1].imm = "jal" /\ Riscv32Rules[2].imm = "none"
    BY DEF Riscv32Rules, Rule
  <2>5. Riscv32Rules[i].imm = "jal"
    BY <1>1, <2>3, <2>4, RiscvHits
  <2>6. ClassifyRiscv(bytes).offset = RiscvJal(w)
    BY <2>1, <2>2, <2>3, <2>5 DEF Direct, Offset
  <2>7. Layout("Riscv", bytes) = [bits |-> bits, unit |-> 2]
    BY <1>3 DEF Layout
  <2>8. Len(bits) = 20 /\ \A j \in 1 .. 20 : bits[j] =
          IF j = 1 THEN 31 ELSE IF j <= 9 THEN 21 - j ELSE IF j = 10 THEN 20 ELSE 41 - j
    BY RiscvJalLayout
  <2> HIDE DEF bits
  <2>9. PICK v \in Int : RiscvJal(w) = 2 * v /\ TwosComplement(v, w, bits)
    BY ONLY <1>1, <2>8, RiscvJalReads
  <2>10. ReadOff(RiscvJal(w), [bits |-> bits, unit |-> 2], w)
    BY <2>9, ScaledNumber
  <2> QED
    BY <2>6, <2>7, <2>10
<1> QED
  BY <1>2, <1>3

(* What is left behind the prefixes are bytes again. *)
LEMMA OpcodeBytes ==
    ASSUME NEW bytes \in Seq(0 .. 255)
    PROVE  SkipPrefixes(bytes) \in Seq(0 .. 255)
<1> DEFINE B == 0 .. 255
           opcodes == {i \in DOMAIN bytes : bytes[i] \notin Prefixes}
           k == CHOOSE i \in opcodes : \A j \in opcodes : i <= j
<1>0. bytes \in Seq(B) /\ Len(bytes) \in Nat /\ DOMAIN bytes = 1 .. Len(bytes)
  OBVIOUS
<1>1. CASE opcodes = {}
  BY <1>1 DEF SkipPrefixes
<1>2. CASE opcodes # {}
  <2>1. opcodes \subseteq Nat
    BY <1>0
  <2>2. \E i \in opcodes : \A j \in opcodes : i <= j
    <3> HIDE DEF opcodes
    <3> QED
      BY <1>2, <2>1, SmallestExists
  <2>3. k \in opcodes
    BY <2>2
  <2>4. k \in 1 .. Len(bytes)
    BY <1>0, <2>3
  <2>5. SkipPrefixes(bytes) = SubSeq(bytes, k, Len(bytes))
    BY <1>2 DEF SkipPrefixes
  <2> HIDE DEF B, k
  <2>6. \A i \in k .. Len(bytes) : bytes[i] \in B
    BY <1>0, <2>4, ElementOfSeq
  <2>7. SubSeq(bytes, k, Len(bytes)) \in Seq(B)
    BY <1>0, <2>4, <2>6, SubSeqProperties
  <2> QED
    BY <2>5, <2>7 DEF B
<1> QED
  BY <1>1, <1>2

(* The i32 and i8 displacements of x86. *)
LEMMA Displacements ==
    ASSUME NEW op \in Seq(0 .. 255)
    PROVE  /\ Len(op) >= 5 => /\ Rel32(op) \in Int
                              /\ Rel32(op) % 2^16 = Half(op, 2)
                              /\ (Rel32(op) \div 2^16) % 2^16 = Half(op, 4)
                              /\ Rel32(op) \div 2^16 \in -(2^15) .. 2^15 - 1
           /\ Len(op) >= 2 => /\ Rel8(op) \in Int /\ Rel8(op) \in -128 .. 127
                              /\ Rel8(op) % 256 = op[2]
<1>1. ASSUME Len(op) >= 5
      PROVE  /\ Rel32(op) \in Int
             /\ Rel32(op) % 2^16 = Half(op, 2)
             /\ (Rel32(op) \div 2^16) % 2^16 = Half(op, 4)
             /\ Rel32(op) \div 2^16 \in -(2^15) .. 2^15 - 1
  <2> DEFINE a == op[2]
             b == op[3]
             c == op[4]
             d == op[5]
             s == IF d >= 128 THEN d - 256 ELSE d
             r == a + 256 * b + 65536 * c + 16777216 * s
  <2>1. /\ a \in Int /\ 0 <= a /\ a < 256
        /\ b \in Int /\ 0 <= b /\ b < 256
        /\ c \in Int /\ 0 <= c /\ c < 256
        /\ d \in Int /\ 0 <= d /\ d < 256
    BY <1>1, ByteFacts
  <2>2. Half(op, 2) = a + 256 * b /\ Half(op, 4) = c + 256 * d
    BY DEF Half
  <2> HIDE DEF a, b, c, d
  <2>3. SignExtend(d, 8) = s
    BY <2>1, SMT DEF SignExtend
  <2>4. Rel32(op) = r
    BY <2>1, <2>2, <2>3, SMT DEF Rel32, c, d
  <2>5. r \in Int
    BY <2>1, SMT
  <2>6. r % 65536 = a + 256 * b
    BY <2>1, SMT
  <2>7. (r \div 65536) % 65536 = c + 256 * d
    BY <2>1, SMT
  <2>8. r \div 65536 \in -(2^15) .. 2^15 - 1
    <3> DEFINE low == a + 256 * b
               high == c + 256 * s
    <3>1. low \in Int /\ 0 <= low /\ low < 65536
      BY <2>1, SMT
    <3>2. high \in Int /\ -32768 <= high /\ high <= 32767
      BY <2>1, SMT
    <3>3. r = low + 65536 * high
      BY <2>1, SMT
    <3> HIDE DEF low, high, r
    <3>4. r \div 65536 = high
      BY <3>1, <3>2, <3>3, SMT
    <3>5. -(2^15) = -32768 /\ 2^15 - 1 = 32767
      BY SMT
    <3> QED
      BY <3>2, <3>4, <3>5, SMT
  <2> HIDE DEF r
  <2>9. 2^16 = 65536
    BY SMT
  <2> QED
    BY ONLY <2>2, <2>4, <2>5, <2>6, <2>7, <2>8, <2>9
<1>2. ASSUME Len(op) >= 2
      PROVE  Rel8(op) \in Int /\ Rel8(op) \in -128 .. 127 /\ Rel8(op) % 256 = op[2]
  <2> DEFINE a == op[2]
             s == IF a >= 128 THEN a - 256 ELSE a
  <2>1. a \in Int /\ 0 <= a /\ a < 256
    BY <1>2, ByteFacts
  <2>2. Rel8(op) = s
    BY <2>1 DEF Rel8, SignExtend
  <2> HIDE DEF a
  <2>3. s \in Int /\ s \in -128 .. 127 /\ s % 256 = a
    BY <2>1
  <2> QED
    BY <2>2, <2>3 DEF a
<1> QED
  BY <1>1, <1>2

(* On x86 the displacement counts from the end of the instruction. *)
X86Exact(offset, bytes) ==
    LET op == SkipPrefixes(bytes)
        rel == offset - Len(bytes)
    IN  IF op[1] = 235
        THEN rel \in -128 .. 127 /\ rel % 256 = op[2]
        ELSE /\ rel % 2^16 = Half(op, 2)
             /\ (rel \div 2^16) % 2^16 = Half(op, 4)
             /\ rel \div 2^16 \in -(2^15) .. 2^15 - 1

(* classify_x86: CALL and JMP with 32-bit and 8-bit displacements. *)
LEMMA X86Offset ==
    ASSUME NEW bytes \in Seq(0 .. 255), ClassifyX86(bytes, Len(bytes)).kind = "Direct"
    PROVE  X86Exact(ClassifyX86(bytes, Len(bytes)).offset, bytes)
<1> DEFINE op == SkipPrefixes(bytes)
           end == Len(bytes)
           off == ClassifyX86(bytes, end).offset
<1>0. end \in Nat /\ op \in Seq(0 .. 255)
  BY OpcodeBytes
<1>1. \/ op[1] \in {232, 233} /\ Len(op) >= 5 /\ off = end + Rel32(op)
      \/ op[1] = 235 /\ Len(op) >= 2 /\ off = end + Rel8(op)
  BY SMT DEF ClassifyX86, Other, Indirect, Direct, FromNextPc
<1>2. X86Exact(off, bytes) <=>
        IF op[1] = 235
        THEN off - end \in -128 .. 127 /\ (off - end) % 256 = op[2]
        ELSE /\ (off - end) % 2^16 = Half(op, 2)
             /\ ((off - end) \div 2^16) % 2^16 = Half(op, 4)
             /\ (off - end) \div 2^16 \in -(2^15) .. 2^15 - 1
  BY DEF X86Exact
<1> HIDE DEF op, end, off
<1>3. ASSUME op[1] \in {232, 233}, Len(op) >= 5, off = end + Rel32(op) PROVE X86Exact(off, bytes)
  <2>1. Rel32(op) \in Int /\ off - end = Rel32(op) /\ op[1] # 235
    BY <1>0, <1>3, Displacements, SMTT(30)
  <2>2. /\ (off - end) % 2^16 = Half(op, 2)
        /\ ((off - end) \div 2^16) % 2^16 = Half(op, 4)
        /\ (off - end) \div 2^16 \in -(2^15) .. 2^15 - 1
    BY <1>0, <1>3, <2>1, Displacements
  <2> QED
    BY <1>2, <2>1, <2>2
<1>4. ASSUME op[1] = 235, Len(op) >= 2, off = end + Rel8(op) PROVE X86Exact(off, bytes)
  <2>1. Rel8(op) \in Int /\ Rel8(op) \in -128 .. 127 /\ Rel8(op) % 256 = op[2]
    BY <1>0, <1>4, Displacements
  <2>2. off - end = Rel8(op)
    BY <1>0, <1>4, <2>1
  <2>3. off - end \in -128 .. 127 /\ (off - end) % 256 = op[2]
    BY <2>1, <2>2
  <2> QED
    BY <1>2, <1>4, <2>3
<1>5. X86Exact(off, bytes)
  BY <1>1, <1>3, <1>4
<1> QED
  BY <1>5 DEF off, end

(***************************************************************************)
(* Direct targets are those of the encodings, for every instruction: the   *)
(* shifts, masks and sign extension of hex_r22_target, hex_r15_target,     *)
(* aarch64_imm26_target, riscv_jal_target and riscv_cj_target give the     *)
(* two's complement number drawn in their comments, and an x86 target      *)
(* counts from the end of the instruction, prefixes included.              *)
(***************************************************************************)
THEOREM TargetsExact == DecodeSpec => []OffsetsExact
<1>1. DecodeResult => OffsetsExact
  <2> SUFFICES ASSUME DecodeResult, Decoded, class.kind = "Direct" PROVE OffsetsExact
    BY DEF OffsetsExact
  <2>1. PICK x \in Inputs : insn = <<x>> /\ class = Classify(FromName(x.target), x.bytes)
    BY DEF DecodeResult, Decoded
  <2> DEFINE bytes == x.bytes
             w == IF Len(bytes) < 4 THEN Short(bytes) ELSE Word(bytes)
  <2>2. /\ insn[1].bytes = bytes /\ Arch = FromName(x.target)
        /\ bytes \in Seq(0 .. 255) /\ Arch \in Archs /\ Opcode = SkipPrefixes(bytes)
    BY <2>1, InputsAssumption, FromNameType DEF Arch, Opcode
  <2>3. class = Classify(Arch, bytes) /\ Len(bytes) \in Nat
    BY <2>1, <2>2
  <2> HIDE DEF bytes
  <2>4. CASE Arch = "X86"
    <3>1. class = ClassifyX86(bytes, Len(bytes))
      BY <2>3, <2>4 DEF Classify
    <3>2. X86Exact(class.offset, bytes)
      BY <2>2, <3>1, X86Offset
    <3> QED
      BY <2>2, <2>4, <3>2 DEF OffsetsExact, X86Exact
  <2>5. ASSUME Arch # "X86" PROVE ReadOff(class.offset, Layout(Arch, bytes), w)
    <3>1. CASE Arch = "Hexagon"
      <4>1. Len(bytes) >= 4 /\ class = ClassifyHexagon(Word(bytes))
        BY <2>3, <3>1 DEF Classify, Other
      <4> QED
        BY <2>2, <2>3, <3>1, <4>1, HexagonOffset
    <3>2. CASE Arch = "Aarch64"
      <4>1. Len(bytes) >= 4 /\ class = FirstMatch(Aarch64Rules, Word(bytes))
        BY <2>3, <3>2 DEF Classify, Other
      <4> QED
        BY <2>2, <2>3, <3>2, <4>1, Aarch64Offset
    <3>3. CASE Arch = "Riscv"
      <4>1. class = ClassifyRiscv(bytes)
        BY <2>3, <3>3 DEF Classify
      <4> QED
        BY <2>2, <3>3, <4>1, RiscvOffset
    <3>4. CASE Arch = "Unknown"
      BY <2>3, <3>4 DEF Classify, Other
    <3> QED
      BY <2>2, <2>5, <3>1, <3>2, <3>3, <3>4 DEF Archs
  <2>6. CASE Arch # "X86"
    BY <2>2, <2>5, <2>6 DEF OffsetsExact, ReadOff
  <2> QED
    BY <2>4, <2>6
<1> QED
  BY <1>1, DecodeInvariant, PTL
=============================================================================
