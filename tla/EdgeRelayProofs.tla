--------------------------- MODULE EdgeRelayProofs ---------------------------
(* Proofs about EdgeRelay: any vCPUs, any program, any tier and configuration. *)
EXTENDS EdgeRelay, TableTheorems

Ends == {b.end : b \in Tbs}

(* What the scoreboard holds: zeros or the addresses of a block. *)
ScoreboardOK ==
    /\ sb \in [Vcpus -> [last_tb_end : Nat, fall_through_addr : Nat, pending : Nat]]
    /\ \A v \in Vcpus : sb[v].last_tb_end \in {0} \cup Ends /\ sb[v].pending \in {0} \cup Ends

(* The block a vCPU is in, and the one it left. *)
PositionsOK ==
    /\ DOMAIN cur = Vcpus /\ DOMAIN prev = Vcpus
    /\ \A v \in Vcpus : cur[v] = <<>> \/ \E b \in known : cur[v] = <<b>>
    /\ \A v \in Vcpus : prev[v] = <<>> \/ \E b \in known, f \in BOOLEAN :
                                              prev[v] = <<[tb |-> b, finished |-> f]>>

(* Blocks, counts and tables. *)
TablesOK ==
    /\ config \in Configs
    /\ known \subseteq Tbs
    /\ direct = IF Tier >= 2 THEN UNION {b.direct : b \in known} ELSE {}
    /\ exec \in [Tbs -> Nat]
    /\ acc \in [Vcpus -> [Edges -> Nat]]
    /\ calls \in [Vcpus -> [Edges -> Nat]]
    /\ flushed \in [Starts -> Nat]
    /\ written \in [Edges -> Nat]
    /\ lost \in [Edges -> Nat]
    /\ missed \in [Edges -> Nat]
    /\ missedCalls \in [Edges -> Nat]
    /\ late \subseteq AllSlots

HistoryOK ==
    /\ strays \in [Starts -> Nat]
    /\ trueEdges \in [Edges -> Nat]
    /\ trueFt \in [Starts -> Nat]
    /\ firsts \in [Starts -> Nat]
    /\ trueCalls \in [Edges -> Nat]

RelayOK == ScoreboardOK /\ PositionsOK /\ TablesOK

(* The sets of starts and edges are finite. *)
LEMMA FiniteEdges == IsFiniteSet(Edges) /\ IsFiniteSet(Starts)
<1> DEFINE f == [b \in Tbs |-> b.start]
           g == [b \in Tbs |-> b.end]
<1>1. f \in Surjection(Tbs, Starts) /\ g \in Surjection(Tbs, Ends)
  BY DEF Surjection, Starts, Ends
<1> HIDE DEF f, g
<1>2. IsFiniteSet(Starts) /\ IsFiniteSet(Ends)
  BY <1>1, FiniteAssumption, FS_Surjection
<1>3. Edges = Ends \X Starts
  BY DEF Edges, Ends
<1> QED
  BY <1>2, <1>3, FS_Product

(* A block's addresses and options. *)
LEMMA BlockFields ==
    ASSUME NEW b \in Tbs
    PROVE  /\ b.start \in Nat /\ b.end \in Nat /\ b.fall_through_addr \in Nat
           /\ b.indirect \in BOOLEAN /\ b.direct \in SUBSET (Nat \X Nat)
           /\ b.start \in Starts /\ b.end \in Ends
  BY TbsAssumption DEF Starts, Ends

LEMMA ConfigFields ==
    ASSUME NEW c \in Configs
    PROVE  c.streaming \in BOOLEAN /\ c.top_n \in Nat
  BY ConfigsAssumption

(* A batch that is delivered: each of its edges is written or lost. *)
Delivered(t) ==
    /\ written' \in [Edges -> Nat]
    /\ lost' \in [Edges -> Nat]
    /\ \A f \in Edges : written'[f] + lost'[f] = written[f] + lost[f] + t[f]

LEMMA DeliverFacts ==
    ASSUME TablesOK, NEW t \in [Edges -> Nat], NEW K, Deliver(t, K)
    PROVE  Delivered(t)
<1>1. written \in [Edges -> Nat] /\ lost \in [Edges -> Nat]
  BY DEF TablesOK
<1>2. /\ written' = [e \in Edges |-> written[e] + (IF e \in K THEN t[e] ELSE 0)]
      /\ lost' = [e \in Edges |-> lost[e] + (IF e \in Edges \ K THEN t[e] ELSE 0)]
  BY <1>1 DEF Deliver, Merge, Keep
<1>3. ASSUME NEW f \in Edges
      PROVE  /\ written'[f] \in Nat /\ lost'[f] \in Nat
             /\ written'[f] + lost'[f] = written[f] + lost[f] + t[f]
  <2>1. written[f] \in Nat /\ lost[f] \in Nat /\ t[f] \in Nat
    BY <1>1
  <2> QED
    BY <1>2, <2>1
<1>4. written' \in [Edges -> Nat] /\ lost' \in [Edges -> Nat]
  BY <1>2, <1>3
<1> QED
  BY <1>3, <1>4 DEF Delivered

(* record_edge finds no accumulator, keeps the edge in it, or drains it. *)
Missed(e) == missed' = Bump(missed, e) /\ UNCHANGED <<acc, flushed, written, lost>>
Kept(v, t) == acc' = [acc EXCEPT ![v] = t] /\ UNCHANGED <<flushed, written, lost, missed>>
Drained(v, t) ==
    /\ acc' = [acc EXCEPT ![v] = EmptyTable(Edges)]
    /\ flushed' = [a \in Starts |-> flushed[a] + EntriesInto(t, a)]
    /\ Delivered(t)
    /\ UNCHANGED missed

LEMMA RecordStep ==
    ASSUME RelayOK, NEW v \in Vcpus, NEW e \in Edges, RecordEdge(v, e)
    PROVE  \/ Missed(e)
           \/ \E t \in [Edges -> Nat] :
                /\ t \in AccRecord(acc[v], e, config.streaming, config.top_n)
                /\ Kept(v, t) \/ Drained(v, t)
<1>1. CASE <<v, "edges">> \in late
  BY <1>1 DEF RecordEdge, Missed
<1>2. CASE <<v, "edges">> \notin late
  <2>1. UNCHANGED missed
    BY <1>2 DEF RecordEdge
  <2>2. PICK t \in AccRecord(acc[v], e, config.streaming, config.top_n) :
           IF ShouldFlush(t, config.streaming, config.top_n)
           THEN /\ acc' = [acc EXCEPT ![v] = EmptyTable(Edges)]
                /\ flushed' = [a \in Starts |-> flushed[a] + EntriesInto(t, a)]
                /\ \E K \in SUBSET Keys(t) : Deliver(t, K)
           ELSE /\ acc' = [acc EXCEPT ![v] = t]
                /\ UNCHANGED <<flushed, written, lost>>
    BY <1>2 DEF RecordEdge
  <2>3. acc[v] \in [Edges -> Nat] /\ config.streaming \in BOOLEAN /\ config.top_n \in Nat
    BY ConfigFields DEF RelayOK, TablesOK
  <2>4. t \in [Edges -> Nat]
    BY <2>3, FiniteEdges, RecordFacts
  <2>5. CASE ShouldFlush(t, config.streaming, config.top_n)
    <3>1. PICK K \in SUBSET Keys(t) : Deliver(t, K)
      BY <2>2, <2>5
    <3>2. Delivered(t)
      BY <2>4, <3>1, DeliverFacts DEF RelayOK
    <3>3. Drained(v, t)
      BY <2>1, <2>2, <2>5, <3>2 DEF Drained
    <3> QED
      BY <2>4, <3>3
  <2>6. CASE ~ShouldFlush(t, config.streaming, config.top_n)
    <3>1. Kept(v, t)
      BY <2>1, <2>2, <2>6 DEF Kept
    <3> QED
      BY <2>4, <3>1
  <2> QED
    BY <2>5, <2>6
<1> QED
  BY <1>1, <1>2

(* Does the callback of the block at `to` record an edge? *)
Records(v, to) == sb[v].fall_through_addr # to /\ sb[v].last_tb_end # 0

(* Does it record an indirect call? *)
RecordsCall(v) == Tier >= 2 /\ sb[v].pending # 0

(* What entering a block does to the tables. *)
LEMMA EnterStep ==
    ASSUME RelayOK, NEW v \in Vcpus, NEW b \in Tbs, EnterTb(v, b)
    PROVE  /\ ~Records(v, b.start) => UNCHANGED tables
           /\ Records(v, b.start) =>
                /\ <<sb[v].last_tb_end, b.start>> \in Edges
                /\ RecordEdge(v, <<sb[v].last_tb_end, b.start>>)
                /\ RecordsCall(v) => RecordIndirectCall(v, <<sb[v].pending, b.start>>)
                /\ ~RecordsCall(v) => UNCHANGED <<calls, missedCalls>>
<1>1. IF sb[v].fall_through_addr # b.start
      THEN BranchTakenCb(v, b.start)
      ELSE UNCHANGED tables
  BY DEF EnterTb
<1>2. ~Records(v, b.start) => UNCHANGED tables
  BY <1>1 DEF Records, BranchTakenCb
<1>3. Records(v, b.start) => <<sb[v].last_tb_end, b.start>> \in Edges
  <2>1. sb[v].last_tb_end \in {0} \cup Ends /\ b.start \in Starts
    BY BlockFields DEF RelayOK, ScoreboardOK
  <2> QED
    BY <2>1 DEF Records, Edges, Ends
<1>4. Records(v, b.start) => BranchTakenCb(v, b.start)
  BY <1>1 DEF Records
<1>5. Records(v, b.start) =>
                /\ RecordEdge(v, <<sb[v].last_tb_end, b.start>>)
                /\ RecordsCall(v) => RecordIndirectCall(v, <<sb[v].pending, b.start>>)
                /\ ~RecordsCall(v) => UNCHANGED <<calls, missedCalls>>
  BY <1>4, Zenon DEF Records, RecordsCall, BranchTakenCb
<1> QED
  BY <1>2, <1>3, <1>5

(* Counting in a table keeps its type, whatever the key. *)
LEMMA BumpType ==
    ASSUME NEW E, NEW t \in [E -> Nat], NEW e PROVE Bump(t, e) \in [E -> Nat]
<1>1. CASE e \in E
  BY <1>1 DEF Bump
<1>2. CASE e \notin E
  <2>1. Bump(t, e) = t
    BY <1>2 DEF Bump
  <2> QED
    BY <2>1
<1> QED
  BY <1>1, <1>2

LEMMA EmptyIsTable == EmptyTable(Edges) \in [Edges -> Nat] /\ EmptyTable(Starts) \in [Starts -> Nat]
  BY DEF EmptyTable

(* The tables' types across the recording of an edge and of a call. *)
LEMMA RecordKeepsTypes ==
    ASSUME RelayOK, NEW v \in Vcpus, NEW e \in Edges, RecordEdge(v, e)
    PROVE  /\ acc' \in [Vcpus -> [Edges -> Nat]] /\ flushed' \in [Starts -> Nat]
           /\ written' \in [Edges -> Nat] /\ lost' \in [Edges -> Nat] /\ missed' \in [Edges -> Nat]
<1>1. /\ acc \in [Vcpus -> [Edges -> Nat]] /\ flushed \in [Starts -> Nat]
      /\ written \in [Edges -> Nat] /\ lost \in [Edges -> Nat] /\ missed \in [Edges -> Nat]
  BY DEF RelayOK, TablesOK
<1>2. CASE Missed(e)
  <2>1. Bump(missed, e) \in [Edges -> Nat]
    BY <1>1, BumpType
  <2> QED
    BY <1>1, <1>2, <2>1 DEF Missed
<1>3. ASSUME NEW t \in [Edges -> Nat], Kept(v, t)
      PROVE  /\ acc' \in [Vcpus -> [Edges -> Nat]] /\ flushed' \in [Starts -> Nat]
             /\ written' \in [Edges -> Nat] /\ lost' \in [Edges -> Nat] /\ missed' \in [Edges -> Nat]
  BY <1>1, <1>3 DEF Kept
<1>4. ASSUME NEW t \in [Edges -> Nat], Drained(v, t)
      PROVE  /\ acc' \in [Vcpus -> [Edges -> Nat]] /\ flushed' \in [Starts -> Nat]
             /\ written' \in [Edges -> Nat] /\ lost' \in [Edges -> Nat] /\ missed' \in [Edges -> Nat]
  <2>1. ASSUME NEW a \in Starts PROVE flushed[a] + EntriesInto(t, a) \in Nat
    <3>1. EntriesInto(t, a) \in Nat
      BY FiniteEdges, EntriesFacts
    <3> QED
      BY <1>1, <3>1
  <2>2. flushed' \in [Starts -> Nat]
    BY <1>4, <2>1 DEF Drained
  <2>3. acc' \in [Vcpus -> [Edges -> Nat]]
    BY <1>1, <1>4, EmptyIsTable DEF Drained
  <2> QED
    BY <1>1, <1>4, <2>2, <2>3 DEF Drained, Delivered
<1> QED
  BY <1>2, <1>3, <1>4, RecordStep

LEMMA CallKeepsTypes ==
    ASSUME RelayOK, NEW v \in Vcpus, NEW c, RecordIndirectCall(v, c)
    PROVE  calls' \in [Vcpus -> [Edges -> Nat]] /\ missedCalls' \in [Edges -> Nat]
<1>1. calls \in [Vcpus -> [Edges -> Nat]] /\ calls[v] \in [Edges -> Nat] /\ missedCalls \in [Edges -> Nat]
  BY DEF RelayOK, TablesOK
<1>2. Bump(calls[v], c) \in [Edges -> Nat] /\ Bump(missedCalls, c) \in [Edges -> Nat]
  BY <1>1, BumpType
<1>3. CASE <<v, "calls">> \in late
  BY <1>1, <1>2, <1>3 DEF RecordIndirectCall
<1>4. CASE <<v, "calls">> \notin late
  BY <1>1, <1>2, <1>4 DEF RecordIndirectCall
<1> QED
  BY <1>3, <1>4

(* The tables' types across the entry of a block. *)
LEMMA EnterKeepsTables ==
    ASSUME RelayOK, NEW v \in Vcpus, NEW b \in Tbs, EnterTb(v, b)
    PROVE  TablesOK'
<1>1. /\ UNCHANGED <<config, known, direct, late>> /\ exec' = [exec EXCEPT ![b] = @ + 1]
  BY DEF EnterTb
<1>2. exec' \in [Tbs -> Nat]
  BY <1>1 DEF RelayOK, TablesOK
<1>3. CASE ~Records(v, b.start)
  <2>1. UNCHANGED <<acc, calls, flushed, written, lost, missed, missedCalls>>
    BY <1>3, EnterStep DEF tables
  <2> QED
    BY <1>1, <1>2, <2>1 DEF RelayOK, TablesOK
<1>4. CASE Records(v, b.start)
  <2>1. PICK e \in Edges : RecordEdge(v, e)
    BY <1>4, EnterStep
  <2>2. /\ acc' \in [Vcpus -> [Edges -> Nat]] /\ flushed' \in [Starts -> Nat]
        /\ written' \in [Edges -> Nat] /\ lost' \in [Edges -> Nat] /\ missed' \in [Edges -> Nat]
    BY <2>1, RecordKeepsTypes
  <2>3. calls' \in [Vcpus -> [Edges -> Nat]] /\ missedCalls' \in [Edges -> Nat]
    <3>1. CASE RecordsCall(v)
      BY <1>4, <3>1, EnterStep, CallKeepsTypes
    <3>2. CASE ~RecordsCall(v)
      BY <1>4, <3>2, EnterStep DEF RelayOK, TablesOK
    <3> QED
      BY <3>1, <3>2
  <2> QED
    BY <1>1, <1>2, <2>2, <2>3 DEF RelayOK, TablesOK
<1> QED
  BY <1>3, <1>4

(* The total of one edge over the vCPUs' tables. *)
LEMMA MergeAllType ==
    ASSUME NEW ts \in [Vcpus -> [Edges -> Nat]]
    PROVE  /\ MergeAll(ts) \in [Edges -> Nat]
           /\ \A e \in Edges : MergeAll(ts)[e] = SumFunction([v \in Vcpus |-> ts[v][e]])
<1>1. ASSUME NEW e \in Edges PROVE SumFunction([v \in Vcpus |-> ts[v][e]]) \in Nat
  <2> DEFINE f == [v \in Vcpus |-> ts[v][e]]
  <2>1. DOMAIN f = Vcpus /\ \A v \in Vcpus : f[v] \in Nat
    OBVIOUS
  <2> HIDE DEF f
  <2>2. SumFunction(f) \in Nat
    BY <2>1, SumIsNat, FiniteAssumption DEF SumFunction
  <2> QED
    BY <2>2 DEF f
<1> QED
  BY <1>1 DEF MergeAll

(* The inductive type invariant. *)
LEMMA RelayInvariant == Spec => []RelayOK
<1>1. Init => RelayOK
  <2> SUFFICES ASSUME Init PROVE RelayOK
    OBVIOUS
  <2>1. ScoreboardOK
    <3>1. /\ ZeroState \in [last_tb_end : Nat, fall_through_addr : Nat, pending : Nat]
          /\ ZeroState.last_tb_end = 0 /\ ZeroState.pending = 0
      BY DEF ZeroState
    <3>2. sb = [v \in Vcpus |-> ZeroState]
      BY DEF Init
    <3> QED
      BY <3>1, <3>2 DEF ScoreboardOK
  <2>2. PositionsOK
    BY DEF Init, PositionsOK
  <2>3. TablesOK
    <3>1. /\ config \in Configs /\ known = {} /\ direct = {} /\ exec = [b \in Tbs |-> 0]
          /\ acc = [v \in Vcpus |-> EmptyTable(Edges)] /\ calls = [v \in Vcpus |-> EmptyTable(Edges)]
          /\ flushed = EmptyTable(Starts) /\ written = EmptyTable(Edges)
          /\ lost = EmptyTable(Edges) /\ missed = EmptyTable(Edges) /\ missedCalls = EmptyTable(Edges)
          /\ late \subseteq AllSlots
      BY DEF Init
    <3>2. UNION {b.direct : b \in known} = {}
      BY <3>1
    <3> QED
      BY <3>1, <3>2, EmptyIsTable DEF TablesOK
  <2> QED
    BY <2>1, <2>2, <2>3 DEF RelayOK
<1>2. RelayOK /\ [Next]_vars => RelayOK'
  <2> SUFFICES ASSUME RelayOK, [Next]_vars PROVE RelayOK'
    OBVIOUS
  <2>1. ASSUME NEW b \in Tbs, Translate(b) PROVE RelayOK'
    <3>1. UNCHANGED <<config, exec, sb, cur, late, acc, calls, flushed, written, lost, missed,
                      missedCalls, prev>>
      BY <2>1 DEF Translate, tables
    <3>2. known' = known \cup {b}
      BY <2>1 DEF Translate
    <3>3. direct' = IF Tier >= 2 THEN UNION {c.direct : c \in known'} ELSE {}
      <4>1. UNION {c.direct : c \in known'} = (UNION {c.direct : c \in known}) \cup b.direct
        BY <3>2
      <4> QED
        BY <2>1, <4>1 DEF Translate, RelayOK, TablesOK
    <3>4. TablesOK'
      BY <3>1, <3>2, <3>3 DEF RelayOK, TablesOK
    <3>5. PositionsOK'
      BY <3>1, <3>2 DEF RelayOK, PositionsOK
    <3>6. ScoreboardOK'
      BY <3>1 DEF RelayOK, ScoreboardOK
    <3> QED
      BY <3>4, <3>5, <3>6 DEF RelayOK
  <2>2. ASSUME NEW v \in Vcpus, NEW b \in Tbs, EnterTb(v, b) PROVE RelayOK'
    <3>1. TablesOK'
      BY <2>2, EnterKeepsTables
    <3>2. PositionsOK'
      BY <2>2 DEF EnterTb, RelayOK, PositionsOK
    <3>3. ScoreboardOK'
      BY <2>2 DEF EnterTb, RelayOK, ScoreboardOK
    <3> QED
      BY <3>1, <3>2, <3>3 DEF RelayOK
  <2>3. ASSUME NEW v \in Vcpus, FinishTb(v) PROVE RelayOK'
    <3>1. PICK b \in known : cur[v] = <<b>>
      BY <2>3 DEF FinishTb, RelayOK, PositionsOK
    <3>2. /\ b \in Tbs /\ b.end \in Nat /\ b.end \in Ends /\ b.fall_through_addr \in Nat
          /\ b.indirect \in BOOLEAN
      BY BlockFields DEF RelayOK, TablesOK
    <3>3. TablesOK'
      BY <2>3 DEF FinishTb, tables, RelayOK, TablesOK
    <3>4. PositionsOK'
      <4>1. /\ cur' = [cur EXCEPT ![v] = <<>>] /\ known' = known
            /\ prev' = [prev EXCEPT ![v] = <<[tb |-> b, finished |-> TRUE]>>]
        BY <2>3, <3>1 DEF FinishTb
      <4> QED
        BY <4>1 DEF RelayOK, PositionsOK
    <3>5. ScoreboardOK'
      <4>1. sb' = [sb EXCEPT ![v] = [last_tb_end |-> b.end, fall_through_addr |-> b.fall_through_addr,
                                     pending |-> IF Tier >= 2 /\ b.indirect THEN b.end ELSE sb[v].pending]]
        BY <2>3, <3>1 DEF FinishTb
      <4> QED
        BY <3>2, <4>1 DEF RelayOK, ScoreboardOK
    <3> QED
      BY <3>3, <3>4, <3>5 DEF RelayOK
  <2>4. ASSUME NEW v \in Vcpus, Abort(v) PROVE RelayOK'
    <3>1. PICK b \in known : cur[v] = <<b>>
      BY <2>4 DEF Abort, RelayOK, PositionsOK
    <3>2. /\ cur' = [cur EXCEPT ![v] = <<>>] /\ UNCHANGED plugin /\ config' = config
          /\ prev' = [prev EXCEPT ![v] = <<[tb |-> b, finished |-> FALSE]>>]
      BY <2>4, <3>1 DEF Abort
    <3>3. PositionsOK'
      BY <3>2 DEF RelayOK, PositionsOK, plugin
    <3>4. TablesOK' /\ ScoreboardOK'
      BY <3>2 DEF RelayOK, TablesOK, ScoreboardOK, plugin, tables
    <3> QED
      BY <3>3, <3>4 DEF RelayOK
  <2>5. CASE PluginExit
    <3>1. MergeAll(acc) \in [Edges -> Nat]
      BY MergeAllType DEF RelayOK, TablesOK
    <3>2. /\ \E K \in SUBSET Keys(MergeAll(acc)) : Deliver(MergeAll(acc), K)
          /\ acc' = [v \in Vcpus |-> EmptyTable(Edges)]
          /\ UNCHANGED <<config, known, direct, exec, sb, cur, late, calls, flushed, missed, missedCalls,
                         prev>>
      BY <2>5 DEF PluginExit
    <3>3. written' \in [Edges -> Nat] /\ lost' \in [Edges -> Nat]
      BY <3>1, <3>2, DeliverFacts DEF RelayOK, Delivered
    <3>4. acc' \in [Vcpus -> [Edges -> Nat]]
      BY <3>2, EmptyIsTable
    <3>5. TablesOK'
      BY <3>2, <3>3, <3>4 DEF RelayOK, TablesOK
    <3>6. ScoreboardOK' /\ PositionsOK'
      BY <3>2 DEF RelayOK, ScoreboardOK, PositionsOK
    <3> QED
      BY <3>5, <3>6 DEF RelayOK
  <2>6. ASSUME NEW v \in Vcpus, NEW s \in {"edges", "calls"}, StoreSlot(v, s) PROVE RelayOK'
    <3>1. /\ late' \subseteq late
          /\ UNCHANGED <<config, known, direct, exec, sb, cur, acc, calls, flushed, written, lost, missed,
                         missedCalls, prev>>
      BY <2>6 DEF StoreSlot, tables
    <3> QED
      BY <3>1 DEF RelayOK, ScoreboardOK, PositionsOK, TablesOK
  <2>7. CASE UNCHANGED vars
    BY <2>7 DEF vars, plugin, tables, RelayOK, ScoreboardOK, PositionsOK, TablesOK
  <2> QED
    BY <2>1, <2>2, <2>3, <2>4, <2>5, <2>6, <2>7 DEF Next
<1> QED
  BY <1>1, <1>2, PTL DEF Spec

(* The type invariant: tables, scoreboards and flushed counts, and a vCPU is in a known block. *)
THEOREM TypeInvariant == Spec => []TypeOK
<1>1. RelayOK => TypeOK
  BY DEF RelayOK, ScoreboardOK, PositionsOK, TablesOK, TypeOK
<1> QED
  BY <1>1, RelayInvariant, PTL
-----------------------------------------------------------------------------
(***************************************************************************)
(* Address 0 is the scoreboard's "no block yet" and "no pending call": a   *)
(* block whose last instruction is at address 0 would be taken for that    *)
(* (branch_taken_cb returns on from_addr == 0), so the counts below are    *)
(* those of a program without one.                                         *)
(***************************************************************************)
NoBlockEndsAtZero == \A b \in Tbs : b.end # 0

(***************************************************************************)
(* What one block's instrumentation leaves for the next one's: nothing     *)
(* before the first block; the addresses of the previous block if it ran   *)
(* to its end; in any case no pending call of a block that did not.        *)
(***************************************************************************)
Relayed ==
    \A v \in Vcpus :
        /\ Tier >= 2 /\ cur[v] # <<>> => sb[v].pending = 0
        /\ cur[v] = <<>> /\ prev[v] = <<>> => sb[v] = ZeroState
        /\ cur[v] = <<>> /\ prev[v] # <<>> =>
              IF prev[v][1].finished
              THEN /\ sb[v].last_tb_end = prev[v][1].tb.end
                   /\ sb[v].fall_through_addr = prev[v][1].tb.fall_through_addr
                   /\ Tier >= 2 => sb[v].pending = IF prev[v][1].tb.indirect
                                                   THEN prev[v][1].tb.end ELSE 0
              ELSE Tier >= 2 => sb[v].pending = 0

(* The indirect calls of all vCPUs, and those without a map, are those that happened. *)
CallsTotal ==
    Tier >= 2 => \A c \in Edges : MergeAll(calls)[c] + missedCalls[c] = trueCalls[c]

(* What became of an edge: written, lost, missed or still accumulated. *)
EdgeTotal(e) == written[e] + lost[e] + missed[e] + MergeAll(acc)[e]

(* None too many but for the entries from abandoned blocks and, streaming, none missing. *)
EdgesTotal ==
    Running =>
        \A e \in Edges :
            /\ EdgeTotal(e) <= trueEdges[e] + strays[e[2]]
            /\ config.streaming => trueEdges[e] <= EdgeTotal(e)

(* flushed_branch_entries holds the entries of the edges already drained. *)
FlushedCounted ==
    Running => \A a \in Starts : flushed[a] = EntriesInto(written, a) + EntriesInto(lost, a)

BlocksAt(a) == {b \in Tbs : b.start = a}

(* Entries at a by fall-through, as a vCPU's first block, by an edge, from an abandoned block. *)
Accounted(a) == trueFt[a] + firsts[a] + EntriesInto(trueEdges, a) + strays[a]

(* Every entry of a block is one of these. *)
EntriesTotal == \A a \in Starts : SumFunctionOnSet(exec, BlocksAt(a)) = Accounted(a)

(* Only known blocks run, and something known falls through to where one fell. *)
OnlyKnownRuns ==
    /\ \A b \in Tbs : exec[b] > 0 => b \in known
    /\ \A a \in Starts : trueFt[a] > 0 => \E p \in known : p.fall_through_addr = a

(* After the exit nothing happens any more. *)
LEMMA NextRunning == Next => Running
  BY DEF Next, Translate, EnterTb, FinishTb, Abort, StoreSlot, PluginExit

(* The counts of what really happened are numbers. *)
LEMMA HistoryInvariant == Spec => []HistoryOK
<1>1. Init => HistoryOK
  BY EmptyIsTable DEF Init, HistoryOK
<1>2. HistoryOK /\ [Next]_vars => HistoryOK'
  <2> SUFFICES ASSUME HistoryOK, [Next]_vars PROVE HistoryOK'
    OBVIOUS
  <2>1. ASSUME NEW v \in Vcpus, NEW b \in Tbs, EnterTb(v, b) PROVE HistoryOK'
    <3>1. \A e : /\ Bump(trueEdges, e) \in [Edges -> Nat] /\ Bump(trueCalls, e) \in [Edges -> Nat]
                 /\ Bump(trueFt, e) \in [Starts -> Nat] /\ Bump(firsts, e) \in [Starts -> Nat]
                 /\ Bump(strays, e) \in [Starts -> Nat]
      BY BumpType DEF HistoryOK
    <3>2. ObserveEntry(v, b.start)
      BY <2>1 DEF EnterTb
    <3>3. /\ trueEdges' = trueEdges \/ \E e : trueEdges' = Bump(trueEdges, e)
          /\ trueCalls' = trueCalls \/ \E e : trueCalls' = Bump(trueCalls, e)
          /\ trueFt' = trueFt \/ \E e : trueFt' = Bump(trueFt, e)
          /\ firsts' = firsts \/ \E e : firsts' = Bump(firsts, e)
          /\ strays' = strays \/ \E e : strays' = Bump(strays, e)
      BY <3>2, Zenon DEF ObserveEntry
    <3>4. trueEdges' \in [Edges -> Nat] /\ trueCalls' \in [Edges -> Nat]
      BY <3>1, <3>3 DEF HistoryOK
    <3>5. trueFt' \in [Starts -> Nat] /\ firsts' \in [Starts -> Nat] /\ strays' \in [Starts -> Nat]
      BY <3>1, <3>3 DEF HistoryOK
    <3> QED
      BY <3>4, <3>5 DEF HistoryOK
  <2>2. CASE UNCHANGED observed
    BY <2>2 DEF HistoryOK, observed
  <2>3. Next => UNCHANGED observed \/ \E v \in Vcpus, b \in Tbs : EnterTb(v, b)
    BY DEF Next, Translate, FinishTb, Abort, StoreSlot, PluginExit
  <2> QED
    BY <2>1, <2>2, <2>3 DEF vars
<1> QED
  BY <1>1, <1>2, PTL DEF Spec

(* The hand-over from block to block, on each vCPU. *)
LEMMA RelayedInvariant == Spec => []Relayed
<1>1. Init => Relayed
  BY DEF Init, Relayed, ZeroState
<1>2. RelayOK /\ Relayed /\ [Next]_vars => Relayed'
  <2> SUFFICES ASSUME RelayOK, Relayed, [Next]_vars PROVE Relayed'
    OBVIOUS
  <2>1. ASSUME NEW v \in Vcpus, NEW b \in Tbs, EnterTb(v, b) PROVE Relayed'
    <3>1. /\ UNCHANGED prev
          /\ cur' = [cur EXCEPT ![v] = <<b>>]
          /\ sb' = [sb EXCEPT ![v].pending = IF Tier >= 2 THEN 0 ELSE @]
      BY <2>1 DEF EnterTb
    <3>2. /\ cur'[v] # <<>> /\ (Tier >= 2 => sb'[v].pending = 0)
          /\ \A w \in Vcpus : w # v => cur'[w] = cur[w] /\ sb'[w] = sb[w]
      BY <3>1 DEF RelayOK, PositionsOK, ScoreboardOK
    <3> QED
      BY <3>1, <3>2 DEF Relayed
  <2>2. ASSUME NEW v \in Vcpus, FinishTb(v) PROVE Relayed'
    <3>1. PICK b \in known : cur[v] = <<b>>
      BY <2>2 DEF FinishTb, RelayOK, PositionsOK
    <3> DEFINE s == [last_tb_end |-> b.end, fall_through_addr |-> b.fall_through_addr,
                     pending |-> IF Tier >= 2 /\ b.indirect THEN b.end ELSE sb[v].pending]
    <3>2. /\ sb' = [sb EXCEPT ![v] = s] /\ cur' = [cur EXCEPT ![v] = <<>>]
          /\ prev' = [prev EXCEPT ![v] = <<[tb |-> b, finished |-> TRUE]>>]
      BY <2>2, <3>1 DEF FinishTb
    <3>3. /\ s.last_tb_end = b.end /\ s.fall_through_addr = b.fall_through_addr
          /\ Tier >= 2 => s.pending = IF b.indirect THEN b.end ELSE 0
      <4>1. Tier >= 2 => sb[v].pending = 0
        BY <2>2 DEF FinishTb, Relayed
      <4>2. s.pending = IF Tier >= 2 /\ b.indirect THEN b.end ELSE sb[v].pending
        OBVIOUS
      <4> QED
        BY <4>1, <4>2
    <3> HIDE DEF s
    <3>4. /\ cur'[v] = <<>> /\ sb'[v] = s /\ prev'[v] # <<>>
          /\ prev'[v][1].tb = b /\ prev'[v][1].finished = TRUE
          /\ \A w \in Vcpus : w # v => cur'[w] = cur[w] /\ sb'[w] = sb[w] /\ prev'[w] = prev[w]
      BY <3>2 DEF RelayOK, PositionsOK, ScoreboardOK
    <3> QED
      BY <3>3, <3>4 DEF Relayed
  <2>3. ASSUME NEW v \in Vcpus, Abort(v) PROVE Relayed'
    <3>1. /\ cur' = [cur EXCEPT ![v] = <<>>] /\ sb' = sb /\ cur[v] # <<>>
          /\ prev' = [prev EXCEPT ![v] = <<[tb |-> cur[v][1], finished |-> FALSE]>>]
      BY <2>3 DEF Abort, plugin
    <3>2. /\ prev'[v] # <<>> /\ prev'[v][1].finished = FALSE
          /\ Tier >= 2 => sb[v].pending = 0
          /\ \A w \in Vcpus : w # v => cur'[w] = cur[w] /\ prev'[w] = prev[w]
      BY <3>1 DEF RelayOK, PositionsOK, Relayed
    <3> QED
      BY <3>1, <3>2 DEF Relayed, RelayOK, PositionsOK
  <2>4. CASE UNCHANGED <<sb, cur, prev>>
    BY <2>4 DEF Relayed
  <2>5. Next => \/ UNCHANGED <<sb, cur, prev>>
                \/ \E v \in Vcpus : FinishTb(v) \/ Abort(v)
                \/ \E v \in Vcpus, b \in Tbs : EnterTb(v, b)
    BY DEF Next, Translate, StoreSlot, PluginExit
  <2> QED
    BY <2>1, <2>2, <2>3, <2>4, <2>5 DEF vars, plugin
<1> QED
  BY <1>1, <1>2, RelayInvariant, PTL DEF Spec

(* The four ways to enter a block. *)
FirstEntry(v, to) ==
    /\ UNCHANGED <<tables, strays, trueEdges, trueFt, trueCalls>>
    /\ firsts' = Bump(firsts, to)

FellThrough(v, to) ==
    /\ \E p \in known : p.fall_through_addr = to
    /\ UNCHANGED <<tables, strays, trueEdges, firsts, trueCalls>>
    /\ trueFt' = Bump(trueFt, to)

TookEdge(v, to) ==
    \E p \in known :
        LET e == <<p.end, to>>
        IN  /\ e \in Edges
            /\ RecordEdge(v, e)
            /\ Tier >= 2 => IF p.indirect THEN RecordIndirectCall(v, e)
                            ELSE UNCHANGED <<calls, missedCalls>>
            /\ trueEdges' = Bump(trueEdges, e)
            /\ trueCalls' = IF p.indirect THEN Bump(trueCalls, e) ELSE trueCalls
            /\ UNCHANGED <<strays, trueFt, firsts>>

AfterAbort(v, to) ==
    /\ \/ UNCHANGED tables
       \/ \E e \in Edges : e[2] = to /\ RecordEdge(v, e)
    /\ Tier >= 2 => UNCHANGED <<calls, missedCalls>>
    /\ strays' = Bump(strays, to)
    /\ UNCHANGED <<trueEdges, trueFt, firsts, trueCalls>>

(***************************************************************************)
(* The plugin sees what happens: an entry that is an edge is recorded as   *)
(* that edge, with the call if there is one; a first or a sequential entry *)
(* is not recorded; only after an abandoned block may it be mistaken, and  *)
(* even then it takes nothing for an indirect call.                        *)
(***************************************************************************)
LEMMA EntryKinds ==
    ASSUME NoBlockEndsAtZero, RelayOK, Relayed, NEW v \in Vcpus, NEW b \in Tbs, EnterTb(v, b)
    PROVE  \/ FirstEntry(v, b.start) \/ FellThrough(v, b.start)
           \/ TookEdge(v, b.start) \/ AfterAbort(v, b.start)
<1> DEFINE to == b.start
<1>1. cur[v] = <<>> /\ ObserveEntry(v, to)
  BY DEF EnterTb
<1>2. CASE prev[v] = <<>>
  <2>1. ~Records(v, to)
    BY <1>1, <1>2 DEF Relayed, Records, ZeroState
  <2>2. UNCHANGED tables
    BY <2>1, EnterStep
  <2> QED
    BY <1>1, <1>2, <2>2 DEF ObserveEntry, FirstEntry
<1>3. CASE prev[v] # <<>>
  <2>1. PICK p \in known, f \in BOOLEAN : prev[v] = <<[tb |-> p, finished |-> f]>>
    BY <1>3 DEF RelayOK, PositionsOK
  <2>2. prev[v][1].tb = p /\ prev[v][1].finished = f
    BY <2>1
  <2>3. /\ p \in Tbs /\ p.end \in Ends /\ p.end # 0 /\ p.indirect \in BOOLEAN
    BY BlockFields DEF RelayOK, TablesOK, NoBlockEndsAtZero
  <2>4. CASE ~f
    <3>1. Tier >= 2 => ~RecordsCall(v)
      BY <1>1, <1>3, <2>2, <2>4 DEF Relayed, RecordsCall
    <3>2. strays' = Bump(strays, to) /\ UNCHANGED <<trueEdges, trueFt, firsts, trueCalls>>
      BY <1>1, <1>3, <2>2, <2>4 DEF ObserveEntry
    <3>3. CASE ~Records(v, to)
      <4>1. UNCHANGED tables
        BY <3>3, EnterStep
      <4> QED
        BY <3>2, <4>1 DEF AfterAbort, tables
    <3>4. CASE Records(v, to)
      <4> DEFINE e == <<sb[v].last_tb_end, to>>
      <4>1. e \in Edges /\ RecordEdge(v, e) /\ (Tier >= 2 => UNCHANGED <<calls, missedCalls>>)
        BY <3>1, <3>4, EnterStep
      <4>2. e[2] = to
        OBVIOUS
      <4> HIDE DEF e
      <4> QED
        BY <3>2, <4>1, <4>2 DEF AfterAbort
    <3> QED
      BY <3>3, <3>4
  <2>5. CASE f
    <3>1. /\ sb[v].last_tb_end = p.end /\ sb[v].fall_through_addr = p.fall_through_addr
          /\ Tier >= 2 => sb[v].pending = IF p.indirect THEN p.end ELSE 0
      BY <1>1, <1>3, <2>2, <2>5 DEF Relayed
    <3>2. LET taken == p.fall_through_addr # to
          IN  /\ trueFt' = IF taken THEN trueFt ELSE Bump(trueFt, to)
              /\ trueEdges' = IF taken THEN Bump(trueEdges, <<p.end, to>>) ELSE trueEdges
              /\ trueCalls' = IF taken /\ p.indirect THEN Bump(trueCalls, <<p.end, to>>) ELSE trueCalls
              /\ UNCHANGED <<strays, firsts>>
      BY <1>1, <1>3, <2>2, <2>5 DEF ObserveEntry
    <3>3. CASE p.fall_through_addr = to
      <4>1. UNCHANGED tables
        BY <3>1, <3>3, EnterStep DEF Records
      <4> QED
        BY <3>2, <3>3, <4>1 DEF FellThrough
    <3>4. CASE p.fall_through_addr # to
      <4>1. Records(v, to)
        BY <2>3, <3>1, <3>4 DEF Records
      <4>2. /\ <<p.end, to>> \in Edges /\ RecordEdge(v, <<p.end, to>>)
            /\ RecordsCall(v) => RecordIndirectCall(v, <<sb[v].pending, to>>)
            /\ ~RecordsCall(v) => UNCHANGED <<calls, missedCalls>>
        BY <3>1, <4>1, EnterStep
      <4>3. CASE Tier >= 2 /\ p.indirect
        <5>1. RecordsCall(v) /\ sb[v].pending = p.end
          BY <2>3, <3>1, <4>3 DEF RecordsCall
        <5>2. RecordIndirectCall(v, <<p.end, to>>)
          BY <4>2, <5>1
        <5> QED
          BY <3>2, <3>4, <4>2, <4>3, <5>2, Zenon DEF TookEdge
      <4>4. CASE ~(Tier >= 2 /\ p.indirect)
        <5>1. Tier >= 2 => ~RecordsCall(v)
          BY <3>1, <4>4 DEF RecordsCall
        <5>2. Tier >= 2 => ~p.indirect /\ UNCHANGED <<calls, missedCalls>>
          BY <4>2, <4>4, <5>1
        <5> QED
          BY <3>2, <3>4, <4>2, <5>2, Zenon DEF TookEdge
      <4> QED
        BY <4>3, <4>4
    <3> QED
      BY <3>3, <3>4
  <2> QED
    BY <2>4, <2>5
<1> QED
  BY <1>2, <1>3

(* When one vCPU's table changes, the merged tables change by the difference. *)
LEMMA MergeReplace ==
    ASSUME NEW old \in [Vcpus -> [Edges -> Nat]], NEW new \in [Vcpus -> [Edges -> Nat]],
           NEW v \in Vcpus, \A w \in Vcpus \ {v} : new[w] = old[w], NEW e \in Edges
    PROVE  /\ MergeAll(new)[e] \in Nat /\ MergeAll(old)[e] \in Nat
           /\ MergeAll(new)[e] + old[v][e] = MergeAll(old)[e] + new[v][e]
<1> DEFINE F == [w \in Vcpus |-> old[w][e]]
           G == [w \in Vcpus |-> new[w][e]]
<1>1. F \in [Vcpus -> Nat] /\ G \in [Vcpus -> Nat] /\ \A w \in Vcpus \ {v} : G[w] = F[w]
  OBVIOUS
<1>2. F[v] = old[v][e] /\ G[v] = new[v][e]
  OBVIOUS
<1>3. MergeAll(old)[e] = SumFunction(F) /\ MergeAll(new)[e] = SumFunction(G)
  BY MergeAllType
<1> HIDE DEF F, G
<1>4. /\ SumFunction(F) \in Nat /\ SumFunction(G) \in Nat
      /\ SumFunction(G) + F[v] = SumFunction(F) + G[v]
  BY <1>1, TotalReplace, FiniteAssumption
<1> QED
  BY <1>2, <1>3, <1>4

(* Counting in one vCPU's table is counting in the merged one. *)
LEMMA MergeBump ==
    ASSUME NEW ts \in [Vcpus -> [Edges -> Nat]], NEW v \in Vcpus, NEW e \in Edges
    PROVE  MergeAll([ts EXCEPT ![v] = Bump(@, e)]) = Bump(MergeAll(ts), e)
<1> DEFINE u == Bump(ts[v], e)
           bumped == [ts EXCEPT ![v] = u]
<1>1. /\ u \in [Edges -> Nat]
      /\ \A f \in Edges : u[f] = IF f = e THEN ts[v][f] + 1 ELSE ts[v][f]
  <2>1. ts[v] \in [Edges -> Nat]
    OBVIOUS
  <2> QED
    BY <2>1, FiniteEdges, BumpFacts
<1> HIDE DEF u
<1>2. /\ bumped \in [Vcpus -> [Edges -> Nat]] /\ bumped[v] = u
      /\ \A w \in Vcpus \ {v} : bumped[w] = ts[w]
  BY <1>1
<1> HIDE DEF bumped
<1>3. MergeAll(ts) \in [Edges -> Nat] /\ MergeAll(bumped) \in [Edges -> Nat]
  BY <1>2, MergeAllType
<1>4. ASSUME NEW f \in Edges
      PROVE  MergeAll(bumped)[f] = IF f = e THEN MergeAll(ts)[f] + 1 ELSE MergeAll(ts)[f]
  <2>1. /\ MergeAll(bumped)[f] \in Nat /\ MergeAll(ts)[f] \in Nat
        /\ MergeAll(bumped)[f] + ts[v][f] = MergeAll(ts)[f] + bumped[v][f]
    BY <1>2, MergeReplace
  <2>2. ts[v][f] \in Nat
    OBVIOUS
  <2>3. bumped[v][f] = IF f = e THEN ts[v][f] + 1 ELSE ts[v][f]
    BY <1>1, <1>2
  <2>4. CASE f = e
    BY <2>1, <2>2, <2>3, <2>4
  <2>5. CASE f # e
    BY <2>1, <2>2, <2>3, <2>5
  <2> QED
    BY <2>4, <2>5
<1>5. MergeAll(bumped) = Bump(MergeAll(ts), e)
  BY <1>3, <1>4 DEF Bump
<1> QED
  BY <1>5 DEF bumped, u

(* Nothing is counted at first. *)
LEMMA MergeEmpty == MergeAll([v \in Vcpus |-> EmptyTable(Edges)]) = [e \in Edges |-> 0]
<1> DEFINE z == [v \in Vcpus |-> 0]
           empty == [v \in Vcpus |-> EmptyTable(Edges)]
<1>1. \A e \in Edges : [v \in Vcpus |-> empty[v][e]] = z
  BY DEF EmptyTable
<1>2. SumFunction(z) = 0
  <2> DEFINE n == 0
  <2>1. n \in Nat /\ DOMAIN z = Vcpus /\ \A x \in Vcpus : z[x] = IF x = z THEN n ELSE 0
    OBVIOUS
  <2> HIDE DEF z
  <2>2. SumFunctionOnSet(z, Vcpus) = IF z \in Vcpus THEN n ELSE 0
    BY <2>1, FiniteAssumption, SumPoint
  <2> QED
    BY <2>1, <2>2 DEF SumFunction, n
<1> HIDE DEF z
<1> QED
  BY <1>1, <1>2 DEF MergeAll

(* The report's indirect calls are the merged maps, which no step changes after it. *)
ReportOfCalls == Exited => report[1].calls = MergeAll(calls)

(* One more call, in the vCPU's map or missed. *)
LEMMA RecordCallTotals ==
    ASSUME RelayOK, NEW v \in Vcpus, NEW e \in Edges, RecordIndirectCall(v, e), NEW c \in Edges
    PROVE  /\ MergeAll(calls)[c] \in Nat /\ missedCalls[c] \in Nat
           /\ MergeAll(calls')[c] + missedCalls'[c]
                = MergeAll(calls)[c] + missedCalls[c] + (IF c = e THEN 1 ELSE 0)
<1>1. calls \in [Vcpus -> [Edges -> Nat]] /\ missedCalls \in [Edges -> Nat]
  BY DEF RelayOK, TablesOK
<1>2. MergeAll(calls) \in [Edges -> Nat]
  BY <1>1, MergeAllType
<1>3. CASE <<v, "calls">> \in late
  <2>1. missedCalls' = Bump(missedCalls, e) /\ calls' = calls
    BY <1>3 DEF RecordIndirectCall
  <2>2. missedCalls'[c] = IF c = e THEN missedCalls[c] + 1 ELSE missedCalls[c]
    BY <1>1, <2>1, FiniteEdges, BumpFacts
  <2> QED
    BY <1>1, <1>2, <2>1, <2>2
<1>4. CASE <<v, "calls">> \notin late
  <2>1. calls' = [calls EXCEPT ![v] = Bump(@, e)] /\ missedCalls' = missedCalls
    BY <1>4 DEF RecordIndirectCall
  <2>2. MergeAll(calls') = Bump(MergeAll(calls), e)
    BY <1>1, <2>1, MergeBump
  <2>3. MergeAll(calls')[c] = IF c = e THEN MergeAll(calls)[c] + 1 ELSE MergeAll(calls)[c]
    BY <1>2, <2>2, FiniteEdges, BumpFacts
  <2> DEFINE n == MergeAll(calls')[c]
             m == MergeAll(calls)[c]
             k == missedCalls[c]
  <2>4. n = (IF c = e THEN m + 1 ELSE m) /\ m \in Nat /\ k \in Nat /\ missedCalls'[c] = k
    BY <1>1, <1>2, <2>1, <2>3
  <2> HIDE DEF n, m, k
  <2>5. n + k = m + k + (IF c = e THEN 1 ELSE 0)
    BY <2>4
  <2> QED
    BY <2>4, <2>5 DEF n, m, k
<1> QED
  BY <1>3, <1>4

LEMMA CallsInvariant == ASSUME NoBlockEndsAtZero PROVE Spec => [](CallsTotal /\ ReportOfCalls)
<1>1. Init => CallsTotal /\ ReportOfCalls
  <2> SUFFICES ASSUME Init PROVE CallsTotal /\ ~Exited
    BY DEF ReportOfCalls
  <2>1. /\ calls = [v \in Vcpus |-> EmptyTable(Edges)] /\ trueCalls = EmptyTable(Edges)
        /\ missedCalls = EmptyTable(Edges) /\ report = <<>>
    BY DEF Init
  <2>2. MergeAll(calls) = [e \in Edges |-> 0]
    BY <2>1, MergeEmpty
  <2> QED
    BY <2>1, <2>2 DEF EmptyTable, Exited, CallsTotal
<1>2. RelayOK /\ HistoryOK /\ Relayed /\ CallsTotal /\ ReportOfCalls /\ [Next]_vars
        => (CallsTotal /\ ReportOfCalls)'
  <2> SUFFICES ASSUME RelayOK, HistoryOK, Relayed, CallsTotal, ReportOfCalls, [Next]_vars
               PROVE  CallsTotal' /\ ReportOfCalls'
    OBVIOUS
  <2>1. ASSUME NEW v \in Vcpus, NEW b \in Tbs, EnterTb(v, b) PROVE CallsTotal' /\ ReportOfCalls'
    <3>1. ReportOfCalls'
      BY <2>1 DEF EnterTb, Running, ReportOfCalls, Exited
    <3>2. CASE FirstEntry(v, b.start) \/ FellThrough(v, b.start) \/ AfterAbort(v, b.start)
      <4>1. Tier >= 2 => UNCHANGED <<calls, missedCalls, trueCalls>>
        BY <3>2 DEF FirstEntry, FellThrough, AfterAbort, tables
      <4> QED
        BY <3>1, <4>1 DEF CallsTotal
    <3>3. CASE TookEdge(v, b.start)
      <4>1. PICK p \in known :
              /\ <<p.end, b.start>> \in Edges
              /\ Tier >= 2 => IF p.indirect THEN RecordIndirectCall(v, <<p.end, b.start>>)
                              ELSE UNCHANGED <<calls, missedCalls>>
              /\ trueCalls' = IF p.indirect THEN Bump(trueCalls, <<p.end, b.start>>) ELSE trueCalls
        BY <3>3 DEF TookEdge
      <4> DEFINE e == <<p.end, b.start>>
      <4> HIDE DEF e
      <4>2. CASE p.indirect
        <5> SUFFICES ASSUME Tier >= 2, NEW c \in Edges
                     PROVE  MergeAll(calls')[c] + missedCalls'[c] = trueCalls'[c]
          BY <3>1 DEF CallsTotal
        <5>1. e \in Edges /\ RecordIndirectCall(v, e) /\ trueCalls' = Bump(trueCalls, e)
          BY <4>1, <4>2 DEF e
        <5>2. trueCalls'[c] = IF c = e THEN trueCalls[c] + 1 ELSE trueCalls[c]
          BY <5>1, FiniteEdges, BumpFacts DEF HistoryOK
        <5>3. /\ MergeAll(calls)[c] \in Nat /\ missedCalls[c] \in Nat
              /\ MergeAll(calls')[c] + missedCalls'[c]
                   = MergeAll(calls)[c] + missedCalls[c] + (IF c = e THEN 1 ELSE 0)
          BY <5>1, RecordCallTotals
        <5>4. MergeAll(calls)[c] + missedCalls[c] = trueCalls[c]
          BY DEF CallsTotal
        <5> QED
          BY <5>2, <5>3, <5>4
      <4>3. CASE ~p.indirect
        <5>1. Tier >= 2 => UNCHANGED <<calls, missedCalls, trueCalls>>
          BY <4>1, <4>3
        <5> QED
          BY <3>1, <5>1 DEF CallsTotal
      <4> QED
        BY <4>2, <4>3
    <3> QED
      BY <2>1, <3>2, <3>3, EntryKinds
  <2>2. CASE PluginExit
    <3>1. UNCHANGED <<calls, missedCalls, trueCalls>> /\ report'[1].calls = MergeAll(calls)
      BY <2>2 DEF PluginExit, observed
    <3> QED
      BY <3>1 DEF CallsTotal, ReportOfCalls
  <2>3. CASE UNCHANGED <<calls, missedCalls, trueCalls, report>>
    BY <2>3 DEF CallsTotal, ReportOfCalls, Exited
  <2>4. Next => \/ UNCHANGED <<calls, missedCalls, trueCalls, report>>
                \/ PluginExit
                \/ \E v \in Vcpus, b \in Tbs : EnterTb(v, b)
    BY DEF Next, Translate, FinishTb, Abort, StoreSlot, plugin, tables, observed
  <2> QED
    BY <2>1, <2>2, <2>3, <2>4 DEF vars, plugin, tables, observed
<1> QED
  BY <1>1, <1>2, RelayInvariant, HistoryInvariant, RelayedInvariant, PTL DEF Spec

(***************************************************************************)
(* The indirect calls in the profile are exactly the transfers that left a *)
(* block through its indirect call, but for those of a vCPU without a map, *)
(* whatever the vCPUs interleave and however many blocks are abandoned     *)
(* half-way.                                                               *)
(***************************************************************************)
THEOREM IndirectCallsExact == ASSUME NoBlockEndsAtZero PROVE Spec => []CallsExact
<1>1. CallsTotal /\ ReportOfCalls => CallsExact
  BY DEF CallsTotal, ReportOfCalls, CallsExact
<1> QED
  BY <1>1, CallsInvariant, PTL

(* record_edge adds at most the edge to the total and, streaming, exactly it. *)
LEMMA RecordTotals ==
    ASSUME RelayOK, NEW v \in Vcpus, NEW e \in Edges, RecordEdge(v, e), NEW f \in Edges
    PROVE  LET one == IF f = e THEN 1 ELSE 0
           IN  /\ EdgeTotal(f) \in Nat /\ EdgeTotal(f)' \in Nat
               /\ EdgeTotal(f)' <= EdgeTotal(f) + one
               /\ config.streaming => EdgeTotal(f)' = EdgeTotal(f) + one
<1>1. /\ acc \in [Vcpus -> [Edges -> Nat]] /\ acc[v] \in [Edges -> Nat] /\ missed \in [Edges -> Nat]
      /\ written[f] \in Nat /\ lost[f] \in Nat /\ missed[f] \in Nat /\ acc[v][f] \in Nat
      /\ config.streaming \in BOOLEAN /\ config.top_n \in Nat
  BY ConfigFields DEF RelayOK, TablesOK
<1> DEFINE A == acc'
           m == MergeAll(acc)[f]
           out == written[f] + lost[f]
<1>2. m \in Nat /\ out \in Nat
  <2>1. MergeAll(acc) \in [Edges -> Nat]
    BY <1>1, MergeAllType
  <2> QED
    BY <1>1, <2>1
<1>3. /\ EdgeTotal(f) = out + missed[f] + m
      /\ EdgeTotal(f)' = written'[f] + lost'[f] + missed'[f] + MergeAll(A)[f]
  BY DEF EdgeTotal
<1>4. CASE Missed(e)
  <2>1. missed'[f] = IF f = e THEN missed[f] + 1 ELSE missed[f]
    BY <1>1, <1>4, FiniteEdges, BumpFacts DEF Missed
  <2>2. written'[f] + lost'[f] = out /\ MergeAll(A)[f] = m
    BY <1>4 DEF Missed
  <2> HIDE DEF A, m, out
  <2> QED
    BY <1>1, <1>2, <1>3, <2>1, <2>2
<1>5. ASSUME NEW t \in [Edges -> Nat],
             t \in AccRecord(acc[v], e, config.streaming, config.top_n),
             Kept(v, t) \/ Drained(v, t)
      PROVE  LET one == IF f = e THEN 1 ELSE 0
             IN  /\ EdgeTotal(f) \in Nat /\ EdgeTotal(f)' \in Nat
                 /\ EdgeTotal(f)' <= EdgeTotal(f) + one
                 /\ config.streaming => EdgeTotal(f)' = EdgeTotal(f) + one
  <2>1. /\ t[f] \in Nat
        /\ t[f] = 0 \/ t[f] = Bump(acc[v], e)[f]
        /\ config.streaming => t = Bump(acc[v], e)
    <3>1. /\ \A g \in Edges : t[g] = 0 \/ t[g] = Bump(acc[v], e)[g]
          /\ config.streaming => t = Bump(acc[v], e)
      BY <1>1, <1>5, FiniteEdges, RecordFacts
    <3> QED
      BY <3>1
  <2>2. Bump(acc[v], e)[f] = IF f = e THEN acc[v][f] + 1 ELSE acc[v][f]
    BY <1>1, FiniteEdges, BumpFacts
  <2>3. missed'[f] = missed[f]
    BY <1>5 DEF Kept, Drained
  <2>4. /\ MergeAll(A)[f] \in Nat
        /\ MergeAll(A)[f] + acc[v][f] = m + A[v][f]
    <3>1. A \in [Vcpus -> [Edges -> Nat]] /\ \A x \in Vcpus \ {v} : A[x] = acc[x]
      BY <1>1, <1>5, EmptyIsTable DEF Kept, Drained
    <3> HIDE DEF A
    <3> QED
      BY <1>1, <3>1, MergeReplace
  <2>5. \/ A[v][f] = 0 /\ written'[f] + lost'[f] = out + t[f]
        \/ A[v][f] = t[f] /\ written'[f] + lost'[f] = out
    BY <1>1, <1>5 DEF Kept, Drained, Delivered, EmptyTable
  <2> DEFINE newOut == written'[f] + lost'[f]
  <2>6. EdgeTotal(f)' = newOut + missed[f] + MergeAll(A)[f]
    BY <1>3, <2>3
  <2>7. \/ A[v][f] = 0 /\ newOut = out + t[f]
        \/ A[v][f] = t[f] /\ newOut = out
    BY <2>5
  <2> DEFINE x == acc[v][f]
             y == t[f]
             z == missed[f]
             M == MergeAll(A)[f]
             one == IF f = e THEN 1 ELSE 0
             total == EdgeTotal(f)
             after == EdgeTotal(f)'
  <2>8. /\ x \in Nat /\ y \in Nat /\ z \in Nat /\ M \in Nat /\ m \in Nat /\ out \in Nat /\ one \in {0, 1}
        /\ y = 0 \/ y = x + one
        /\ config.streaming => y = x + one
        /\ \/ M + x = m /\ newOut = out + y
           \/ M + x = m + y /\ newOut = out
        /\ total = out + z + m /\ after = newOut + z + M
    <3>1. y = 0 \/ y = x + one
      BY <1>1, <2>1, <2>2
    <3>2. config.streaming => y = x + one
      BY <1>1, <2>1, <2>2
    <3>3. one \in {0, 1}
      OBVIOUS
    <3> HIDE DEF one
    <3>4. \/ M + x = m /\ newOut = out + y
          \/ M + x = m + y /\ newOut = out
      <4>1. M + x = m + A[v][f]
        BY <2>4
      <4> HIDE DEF A, m, out, newOut, M, x
      <4> QED
        BY <1>2, <2>7, <4>1
    <3>5. total = out + z + m /\ after = newOut + z + M
      BY <1>3, <2>6
    <3> QED
      BY <1>1, <1>2, <2>1, <2>4, <3>1, <3>2, <3>3, <3>4, <3>5
  <2> HIDE DEF A, m, out, newOut, x, y, z, M, one, total, after
  <2>9. total \in Nat /\ after \in Nat /\ after <= total + one /\ (config.streaming => after = total + one)
    BY <2>8
  <2> QED
    BY <2>9 DEF total, after, one
<1> QED
  BY <1>4, <1>5, RecordStep

LEMMA EdgesInvariant == ASSUME NoBlockEndsAtZero PROVE Spec => [](EdgesTotal /\ EdgesExact)
<1>0. \A e \in Edges : e[2] \in Starts
  BY DEF Edges
<1>1. Init => EdgesTotal /\ EdgesExact
  <2> SUFFICES ASSUME Init PROVE EdgesTotal
    BY DEF Init, EdgesExact, Exited
  <2>1. /\ acc = [v \in Vcpus |-> EmptyTable(Edges)] /\ written = EmptyTable(Edges)
        /\ lost = EmptyTable(Edges) /\ missed = EmptyTable(Edges)
        /\ trueEdges = EmptyTable(Edges) /\ strays = EmptyTable(Starts)
    BY DEF Init
  <2>2. MergeAll(acc) = [e \in Edges |-> 0]
    BY <2>1, MergeEmpty
  <2>3. \A e \in Edges : EdgeTotal(e) = 0 /\ trueEdges[e] = 0 /\ strays[e[2]] = 0
    BY <1>0, <2>1, <2>2 DEF EdgeTotal, EmptyTable
  <2> QED
    BY <2>3 DEF EdgesTotal
<1>2. /\ RelayOK /\ HistoryOK /\ Relayed /\ EdgesTotal /\ EdgesExact /\ [Next]_vars
      => (EdgesTotal /\ EdgesExact)'
  <2> SUFFICES ASSUME RelayOK, HistoryOK, Relayed, EdgesTotal, EdgesExact, [Next]_vars
               PROVE  EdgesTotal' /\ EdgesExact'
    OBVIOUS
  <2>1. ASSUME NEW v \in Vcpus, NEW b \in Tbs, EnterTb(v, b) PROVE EdgesTotal' /\ EdgesExact'
    <3>1. Running /\ UNCHANGED <<config, report>>
      BY <2>1 DEF EnterTb
    <3>2. EdgesExact'
      BY <3>1 DEF Running, EdgesExact, Exited
    <3>3. CASE FirstEntry(v, b.start) \/ FellThrough(v, b.start)
      <4>1. UNCHANGED <<acc, written, lost, missed, trueEdges, strays>>
        BY <3>3 DEF FirstEntry, FellThrough, tables
      <4> QED
        BY <3>1, <3>2, <4>1 DEF EdgesTotal, EdgeTotal, Running
    <3>4. CASE AfterAbort(v, b.start)
      <4>1. strays' = Bump(strays, b.start) /\ UNCHANGED trueEdges /\ b.start \in Starts
        BY <3>4, BlockFields DEF AfterAbort
      <4>2. ASSUME NEW f \in Edges
            PROVE  /\ EdgeTotal(f)' <= trueEdges'[f] + strays'[f[2]]
                   /\ config.streaming => trueEdges'[f] <= EdgeTotal(f)'
        <5>1. strays'[f[2]] = IF f[2] = b.start THEN strays[f[2]] + 1 ELSE strays[f[2]]
          BY <1>0, <4>1 DEF Bump, HistoryOK
        <5>2. trueEdges[f] \in Nat /\ strays[f[2]] \in Nat /\ trueEdges'[f] = trueEdges[f]
          BY <1>0, <4>1 DEF HistoryOK
        <5>3. /\ EdgeTotal(f) <= trueEdges[f] + strays[f[2]]
              /\ config.streaming => trueEdges[f] <= EdgeTotal(f)
          BY <3>1 DEF EdgesTotal
        <5>4. CASE UNCHANGED tables
          <6>1. EdgeTotal(f)' = EdgeTotal(f) /\ EdgeTotal(f) \in Nat
            <7>1. MergeAll(acc) \in [Edges -> Nat]
              BY MergeAllType DEF RelayOK, TablesOK
            <7> QED
              BY <5>4, <7>1 DEF tables, EdgeTotal, RelayOK, TablesOK
          <6> QED
            BY <5>1, <5>2, <5>3, <6>1
        <5>5. ASSUME NEW e \in Edges, e[2] = b.start, RecordEdge(v, e)
              PROVE  /\ EdgeTotal(f)' <= trueEdges'[f] + strays'[f[2]]
                     /\ config.streaming => trueEdges'[f] <= EdgeTotal(f)'
          <6>1. LET one == IF f = e THEN 1 ELSE 0
                IN  /\ EdgeTotal(f) \in Nat /\ EdgeTotal(f)' \in Nat
                    /\ EdgeTotal(f)' <= EdgeTotal(f) + one
                    /\ config.streaming => EdgeTotal(f)' = EdgeTotal(f) + one
            BY <5>5, RecordTotals
          <6>2. f = e => strays'[f[2]] = strays[f[2]] + 1
            BY <5>1, <5>5
          <6>3. strays'[f[2]] \in Nat /\ strays'[f[2]] >= strays[f[2]]
            BY <5>1, <5>2
          <6> QED
            BY <5>2, <5>3, <6>1, <6>2, <6>3
        <5> QED
          BY <3>4, <5>4, <5>5 DEF AfterAbort
      <4>3. EdgesTotal'
        BY <3>1, <4>2 DEF EdgesTotal
      <4> QED
        BY <3>2, <4>3
    <3>5. CASE TookEdge(v, b.start)
      <4>1. PICK e \in Edges : RecordEdge(v, e) /\ trueEdges' = Bump(trueEdges, e) /\ UNCHANGED strays
        BY <3>5 DEF TookEdge
      <4>2. ASSUME NEW f \in Edges
            PROVE  /\ EdgeTotal(f)' <= trueEdges'[f] + strays'[f[2]]
                   /\ config.streaming => trueEdges'[f] <= EdgeTotal(f)'
        <5>1. trueEdges'[f] = IF f = e THEN trueEdges[f] + 1 ELSE trueEdges[f]
          BY <4>1, FiniteEdges, BumpFacts DEF HistoryOK
        <5>2. trueEdges[f] \in Nat /\ strays[f[2]] \in Nat /\ strays'[f[2]] = strays[f[2]]
          BY <1>0, <4>1 DEF HistoryOK
        <5>3. /\ EdgeTotal(f) <= trueEdges[f] + strays[f[2]]
              /\ config.streaming => trueEdges[f] <= EdgeTotal(f)
          BY <3>1 DEF EdgesTotal
        <5>4. LET one == IF f = e THEN 1 ELSE 0
              IN  /\ EdgeTotal(f) \in Nat /\ EdgeTotal(f)' \in Nat
                  /\ EdgeTotal(f)' <= EdgeTotal(f) + one
                  /\ config.streaming => EdgeTotal(f)' = EdgeTotal(f) + one
          BY <4>1, RecordTotals
        <5> QED
          BY <5>1, <5>2, <5>3, <5>4
      <4>3. EdgesTotal'
        BY <3>1, <4>2 DEF EdgesTotal
      <4> QED
        BY <3>2, <4>3
    <3> QED
      BY <2>1, <3>3, <3>4, <3>5, EntryKinds
  <2>2. CASE PluginExit
    <3>1. /\ Running /\ ~Running' /\ UNCHANGED <<config, missed, trueEdges, strays>>
          /\ \E K \in SUBSET Keys(MergeAll(acc)) : Deliver(MergeAll(acc), K)
      BY <2>2 DEF PluginExit, observed, Running
    <3>2. MergeAll(acc) \in [Edges -> Nat]
      BY MergeAllType DEF RelayOK, TablesOK
    <3>3. Delivered(MergeAll(acc))
      BY <3>1, <3>2, DeliverFacts DEF RelayOK
    <3>4. ASSUME NEW e \in Edges PROVE Seen(e)' = EdgeTotal(e)
      <4> DEFINE m == MergeAll(acc)[e]
      <4>1. /\ m \in Nat /\ missed[e] \in Nat /\ written[e] \in Nat /\ lost[e] \in Nat
            /\ written'[e] \in Nat /\ lost'[e] \in Nat
        BY <3>2, <3>3 DEF Delivered, RelayOK, TablesOK
      <4>2. written'[e] + lost'[e] = written[e] + lost[e] + m
        BY <3>3 DEF Delivered
      <4>3. Seen(e)' = written'[e] + lost'[e] + missed[e] /\ EdgeTotal(e) = written[e] + lost[e] + missed[e] + m
        BY <3>1 DEF Seen, EdgeTotal
      <4> HIDE DEF m
      <4> QED
        BY <4>1, <4>2, <4>3
    <3>5. EdgesExact'
      BY <3>1, <3>4 DEF EdgesTotal, EdgesExact
    <3> QED
      BY <3>1, <3>5 DEF EdgesTotal
  <2>3. CASE UNCHANGED <<config, acc, written, lost, missed, trueEdges, strays, report>>
    BY <2>3 DEF EdgesTotal, EdgeTotal, EdgesExact, Seen, Exited, Running
  <2>4. Next => \/ UNCHANGED <<config, acc, written, lost, missed, trueEdges, strays, report>>
                \/ PluginExit
                \/ \E v \in Vcpus, b \in Tbs : EnterTb(v, b)
    BY DEF Next, Translate, FinishTb, Abort, StoreSlot, plugin, tables, observed
  <2> QED
    BY <2>1, <2>2, <2>3, <2>4 DEF vars, plugin, tables, observed
<1> QED
  BY <1>1, <1>2, RelayInvariant, HistoryInvariant, RelayedInvariant, PTL DEF Spec

(***************************************************************************)
(* The branch edges: none is seen more often than it was taken, but for    *)
(* one edge at most for each entry from an abandoned block; in streaming   *)
(* mode none is missing from the profile, but for the writes that failed   *)
(* and the entries of a vCPU without an accumulator, however the tables    *)
(* are flushed.                                                            *)
(***************************************************************************)
THEOREM BranchEdgesExact == ASSUME NoBlockEndsAtZero PROVE Spec => []EdgesExact
  BY EdgesInvariant, PTL

(* A delivered batch adds its entries to those written and lost. *)
LEMMA DeliveredEntries ==
    ASSUME RelayOK, NEW t \in [Edges -> Nat], Delivered(t), NEW a \in Starts
    PROVE  EntriesInto(written', a) + EntriesInto(lost', a)
             = EntriesInto(written, a) + EntriesInto(lost, a) + EntriesInto(t, a)
<1> DEFINE w == written'
           l == lost'
           out == Merge(written, lost)
<1>1. /\ w \in [Edges -> Nat] /\ l \in [Edges -> Nat]
      /\ written \in [Edges -> Nat] /\ lost \in [Edges -> Nat]
  BY DEF Delivered, RelayOK, TablesOK
<1>2. \A f \in Edges : w[f] + l[f] = written[f] + lost[f] + t[f]
  BY DEF Delivered
<1>3. EntriesInto(written', a) = EntriesInto(w, a) /\ EntriesInto(lost', a) = EntriesInto(l, a)
  OBVIOUS
<1> HIDE DEF w, l
<1>4. out \in [Edges -> Nat] /\ \A f \in Edges : out[f] = written[f] + lost[f]
  BY <1>1 DEF Merge
<1>5. EntriesInto(out, a) = EntriesInto(written, a) + EntriesInto(lost, a)
  BY <1>1, FiniteEdges, EntriesFacts
<1> HIDE DEF out
<1>6. Merge(w, l) = Merge(out, t)
  BY <1>1, <1>2, <1>4 DEF Merge
<1>7. /\ EntriesInto(Merge(w, l), a) = EntriesInto(w, a) + EntriesInto(l, a)
      /\ EntriesInto(Merge(out, t), a) = EntriesInto(out, a) + EntriesInto(t, a)
  BY <1>1, <1>4, FiniteEdges, EntriesFacts
<1> QED
  BY <1>3, <1>5, <1>6, <1>7

(* The edges drained so far are counted in flushed_branch_entries. *)
LEMMA FlushedInvariant == Spec => []FlushedCounted
<1>1. Init => FlushedCounted
  <2> SUFFICES ASSUME Init, NEW a \in Starts
               PROVE  flushed[a] = EntriesInto(written, a) + EntriesInto(lost, a)
    BY DEF FlushedCounted
  <2>1. flushed[a] = 0 /\ written = EmptyTable(Edges) /\ lost = EmptyTable(Edges)
    BY DEF Init, EmptyTable
  <2>2. EntriesInto(EmptyTable(Edges), a) = 0
    BY FiniteEdges, EmptyIsTable, EntriesFacts
  <2> QED
    BY <2>1, <2>2
<1>2. RelayOK /\ FlushedCounted /\ [Next]_vars => FlushedCounted'
  <2> SUFFICES ASSUME RelayOK, FlushedCounted, [Next]_vars PROVE FlushedCounted'
    OBVIOUS
  <2>1. ASSUME NEW v \in Vcpus, NEW b \in Tbs, EnterTb(v, b) PROVE FlushedCounted'
    <3>1. Running
      BY <2>1 DEF EnterTb
    <3>2. CASE UNCHANGED <<flushed, written, lost>>
      BY <3>1, <3>2 DEF FlushedCounted
    <3>3. ASSUME NEW t \in [Edges -> Nat], Drained(v, t) PROVE FlushedCounted'
      <4> SUFFICES ASSUME NEW a \in Starts
                   PROVE  flushed'[a] = EntriesInto(written', a) + EntriesInto(lost', a)
        BY DEF FlushedCounted
      <4>1. flushed'[a] = flushed[a] + EntriesInto(t, a)
        BY <3>3 DEF Drained
      <4>2. flushed[a] = EntriesInto(written, a) + EntriesInto(lost, a)
        BY <3>1 DEF FlushedCounted
      <4>3. EntriesInto(written', a) + EntriesInto(lost', a)
              = EntriesInto(written, a) + EntriesInto(lost, a) + EntriesInto(t, a)
        BY <3>3, DeliveredEntries DEF Drained
      <4> QED
        BY <4>1, <4>2, <4>3
    <3>4. CASE ~Records(v, b.start)
      BY <2>1, <3>2, <3>4, EnterStep DEF tables
    <3>5. CASE Records(v, b.start)
      <4>1. PICK e \in Edges : RecordEdge(v, e)
        BY <2>1, <3>5, EnterStep
      <4>2. \/ Missed(e)
            \/ \E t \in [Edges -> Nat] : Kept(v, t) \/ Drained(v, t)
        BY <4>1, RecordStep
      <4> QED
        BY <3>2, <3>3, <4>2 DEF Missed, Kept
    <3> QED
      BY <3>4, <3>5
  <2>2. CASE PluginExit
    BY <2>2 DEF PluginExit, Running, FlushedCounted
  <2>3. CASE UNCHANGED <<flushed, written, lost, report>>
    BY <2>3 DEF FlushedCounted, Running
  <2>4. Next => \/ UNCHANGED <<flushed, written, lost, report>>
                \/ PluginExit
                \/ \E v \in Vcpus, b \in Tbs : EnterTb(v, b)
    BY DEF Next, Translate, FinishTb, Abort, StoreSlot, plugin, tables
  <2> QED
    BY <2>1, <2>2, <2>3, <2>4 DEF vars, plugin, tables
<1> QED
  BY <1>1, <1>2, RelayInvariant, PTL DEF Spec

(* One more entry of b is one more entry at its start. *)
LEMMA EntryCounted ==
    ASSUME RelayOK, NEW b \in Tbs, exec' = [exec EXCEPT ![b] = @ + 1], NEW a \in Starts
    PROVE  /\ SumFunctionOnSet(exec, BlocksAt(a)) \in Nat
           /\ SumFunctionOnSet(exec', BlocksAt(a))
                = SumFunctionOnSet(exec, BlocksAt(a)) + (IF b.start = a THEN 1 ELSE 0)
<1> DEFINE S == BlocksAt(a)
           before == exec
           after == exec'
           n == 1
<1>0. IsFiniteSet(S) /\ n \in Nat
  BY FiniteAssumption, FS_Subset DEF BlocksAt
<1>1. \A x \in S : before[x] \in Nat /\ after[x] = IF x = b THEN before[x] + n ELSE before[x]
  BY DEF BlocksAt, RelayOK, TablesOK
<1>2. b \in S <=> b.start = a
  BY DEF BlocksAt
<1>3. SumFunctionOnSet(exec', BlocksAt(a)) = SumFunctionOnSet(after, S)
  OBVIOUS
<1> HIDE DEF S, before, after, n
<1>4. SumFunctionOnSet(before, S) \in Nat
  BY <1>0, <1>1, SumIsNat
<1>5. SumFunctionOnSet(after, S) = SumFunctionOnSet(before, S) + (IF b \in S THEN n ELSE 0)
  BY <1>0, <1>1, SumBump, ZenonT(30)
<1> QED
  BY <1>2, <1>3, <1>4, <1>5 DEF S, before, n

LEMMA EntriesInvariant == ASSUME NoBlockEndsAtZero PROVE Spec => [](EntriesTotal /\ OnlyKnownRuns)
<1>1. Init => EntriesTotal /\ OnlyKnownRuns
  <2> SUFFICES ASSUME Init PROVE EntriesTotal /\ OnlyKnownRuns
    OBVIOUS
  <2>1. /\ exec = [b \in Tbs |-> 0] /\ trueFt = EmptyTable(Starts) /\ firsts = EmptyTable(Starts)
        /\ trueEdges = EmptyTable(Edges) /\ strays = EmptyTable(Starts)
    BY DEF Init
  <2>2. OnlyKnownRuns
    BY <2>1 DEF OnlyKnownRuns, EmptyTable
  <2>3. ASSUME NEW a \in Starts PROVE SumFunctionOnSet(exec, BlocksAt(a)) = 0
    <3> DEFINE S == BlocksAt(a)
               n == 0
    <3>1. IsFiniteSet(S) /\ n \in Nat /\ \A x \in S : exec[x] = IF x = S THEN n ELSE 0
      BY <2>1, FiniteAssumption, FS_Subset DEF BlocksAt
    <3> HIDE DEF S
    <3>2. SumFunctionOnSet(exec, S) = IF S \in S THEN n ELSE 0
      BY <3>1, SumPoint
    <3> QED
      BY <3>2 DEF S
  <2>4. ASSUME NEW a \in Starts PROVE EntriesInto(trueEdges, a) = 0
    BY <2>1, FiniteEdges, EmptyIsTable, EntriesFacts
  <2>5. \A a \in Starts : trueFt[a] = 0 /\ firsts[a] = 0 /\ strays[a] = 0
    BY <2>1 DEF EmptyTable
  <2> QED
    BY <2>2, <2>3, <2>4, <2>5 DEF EntriesTotal, Accounted
<1>2. /\ RelayOK /\ HistoryOK /\ Relayed /\ EntriesTotal /\ OnlyKnownRuns /\ [Next]_vars
      => (EntriesTotal /\ OnlyKnownRuns)'
  <2> SUFFICES ASSUME RelayOK, HistoryOK, Relayed, EntriesTotal, OnlyKnownRuns, [Next]_vars
               PROVE  EntriesTotal' /\ OnlyKnownRuns'
    OBVIOUS
  <2>1. ASSUME NEW v \in Vcpus, NEW b \in Tbs, EnterTb(v, b) PROVE EntriesTotal' /\ OnlyKnownRuns'
    <3>1. UNCHANGED known /\ b \in known /\ exec' = [exec EXCEPT ![b] = @ + 1]
      BY <2>1 DEF EnterTb
    <3>2. \A c \in Tbs : exec'[c] > 0 => c \in known
      BY <3>1 DEF OnlyKnownRuns, RelayOK, TablesOK
    <3>3. b.start \in Starts
      BY BlockFields
    <3>4. /\ \A a \in Starts : Bump(trueFt, b.start)[a] = IF a = b.start THEN trueFt[a] + 1 ELSE trueFt[a]
          /\ \A a \in Starts : Bump(firsts, b.start)[a] = IF a = b.start THEN firsts[a] + 1 ELSE firsts[a]
          /\ \A a \in Starts : Bump(strays, b.start)[a] = IF a = b.start THEN strays[a] + 1 ELSE strays[a]
      BY <3>3 DEF Bump, HistoryOK
    <3>5. ASSUME NEW a \in Starts
          PROVE  /\ SumFunctionOnSet(exec, BlocksAt(a)) \in Nat
                 /\ SumFunctionOnSet(exec', BlocksAt(a))
                      = SumFunctionOnSet(exec, BlocksAt(a)) + (IF b.start = a THEN 1 ELSE 0)
      BY <3>1, EntryCounted
    <3>6. ASSUME NEW a \in Starts
          PROVE  /\ EntriesInto(trueEdges, a) \in Nat /\ trueFt[a] \in Nat /\ firsts[a] \in Nat /\ strays[a] \in Nat
                 /\ \A e \in Edges : EntriesInto(Bump(trueEdges, e), a)
                                        = EntriesInto(trueEdges, a) + (IF e[2] = a THEN 1 ELSE 0)
      BY FiniteEdges, EntriesFacts DEF HistoryOK
    <3>7. ASSUME \A a \in Starts : Accounted(a)' = Accounted(a) + (IF b.start = a THEN 1 ELSE 0)
           PROVE  EntriesTotal'
      BY <3>1, <3>5, <3>7 DEF EntriesTotal, Accounted
    <3>8. CASE FirstEntry(v, b.start)
      <4>1. firsts' = Bump(firsts, b.start) /\ UNCHANGED <<trueFt, trueEdges, strays>>
        BY <3>8 DEF FirstEntry
      <4>2. ASSUME NEW a \in Starts PROVE Accounted(a)' = Accounted(a) + (IF b.start = a THEN 1 ELSE 0)
        BY <3>4, <3>6, <4>1 DEF Accounted
      <4>3. EntriesTotal'
        BY <3>7, <4>2
      <4> QED
        BY <3>1, <3>2, <4>1, <4>3 DEF OnlyKnownRuns
    <3>9. CASE FellThrough(v, b.start)
      <4>1. trueFt' = Bump(trueFt, b.start) /\ UNCHANGED <<firsts, trueEdges, strays>>
        BY <3>9 DEF FellThrough
      <4>2. ASSUME NEW a \in Starts PROVE Accounted(a)' = Accounted(a) + (IF b.start = a THEN 1 ELSE 0)
        BY <3>4, <3>6, <4>1 DEF Accounted
      <4>3. EntriesTotal'
        BY <3>7, <4>2
      <4>4. \A a \in Starts : trueFt'[a] > 0 => \E p \in known : p.fall_through_addr = a
        BY <3>4, <3>9, <4>1 DEF FellThrough, OnlyKnownRuns
      <4> QED
        BY <3>1, <3>2, <4>3, <4>4 DEF OnlyKnownRuns
    <3>10. CASE AfterAbort(v, b.start)
      <4>1. strays' = Bump(strays, b.start) /\ UNCHANGED <<firsts, trueFt, trueEdges>>
        BY <3>10 DEF AfterAbort
      <4>2. ASSUME NEW a \in Starts PROVE Accounted(a)' = Accounted(a) + (IF b.start = a THEN 1 ELSE 0)
        BY <3>4, <3>6, <4>1 DEF Accounted
      <4>3. EntriesTotal'
        BY <3>7, <4>2
      <4> QED
        BY <3>1, <3>2, <4>1, <4>3 DEF OnlyKnownRuns
    <3>11. CASE TookEdge(v, b.start)
      <4>1. PICK e \in Edges : /\ trueEdges' = Bump(trueEdges, e) /\ UNCHANGED <<firsts, trueFt, strays>>
                               /\ e[2] = b.start
        BY <3>11 DEF TookEdge
      <4>2. ASSUME NEW a \in Starts PROVE Accounted(a)' = Accounted(a) + (IF b.start = a THEN 1 ELSE 0)
        BY <3>6, <4>1 DEF Accounted
      <4>3. EntriesTotal'
        BY <3>7, <4>2
      <4> QED
        BY <3>1, <3>2, <4>1, <4>3 DEF OnlyKnownRuns
    <3> QED
      BY <2>1, <3>8, <3>9, <3>10, <3>11, EntryKinds
  <2>2. CASE UNCHANGED <<exec, trueFt, firsts, trueEdges, strays>> /\ known \subseteq known'
    BY <2>2 DEF EntriesTotal, Accounted, OnlyKnownRuns
  <2>3. Next => \/ UNCHANGED <<exec, trueFt, firsts, trueEdges, strays>> /\ known \subseteq known'
                \/ \E v \in Vcpus, b \in Tbs : EnterTb(v, b)
    BY DEF Next, Translate, FinishTb, Abort, StoreSlot, PluginExit, plugin, observed
  <2> QED
    BY <2>1, <2>2, <2>3 DEF vars, plugin, observed
<1> QED
  BY <1>1, <1>2, RelayInvariant, HistoryInvariant, RelayedInvariant, PTL DEF Spec

(***************************************************************************)
(* What compute_fall_throughs works with at exit, in streaming mode: every *)
(* edge taken and not missed is counted once, flushed or not, written or   *)
(* not, so with the missed ones its branch count is at least that of the   *)
(* edges taken, and exactly that where no abandoned block led.             *)
(***************************************************************************)
BranchCount(a) == flushed[a] + EntriesInto(MergeAll(acc), a)

LEMMA BranchesCounted ==
    ASSUME RelayOK, HistoryOK, EdgesTotal, FlushedCounted, Running, config.streaming,
           NEW a \in Starts
    PROVE  LET T == EntriesInto(trueEdges, a)
               M == EntriesInto(missed, a)
               B == BranchCount(a)
           IN  /\ T \in Nat /\ M \in Nat /\ B \in Nat
               /\ T <= B + M
               /\ strays[a] = 0 => T = B + M
<1> DEFINE edges == MergeAll(acc)
           out == Merge(written, lost)
           drained == Merge(out, edges)
           all == Merge(drained, missed)
           S == {e \in Edges : e[2] = a}
<1>1. /\ edges \in [Edges -> Nat] /\ written \in [Edges -> Nat] /\ lost \in [Edges -> Nat]
      /\ missed \in [Edges -> Nat] /\ trueEdges \in [Edges -> Nat]
  BY MergeAllType DEF RelayOK, TablesOK, HistoryOK
<1>2. \A e \in Edges : EdgeTotal(e) = written[e] + lost[e] + missed[e] + edges[e]
  BY DEF EdgeTotal
<1>3. BranchCount(a) = EntriesInto(written, a) + EntriesInto(lost, a) + EntriesInto(edges, a)
  BY DEF BranchCount, FlushedCounted
<1> HIDE DEF edges
<1>4. out \in [Edges -> Nat] /\ \A e \in Edges : out[e] = written[e] + lost[e]
  BY <1>1 DEF Merge
<1>5. EntriesInto(out, a) = EntriesInto(written, a) + EntriesInto(lost, a)
  BY <1>1, FiniteEdges, EntriesFacts
<1> HIDE DEF out
<1>6. drained \in [Edges -> Nat] /\ \A e \in Edges : drained[e] = out[e] + edges[e]
  BY <1>1, <1>4 DEF Merge
<1>7. EntriesInto(drained, a) = EntriesInto(out, a) + EntriesInto(edges, a)
  BY <1>1, <1>4, FiniteEdges, EntriesFacts
<1> HIDE DEF drained
<1>8. all \in [Edges -> Nat] /\ \A e \in Edges : all[e] = drained[e] + missed[e]
  BY <1>1, <1>6 DEF Merge
<1>9. EntriesInto(all, a) = EntriesInto(drained, a) + EntriesInto(missed, a)
  BY <1>1, <1>6, FiniteEdges, EntriesFacts
<1> HIDE DEF all
<1>10. /\ EntriesInto(trueEdges, a) \in Nat /\ EntriesInto(missed, a) \in Nat
       /\ EntriesInto(drained, a) \in Nat /\ EntriesInto(all, a) \in Nat
  BY <1>1, <1>6, <1>8, FiniteEdges, EntriesFacts
<1>11. ASSUME NEW e \in Edges PROVE all[e] = EdgeTotal(e)
  <2>1. /\ written[e] \in Nat /\ lost[e] \in Nat /\ edges[e] \in Nat /\ missed[e] \in Nat
        /\ all[e] = written[e] + lost[e] + edges[e] + missed[e]
    BY <1>1, <1>4, <1>6, <1>8
  <2> QED
    BY <1>2, <2>1
<1>12. IsFiniteSet(S) /\ S \subseteq Edges /\ \A e \in S : strays[e[2]] = strays[a]
  BY FiniteEdges, FS_Subset
<1>13. EntriesInto(trueEdges, a) = SumFunctionOnSet(trueEdges, S) /\ EntriesInto(all, a) = SumFunctionOnSet(all, S)
  BY <1>1, <1>8 DEF EntriesInto
<1> HIDE DEF S
<1>14. \A e \in S : trueEdges[e] \in Nat /\ all[e] \in Nat /\ trueEdges[e] <= all[e]
  BY <1>1, <1>8, <1>11, <1>12 DEF EdgesTotal
<1>15. EntriesInto(trueEdges, a) <= EntriesInto(all, a)
  BY <1>12, <1>13, <1>14, SumMonotonic
<1>16. ASSUME strays[a] = 0 PROVE EntriesInto(trueEdges, a) = EntriesInto(all, a)
  <2>1. \A e \in S : trueEdges[e] \in Nat /\ all[e] = trueEdges[e]
    <3>1. \A e \in S : all[e] <= trueEdges[e] + 0
      BY <1>11, <1>12, <1>16 DEF EdgesTotal
    <3> QED
      BY <1>14, <3>1
  <2>2. SumFunctionOnSet(all, S) = SumFunctionOnSet(trueEdges, S)
    BY <1>12, <2>1, SumSame
  <2> QED
    BY <1>13, <2>2
<1>17. BranchCount(a) = EntriesInto(drained, a)
  BY <1>3, <1>5, <1>7
<1> QED
  BY <1>9, <1>10, <1>15, <1>16, <1>17

(* The fall-throughs of a block that is alone at its start. *)
LEMMA AloneExact ==
    ASSUME RelayOK, HistoryOK, EdgesTotal, FlushedCounted, EntriesTotal, OnlyKnownRuns,
           Running, config.streaming,
           NEW b \in known, OnlyBlockAt(b), trueFt[b.start] > 0, strays[b.start] = 0
    PROVE  LET ft == FallThroughs(MergeAll(acc))
           IN  b \in DOMAIN ft /\ ft[b] = trueFt[b.start] + firsts[b.start] + EntriesInto(missed, b.start)
<1> DEFINE a == b.start
           S == BlocksAt(b.start)
           T == EntriesInto(trueEdges, a)
           M == EntriesInto(missed, a)
           B == BranchCount(a)
           n == exec[b]
           edges == MergeAll(acc)
<1>1. b \in Tbs /\ a \in Starts /\ b \in S
  BY BlockFields DEF RelayOK, TablesOK, BlocksAt
<1>2. trueFt[a] \in Nat /\ firsts[a] \in Nat /\ exec \in [Tbs -> Nat] /\ n \in Nat
  BY <1>1 DEF HistoryOK, RelayOK, TablesOK
<1>3. T \in Nat /\ M \in Nat /\ B \in Nat /\ T = B + M /\ flushed[a] + EntriesInto(edges, a) = B
  BY <1>1, BranchesCounted DEF BranchCount
<1>4. IsFiniteSet(S) /\ \A x \in S : exec[x] = IF x = b THEN n ELSE 0
  <2>1. IsFiniteSet(S)
    BY FiniteAssumption, FS_Subset DEF BlocksAt
  <2>2. ASSUME NEW x \in S, x # b PROVE exec[x] = 0
    BY <1>2, <2>2 DEF BlocksAt, OnlyKnownRuns, OnlyBlockAt
  <2> QED
    BY <2>1, <2>2
<1>5. SumFunctionOnSet(exec, S) = Accounted(a)
  BY <1>1 DEF EntriesTotal
<1> HIDE DEF S, n
<1>6. SumFunctionOnSet(exec, S) = IF b \in S THEN n ELSE 0
  BY <1>2, <1>4, SumPoint
<1> HIDE DEF B, M, T
<1>7. n = trueFt[a] + firsts[a] + T
  <2>1. n = trueFt[a] + firsts[a] + T + 0
    BY <1>1, <1>5, <1>6 DEF Accounted, T
  <2> QED
    BY <1>2, <1>3, <2>1
<1>8. FallThroughCount(b, edges) = trueFt[a] + firsts[a] + M /\ FallThroughCount(b, edges) > 0
  <2>1. FallThroughCount(b, edges) = IF n > B THEN n - B ELSE 0
    BY <1>3 DEF FallThroughCount, n
  <2> QED
    BY <1>2, <1>3, <1>7, <2>1
<1>9. \E p \in known : p.fall_through_addr = a
  BY <1>1 DEF OnlyKnownRuns
<1> HIDE DEF edges
<1>10. b \in DOMAIN FallThroughs(edges) /\ FallThroughs(edges)[b] = FallThroughCount(b, edges)
  BY <1>8, <1>9 DEF FallThroughs
<1> QED
  BY <1>8, <1>10 DEF edges, M

(* The fall-throughs of the blocks that share a start, together. *)
LEMMA PeersBounded ==
    ASSUME RelayOK, HistoryOK, EdgesTotal, FlushedCounted, EntriesTotal,
           Running, config.streaming,
           NEW b \in known, NEW h,
           LET ft == FallThroughs(MergeAll(acc))
               peers == {c \in known : c.start = b.start}
           IN  h = [c \in peers |-> IF c \in DOMAIN ft THEN ft[c] ELSE 0]
    PROVE  SumFunction(h) <= trueFt[b.start] + firsts[b.start] + EntriesInto(missed, b.start) + strays[b.start]
<1> DEFINE a == b.start
           S == BlocksAt(b.start)
           T == EntriesInto(trueEdges, a)
           M == EntriesInto(missed, a)
           B == BranchCount(a)
           edges == MergeAll(acc)
           P == {c \in known : c.start = b.start}
           G == [c \in P |-> IF exec[c] > B THEN exec[c] - B ELSE 0]
<1>1. b \in Tbs /\ a \in Starts /\ P \in SUBSET S /\ P \subseteq known
  BY BlockFields DEF RelayOK, TablesOK, BlocksAt
<1>2. trueFt[a] \in Nat /\ firsts[a] \in Nat /\ strays[a] \in Nat /\ \A x \in S : exec[x] \in Nat
  BY <1>1 DEF HistoryOK, RelayOK, TablesOK, BlocksAt
<1>3. T \in Nat /\ M \in Nat /\ B \in Nat /\ T <= B + M /\ flushed[a] + EntriesInto(edges, a) = B
  BY <1>1, BranchesCounted DEF BranchCount
<1>4. IsFiniteSet(S) /\ IsFiniteSet(P)
  <2>1. IsFiniteSet(S)
    BY FiniteAssumption, FS_Subset DEF BlocksAt
  <2> QED
    BY <1>1, <2>1, FS_Subset
<1>5. \A c \in P : FallThroughCount(c, edges) = IF exec[c] > B THEN exec[c] - B ELSE 0
  BY <1>3 DEF FallThroughCount
<1>6. h = [c \in P |-> IF c \in DOMAIN FallThroughs(edges) THEN FallThroughs(edges)[c] ELSE 0]
  OBVIOUS
<1>7. SumFunctionOnSet(exec, S) = trueFt[a] + firsts[a] + T + strays[a]
  BY <1>1 DEF EntriesTotal, Accounted
<1> HIDE DEF edges
<1>8. \A c \in DOMAIN FallThroughs(edges) : FallThroughs(edges)[c] = FallThroughCount(c, edges)
  BY DEF FallThroughs
<1> HIDE DEF B, M, T, S
<1>9. \A c \in P : exec[c] \in Nat /\ G[c] = IF exec[c] > B THEN exec[c] - B ELSE 0
  BY <1>1, <1>2
<1>10. \A c \in P : h[c] \in Nat /\ G[c] \in Nat /\ h[c] <= G[c]
  BY <1>3, <1>5, <1>6, <1>8, <1>9
<1>11. DOMAIN h = P
  BY <1>6
<1> HIDE DEF P, G
<1>12. SumFunctionOnSet(h, P) <= SumFunctionOnSet(G, P)
  BY <1>4, <1>10, SumMonotonic
<1>13. /\ SumFunctionOnSet(G, P) \in Nat /\ SumFunctionOnSet(exec, P) \in Nat
       /\ SumFunctionOnSet(G, P) = 0 \/ SumFunctionOnSet(G, P) + B <= SumFunctionOnSet(exec, P)
  BY <1>3, <1>4, <1>9, SaturatingSum
<1>14. SumFunctionOnSet(exec, P) <= SumFunctionOnSet(exec, S)
  BY <1>1, <1>2, <1>4, SumSubset
<1>15. SumFunctionOnSet(h, P) \in Nat
  BY <1>4, <1>10, SumIsNat
<1>16. SumFunction(h) = SumFunctionOnSet(h, P)
  BY <1>11 DEF SumFunction
<1>17. SumFunction(h) <= trueFt[a] + firsts[a] + M + strays[a]
  <2> DEFINE x == SumFunctionOnSet(h, P)
             g == SumFunctionOnSet(G, P)
             p == SumFunctionOnSet(exec, P)
             z == SumFunctionOnSet(exec, S)
  <2>1. /\ x \in Nat /\ g \in Nat /\ p \in Nat /\ x <= g /\ (g = 0 \/ g + B <= p)
        /\ p <= z /\ z = trueFt[a] + firsts[a] + T + strays[a] /\ SumFunction(h) = x
    BY <1>7, <1>12, <1>13, <1>14, <1>15, <1>16
  <2> HIDE DEF x, g, p, z, a
  <2> QED
    BY <1>2, <1>3, <2>1
<1> QED
  BY <1>17 DEF M

(***************************************************************************)
(* "fall_through = total_exec - branch_entries", for every program, number *)
(* of vCPUs and flush threshold, whatever is written or lost: in streaming *)
(* mode a block alone at its start that no abandoned block led to reports  *)
(* exactly its entries by fall-through, those as a vCPU's first block and  *)
(* those whose edge was missed; blocks that share a start never report     *)
(* more than that together, entries from abandoned blocks added.           *)
(***************************************************************************)
THEOREM FallThroughsDerived == ASSUME NoBlockEndsAtZero PROVE Spec => []FallThroughDerived
<1> DEFINE Counted == /\ RelayOK /\ HistoryOK /\ EdgesTotal /\ FlushedCounted
                      /\ EntriesTotal /\ OnlyKnownRuns
<1>1. Init => FallThroughDerived
  BY DEF Init, FallThroughDerived, Exited
<1>2. Counted /\ FallThroughDerived /\ [Next]_vars => FallThroughDerived'
  <2> SUFFICES ASSUME Counted, FallThroughDerived, [Next]_vars PROVE FallThroughDerived'
    OBVIOUS
  <2>1. CASE PluginExit
    <3> SUFFICES ASSUME config'.streaming, NEW b \in known'
                 PROVE  LET actual == (trueFt[b.start] + firsts[b.start] + EntriesInto(missed, b.start))'
                            peers == {c \in known' : c.start = b.start}
                        IN  /\ OnlyBlockAt(b)' /\ trueFt'[b.start] > 0 /\ strays'[b.start] = 0
                                  => ReportedFt(b)' = actual
                            /\ SumFunction([c \in peers |-> ReportedFt(c)']) <= actual + strays'[b.start]
      BY DEF FallThroughDerived
    <3>1. /\ Running /\ UNCHANGED <<known, config, missed, strays, trueFt, firsts>>
          /\ report'[1].ft = FallThroughs(MergeAll(acc))
      BY <2>1 DEF PluginExit, observed
    <3> DEFINE ft == FallThroughs(MergeAll(acc))
               P == {c \in known : c.start = b.start}
               h == [c \in P |-> IF c \in DOMAIN ft THEN ft[c] ELSE 0]
    <3>2. \A c : ReportedFt(c)' = IF c \in DOMAIN ft THEN ft[c] ELSE 0
      BY <3>1 DEF ReportedFt
    <3>3. SumFunction(h) <= trueFt[b.start] + firsts[b.start] + EntriesInto(missed, b.start) + strays[b.start]
      BY <3>1, PeersBounded
    <3>4. [c \in {c \in known' : c.start = b.start} |-> ReportedFt(c)'] = h
      BY <3>1, <3>2
    <3>5. OnlyBlockAt(b)' <=> OnlyBlockAt(b)
      BY <3>1 DEF OnlyBlockAt
    <3>6. OnlyBlockAt(b) /\ trueFt[b.start] > 0 /\ strays[b.start] = 0 =>
             b \in DOMAIN ft /\ ft[b] = trueFt[b.start] + firsts[b.start] + EntriesInto(missed, b.start)
      BY <3>1, AloneExact
    <3> HIDE DEF ft, h
    <3> QED
      BY <3>1, <3>2, <3>3, <3>4, <3>5, <3>6
  <2>2. CASE Next /\ ~PluginExit
    BY <2>2 DEF Next, Translate, EnterTb, FinishTb, Abort, StoreSlot, Running, FallThroughDerived, Exited
  <2>3. CASE UNCHANGED vars
    <3>1. UNCHANGED <<known, config, missed, strays, trueFt, firsts, report>>
      BY <2>3 DEF vars, plugin, tables, observed
    <3> QED
      BY <3>1 DEF FallThroughDerived, Exited, OnlyBlockAt, ReportedFt
  <2> QED
    BY <2>1, <2>2, <2>3
<1> QED
  BY <1>1, <1>2, RelayInvariant, HistoryInvariant, EdgesInvariant, FlushedInvariant,
     EntriesInvariant, PTL DEF Spec
-----------------------------------------------------------------------------
(* The index finds one start at most, and the one of a block that no other start hides. *)
LEMMA CallCountExact ==
    ASSUME NEW tbs \in SUBSET Tbs, NEW last \in LastAtStart(tbs), NEW cs \in Nat,
           NEW counts \in [Tbs -> Nat]
    PROVE  LET w == CallCount(last, counts, cs)
           IN  /\ w = 0 \/ \E b \in Containing(tbs, cs) : w = counts[b]
               /\ \A b \in Containing(tbs, cs) : Unshadowed(tbs, b, cs) => w = counts[b]
<1>1. /\ DOMAIN last = {b.start : b \in tbs}
      /\ \A s \in DOMAIN last : last[s] \in tbs /\ last[s].start = s /\ s \in Nat
  BY BlockFields DEF LastAtStart
<1>2. ASSUME NEW s \in IndexedStarts(last, cs), NEW r \in IndexedStarts(last, cs) PROVE s = r
  <2>1. s \in Nat /\ r \in Nat
    BY <1>1 DEF IndexedStarts
  <2>2. s <= r /\ r <= s
    BY DEF IndexedStarts
  <2> QED
    BY <2>1, <2>2
<1> DEFINE k == CHOOSE s \in IndexedStarts(last, cs) : TRUE
<1>3. CASE \E s \in IndexedStarts(last, cs) : cs <= last[s].end
  <2>1. k \in IndexedStarts(last, cs) /\ cs <= last[k].end
    BY <1>2, <1>3
  <2>2. CallCount(last, counts, cs) = counts[last[k]]
    BY <1>3 DEF CallCount
  <2> HIDE DEF k
  <2>3. k \in DOMAIN last /\ k <= cs /\ \A r \in DOMAIN last : r <= cs => r <= k
    BY <2>1 DEF IndexedStarts
  <2>4. last[k] \in Containing(tbs, cs)
    BY <1>1, <2>1, <2>3 DEF Containing
  <2>5. ASSUME NEW b \in Containing(tbs, cs), Unshadowed(tbs, b, cs) PROVE b = last[k]
    <3>1. b \in tbs /\ b.start <= cs /\ b.start \in DOMAIN last
      BY <1>1 DEF Containing
    <3>2. b.start <= k
      BY <2>3, <3>1
    <3> QED
      BY <1>1, <2>3, <2>5, <3>1, <3>2 DEF Unshadowed
  <2> QED
    BY <2>2, <2>4, <2>5
<1>4. CASE ~ \E s \in IndexedStarts(last, cs) : cs <= last[s].end
  <2>1. CallCount(last, counts, cs) = 0
    BY <1>4 DEF CallCount
  <2>2. ASSUME NEW b \in Containing(tbs, cs), Unshadowed(tbs, b, cs) PROVE FALSE
    <3>1. b \in tbs /\ b.start <= cs /\ cs <= b.end /\ b.start \in DOMAIN last /\ b.start \in Nat
      BY <1>1 DEF Containing
    <3>2. ASSUME NEW r \in DOMAIN last, r <= cs PROVE r <= b.start
      <4>1. last[r] \in tbs /\ last[r].start = r /\ r \in Nat
        BY <1>1
      <4>2. last[r] = b \/ ~(b.start <= r)
        BY <2>2, <3>2, <4>1 DEF Unshadowed
      <4> QED
        BY <3>1, <4>1, <4>2
    <3>3. b.start \in IndexedStarts(last, cs)
      BY <3>1, <3>2 DEF IndexedStarts
    <3>4. last[b.start] = b
      BY <1>1, <2>2, <3>1 DEF Unshadowed
    <3> QED
      BY <1>4, <3>1, <3>3, <3>4
  <2> QED
    BY <2>1, <2>2
<1> QED
  BY <1>3, <1>4

(***************************************************************************)
(* A direct call is weighted with a block that contains it or with 0, and  *)
(* with its own block unless another block starts in between: whatever the *)
(* unstable sort leaves as the last of the blocks at one start.            *)
(***************************************************************************)
THEOREM DirectCallsWeighted == Spec => []DirectCallWeights
<1>1. Init => DirectCallWeights
  BY DEF Init, DirectCallWeights, Exited
<1>2. RelayOK /\ DirectCallWeights /\ [Next]_vars => DirectCallWeights'
  <2> SUFFICES ASSUME RelayOK, DirectCallWeights, [Next]_vars PROVE DirectCallWeights'
    OBVIOUS
  <2>1. CASE PluginExit
    <3>1. PICK last \in LastAtStart(known) : report'[1].direct = DirectWeights(last)
      BY <2>1 DEF PluginExit
    <3>2. UNCHANGED <<known, direct, exec>>
      BY <2>1 DEF PluginExit
    <3>3. known \in SUBSET Tbs /\ exec \in [Tbs -> Nat] /\ direct \subseteq Nat \X Nat
      <4>1. \A b \in known : b.direct \subseteq Nat \X Nat
        BY BlockFields DEF RelayOK, TablesOK
      <4> QED
        BY <4>1 DEF RelayOK, TablesOK
    <3> SUFFICES ASSUME NEW c \in direct
                 PROVE  LET w == report'[1].direct[c]
                            tbs == Containing(known, c[1])
                        IN  /\ w = 0 \/ \E b \in tbs : w = exec[b]
                            /\ \A b \in tbs : Unshadowed(known, b, c[1]) => w = exec[b]
      BY <3>2 DEF DirectCallWeights
    <3>4. report'[1].direct[c] = CallCount(last, exec, c[1]) /\ c[1] \in Nat
      BY <3>1, <3>3 DEF DirectWeights
    <3> QED
      BY <3>1, <3>3, <3>4, CallCountExact
  <2>2. CASE Next /\ ~PluginExit
    BY <2>2 DEF Next, Translate, EnterTb, FinishTb, Abort, StoreSlot, Running, DirectCallWeights, Exited
  <2>3. CASE UNCHANGED vars
    BY <2>3 DEF vars, plugin, DirectCallWeights, Exited
  <2> QED
    BY <2>1, <2>2, <2>3
<1> QED
  BY <1>1, <1>2, RelayInvariant, PTL DEF Spec
=============================================================================
