-------------------------- MODULE StreamFlushProofs --------------------------
(* Proofs about StreamFlush, for any number of vCPUs, edges and any top_n. *)
EXTENDS StreamFlush, TableTheorems

(* The part of TypeOK that involves no sum. *)
TablesOK ==
    /\ initialized \in BOOLEAN
    /\ opens \in Nat
    /\ pc \in [Vcpus -> {"idle", "exchange", "open", "publish", "count", "write"}]
    /\ acc \in [Vcpus -> [Edges -> Nat]]
    /\ batch \in [Vcpus -> [Edges -> Nat]]
    /\ written \in [Vcpus -> [Edges -> Nat]]
    /\ final \in [Vcpus -> [Edges -> Nat]]
    /\ truth \in [Vcpus -> [Edges -> Nat]]
    /\ lost \in [Vcpus -> [Edges -> Nat]]

(* One thread at most is opening the file, and only after winning the exchange. *)
OneOpener ==
    /\ opens <= 1
    /\ ~initialized => opens = 0 /\ \A v \in Vcpus : pc[v] # "open"
    /\ \A v \in Vcpus : pc[v] = "open" => opens = 0
    /\ \A v, w \in Vcpus : pc[v] = "open" /\ pc[w] = "open" => v = w

(* A batch exists only during its flush, when the table it was drained from *)
(* is empty; an exit batch exists only after exit.                          *)
BatchesInFlight ==
    /\ \A v \in Vcpus, e \in Edges :
          IF pc[v] \in {"count", "write"} THEN acc[v][e] = 0 ELSE batch[v][e] = 0
    /\ \A v \in Vcpus, e \in Edges : ~exited => final[v][e] = 0

(* What the table operators return. *)
LEMMA TableOps ==
    ASSUME NEW t \in [Edges -> Nat], NEW u \in [Edges -> Nat], NEW e \in Edges
    PROVE  /\ Bump(t, e) \in [Edges -> Nat]
           /\ \A f \in Edges : Bump(t, e)[f] = IF f = e THEN t[f] + 1 ELSE t[f]
           /\ Merge(t, u) \in [Edges -> Nat]
           /\ \A f \in Edges : Merge(t, u)[f] = t[f] + u[f]
           /\ EmptyTable(Edges) \in [Edges -> Nat]
           /\ \A f \in Edges : EmptyTable(Edges)[f] = 0
  BY DEF Bump, Merge, EmptyTable

(* The empty table, on its own. *)
LEMMA EmptyIsTable ==
    /\ EmptyTable(Edges) \in [Edges -> Nat]
    /\ \A f \in Edges : EmptyTable(Edges)[f] = 0
    /\ Zero \in [Vcpus -> [Edges -> Nat]]
    /\ \A v \in Vcpus, f \in Edges : Zero[v][f] = 0
<1>1. EmptyTable(Edges) \in [Edges -> Nat] /\ \A f \in Edges : EmptyTable(Edges)[f] = 0
  BY DEF EmptyTable
<1>2. Zero \in [Vcpus -> [Edges -> Nat]]
  BY <1>1 DEF Zero
<1>3. \A v \in Vcpus, f \in Edges : Zero[v][f] = 0
  BY <1>1 DEF Zero
<1> QED
  BY <1>1, <1>2, <1>3

(* A step of a flush counts the entries or ends it with some edges written. *)
LEMMA FlushKinds ==
    ASSUME TablesOK, NEW v \in Vcpus, FlushEdges(v)
    PROVE  CountEntries(v) \/ \E K \in SUBSET Edges : FinishFlush(v, K)
<1>1. Keys(batch[v]) \subseteq Edges
  BY DEF TablesOK, Keys
<1>2. FullRecords(Keys(batch[v])) \subseteq SUBSET Edges
  BY <1>1 DEF FullRecords
<1> QED
  BY <1>2 DEF FlushEdges, WriteBatch, WriteFails, NoWriter

(* An exit with a writer writes some of the edges. *)
LEMMA ExitKinds ==
    ASSUME TablesOK, PluginExit \/ ExitWriteFails
    PROVE  \E K \in SUBSET Edges : ExitWrite(K)
<1>1. UNION {Keys(acc[v]) : v \in Vcpus} \subseteq Edges
  BY DEF TablesOK, Keys
<1>2. FullRecords(UNION {Keys(acc[v]) : v \in Vcpus}) \subseteq SUBSET Edges
  BY <1>1 DEF FullRecords
<1> QED
  BY <1>2 DEF PluginExit, ExitWriteFails

(* Typing of the tables, of the counters and of the program counters. *)
LEMMA TablesInvariant == Spec => []TablesOK
<1>1. Init => TablesOK
  <2> SUFFICES ASSUME Init PROVE TablesOK
    OBVIOUS
  <2>1. initialized \in BOOLEAN
    BY DEF Init
  <2>2. pc \in [Vcpus -> {"idle", "exchange", "open", "publish", "count", "write"}]
    BY DEF Init
  <2>3. /\ acc = Zero /\ batch = Zero /\ written = Zero
        /\ final = Zero /\ truth = Zero /\ lost = Zero /\ opens = 0
    BY Zenon DEF Init
  <2> QED
    BY <2>1, <2>2, <2>3, EmptyIsTable DEF TablesOK
<1>2. TablesOK /\ [Next]_vars => TablesOK'
  <2> SUFFICES ASSUME TablesOK, [Next]_vars PROVE TablesOK'
    OBVIOUS
  <2> USE DEF TablesOK, store, atexit
  <2>1. ASSUME NEW v \in Vcpus, InitWriter(v) PROVE TablesOK'
    <3>1. UNCHANGED store /\ UNCHANGED atexit
      BY <2>1 DEF InitWriter, AlreadyInitialized, NotInitialized, CompareExchange,
                  OpenFile, OpenFails, PublishWriter
    <3>2. opens' \in Nat
      BY <2>1 DEF InitWriter, AlreadyInitialized, NotInitialized, CompareExchange,
                  OpenFile, OpenFails, PublishWriter
    <3>3. pc' \in [Vcpus -> {"idle", "exchange", "open", "publish", "count", "write"}]
      BY <2>1 DEF InitWriter, AlreadyInitialized, NotInitialized, CompareExchange,
                  OpenFile, OpenFails, PublishWriter
    <3>4. initialized' = initialized \/ initialized' = TRUE
      BY <2>1, Zenon DEF InitWriter, AlreadyInitialized, NotInitialized, CompareExchange,
                  OpenFile, OpenFails, PublishWriter
    <3> QED
      BY <3>1, <3>2, <3>3, <3>4
  <2>2. ASSUME NEW v \in Vcpus, NEW e \in Edges, RecordEdge(v, e) PROVE TablesOK'
    <3>1. Bump(truth[v], e) \in [Edges -> Nat] /\ Bump(acc[v], e) \in [Edges -> Nat]
      BY TableOps
    <3> QED
      BY <2>2, <3>1, EmptyIsTable DEF RecordEdge
  <2>3. ASSUME NEW v \in Vcpus, CountEntries(v) PROVE TablesOK'
    BY <2>3 DEF CountEntries
  <2>4. ASSUME NEW v \in Vcpus, NEW K \in SUBSET Edges, FinishFlush(v, K) PROVE TablesOK'
    <3>1. /\ Merge(written[v], Keep(batch[v], K)) \in [Edges -> Nat]
          /\ Merge(lost[v], Keep(batch[v], Edges \ K)) \in [Edges -> Nat]
      <4>1. /\ batch[v] \in [Edges -> Nat] /\ written[v] \in [Edges -> Nat]
            /\ lost[v] \in [Edges -> Nat]
        OBVIOUS
      <4> QED
        BY ONLY <4>1, SMT DEF Merge, Keep
    <3> QED
      BY <2>4, <3>1, EmptyIsTable DEF FinishFlush
  <2>5. CASE ExitWithoutWriter
    BY <2>5 DEF ExitWithoutWriter
  <2>6. ASSUME NEW K \in SUBSET Edges, ExitWrite(K) PROVE TablesOK'
    <3>1. ASSUME NEW v \in Vcpus
          PROVE  /\ Keep(acc[v], K) \in [Edges -> Nat]
                 /\ Merge(lost[v], Keep(acc[v], Edges \ K)) \in [Edges -> Nat]
      <4>1. acc[v] \in [Edges -> Nat] /\ lost[v] \in [Edges -> Nat]
        OBVIOUS
      <4> QED
        BY ONLY <4>1, SMT DEF Merge, Keep
    <3>2. /\ final' = [v \in Vcpus |-> Keep(acc[v], K)]
          /\ lost' = [v \in Vcpus |-> Merge(lost[v], Keep(acc[v], Edges \ K))]
          /\ acc' = Zero
          /\ UNCHANGED <<initialized, opens, pc, batch, written, truth>>
      BY <2>6 DEF ExitWrite
    <3> QED
      BY <3>1, <3>2, EmptyIsTable
  <2>7. CASE UNCHANGED vars
    BY <2>7 DEF vars
  <2> QED
    BY <2>1, <2>2, <2>3, <2>4, <2>5, <2>6, <2>7, FlushKinds, ExitKinds DEF Next
<1> QED
  BY <1>1, <1>2, PTL DEF Spec

(* The compare-exchange lets one thread through, once. *)
LEMMA OneOpenerInvariant == Spec => []OneOpener
<1>1. Init => OneOpener
  BY DEF Init, OneOpener
<1>2. TablesOK /\ OneOpener /\ [Next]_vars => OneOpener'
  <2> SUFFICES ASSUME TablesOK, OneOpener, [Next]_vars PROVE OneOpener'
    OBVIOUS
  <2> USE DEF TablesOK, OneOpener
  <2>1. ASSUME NEW v \in Vcpus, AlreadyInitialized(v) PROVE OneOpener'
    BY <2>1 DEF AlreadyInitialized
  <2>2. ASSUME NEW v \in Vcpus, NotInitialized(v) PROVE OneOpener'
    BY <2>2 DEF NotInitialized
  <2>3. ASSUME NEW v \in Vcpus, CompareExchange(v) PROVE OneOpener'
    <3>1. CASE initialized
      BY <2>3, <3>1 DEF CompareExchange
    <3>2. CASE ~initialized
      BY <2>3, <3>2 DEF CompareExchange
    <3> QED
      BY <3>1, <3>2
  <2>4. ASSUME NEW v \in Vcpus, OpenFile(v) PROVE OneOpener'
    BY <2>4 DEF OpenFile
  <2>5. ASSUME NEW v \in Vcpus, OpenFails(v) PROVE OneOpener'
    BY <2>5 DEF OpenFails
  <2>6. ASSUME NEW v \in Vcpus, PublishWriter(v) PROVE OneOpener'
    BY <2>6 DEF PublishWriter
  <2>7. ASSUME NEW v \in Vcpus, NEW e \in Edges, RecordEdge(v, e) PROVE OneOpener'
    BY <2>7 DEF RecordEdge
  <2>8. ASSUME NEW v \in Vcpus, CountEntries(v) PROVE OneOpener'
    BY <2>8 DEF CountEntries
  <2>9. ASSUME NEW v \in Vcpus, NEW K \in SUBSET Edges, FinishFlush(v, K) PROVE OneOpener'
    BY <2>9 DEF FinishFlush
  <2>10. CASE UNCHANGED <<initialized, opens, pc>>
    BY <2>10
  <2>11. ExitWithoutWriter \/ PluginExit \/ ExitWriteFails \/ UNCHANGED vars
            => UNCHANGED <<initialized, opens, pc>>
    BY DEF ExitWithoutWriter, PluginExit, ExitWriteFails, ExitWrite, vars
  <2>12. ASSUME NEW v \in Vcpus, FlushEdges(v) PROVE OneOpener'
    BY <2>8, <2>9, <2>12, FlushKinds
  <2> QED
    BY <2>1, <2>2, <2>3, <2>4, <2>5, <2>6, <2>7, <2>10, <2>11, <2>12 DEF Next, InitWriter
<1> QED
  BY <1>1, <1>2, TablesInvariant, PTL DEF Spec

(***************************************************************************)
(* OpenedOnce: File::create runs at most once in the life of the process,  *)
(* so no profile data is truncated by a second initialisation.             *)
(***************************************************************************)
THEOREM FileCreatedOnce == Spec => []OpenedOnce
<1>1. OneOpener => OpenedOnce
  BY DEF OneOpener, OpenedOnce
<1> QED
  BY <1>1, OneOpenerInvariant, PTL

(* Where batches can be. *)
LEMMA BatchesInvariant == Spec => []BatchesInFlight
<1>1. Init => BatchesInFlight
  BY EmptyIsTable DEF Init, BatchesInFlight
<1>2. TablesOK /\ BatchesInFlight /\ [Next]_vars => BatchesInFlight'
  <2> SUFFICES ASSUME TablesOK, BatchesInFlight, [Next]_vars PROVE BatchesInFlight'
    OBVIOUS
  <2> USE DEF TablesOK, BatchesInFlight, store, atexit
  <2>1. ASSUME NEW v \in Vcpus, InitWriter(v) PROVE BatchesInFlight'
    <3>1. UNCHANGED <<acc, batch, exited, final>>
      BY <2>1 DEF InitWriter, AlreadyInitialized, NotInitialized, CompareExchange,
                  OpenFile, OpenFails, PublishWriter
    <3>2. \A w \in Vcpus : pc'[w] \in {"count", "write"} <=> pc[w] \in {"count", "write"}
      BY <2>1 DEF InitWriter, AlreadyInitialized, NotInitialized, CompareExchange,
                  OpenFile, OpenFails, PublishWriter
    <3> QED
      BY <3>1, <3>2
  <2>2. ASSUME NEW v \in Vcpus, NEW e \in Edges, RecordEdge(v, e) PROVE BatchesInFlight'
    <3>1. pc[v] = "idle" /\ UNCHANGED <<exited, final>>
      BY <2>2 DEF RecordEdge
    <3>2. \/ /\ acc' = [acc EXCEPT ![v] = EmptyTable(Edges)]
             /\ \A w \in Vcpus \ {v} : batch'[w] = batch[w]
             /\ pc' = [pc EXCEPT ![v] = "count"]
          \/ /\ \A w \in Vcpus \ {v} : acc'[w] = acc[w]
             /\ UNCHANGED <<batch, pc>>
      BY <2>2 DEF RecordEdge
    <3>3. ASSUME NEW w \in Vcpus, NEW d \in Edges
          PROVE  IF pc'[w] \in {"count", "write"} THEN acc'[w][d] = 0 ELSE batch'[w][d] = 0
      <4>1. CASE w = v
        BY <3>1, <3>2, <4>1, EmptyIsTable
      <4>2. CASE w # v
        BY <3>2, <4>2
      <4> QED
        BY <4>1, <4>2
    <3> QED
      BY <3>1, <3>3
  <2>3. ASSUME NEW v \in Vcpus, CountEntries(v) PROVE BatchesInFlight'
    BY <2>3 DEF CountEntries
  <2>4. ASSUME NEW v \in Vcpus, NEW K \in SUBSET Edges, FinishFlush(v, K) PROVE BatchesInFlight'
    BY <2>4, EmptyIsTable DEF FinishFlush
  <2>5. CASE ExitWithoutWriter
    BY <2>5 DEF ExitWithoutWriter
  <2>6. ASSUME NEW K \in SUBSET Edges, ExitWrite(K) PROVE BatchesInFlight'
    <3>1. acc' = Zero /\ batch' = batch /\ pc' = pc /\ exited' = TRUE
      BY <2>6, Zenon DEF ExitWrite
    <3> QED
      BY <3>1, EmptyIsTable
  <2>7. CASE UNCHANGED vars
    BY <2>7 DEF vars
  <2> QED
    BY <2>1, <2>2, <2>3, <2>4, <2>5, <2>6, <2>7, FlushKinds, ExitKinds DEF Next
<1> QED
  BY <1>1, <1>2, TablesInvariant, PTL DEF Spec

(***************************************************************************)
(* EdgesConserved: whatever the interleaving of initialisation, flushes    *)
(* and exit, each recorded edge is accounted for exactly once.             *)
(***************************************************************************)
THEOREM EveryEdgeAccounted == Spec => []EdgesConserved
<1>1. Init => EdgesConserved
  BY EmptyIsTable DEF Init, EdgesConserved
<1>2. TablesOK /\ BatchesInFlight /\ EdgesConserved /\ [Next]_vars => EdgesConserved'
  <2> SUFFICES ASSUME TablesOK, BatchesInFlight, EdgesConserved, [Next]_vars
               PROVE  EdgesConserved'
    OBVIOUS
  <2> USE DEF TablesOK, EdgesConserved
  <2>1. ASSUME NEW v \in Vcpus, InitWriter(v) PROVE EdgesConserved'
    <3>1. UNCHANGED <<acc, batch, written, truth, lost, final>>
      BY <2>1 DEF InitWriter, AlreadyInitialized, NotInitialized, CompareExchange,
                  OpenFile, OpenFails, PublishWriter, store, atexit
    <3> QED
      BY <3>1
  <2>2. ASSUME NEW v \in Vcpus, NEW e \in Edges, RecordEdge(v, e) PROVE EdgesConserved'
    <3> DEFINE t == Bump(acc[v], e)
    <3>1. /\ t \in [Edges -> Nat]
          /\ \A f \in Edges : t[f] = IF f = e THEN acc[v][f] + 1 ELSE acc[v][f]
          /\ \A f \in Edges : Bump(truth[v], e)[f] =
                                IF f = e THEN truth[v][f] + 1 ELSE truth[v][f]
      <4>1. acc[v] \in [Edges -> Nat] /\ truth[v] \in [Edges -> Nat]
        OBVIOUS
      <4> QED
        BY <4>1 DEF Bump
    <3>2. /\ \A f \in Edges : batch[v][f] = 0
          /\ UNCHANGED <<written, lost, final>>
          /\ truth' = [truth EXCEPT ![v] = Bump(truth[v], e)]
      BY <2>2 DEF RecordEdge, BatchesInFlight, atexit
    <3>3. CASE ShouldFlush(t, TRUE, TopN)
      <4>1. /\ acc' = [acc EXCEPT ![v] = EmptyTable(Edges)]
            /\ batch' = [batch EXCEPT ![v] = t]
        BY <2>2, <3>3 DEF RecordEdge
      <4> HIDE DEF t
      <4> QED
        BY <3>1, <3>2, <4>1, EmptyIsTable
    <3>4. CASE ~ShouldFlush(t, TRUE, TopN)
      <4>1. acc' = [acc EXCEPT ![v] = t] /\ batch' = batch
        BY <2>2, <3>4 DEF RecordEdge
      <4> HIDE DEF t
      <4> QED
        BY <3>1, <3>2, <4>1
    <3> QED
      BY <3>3, <3>4
  <2>3. ASSUME NEW v \in Vcpus, CountEntries(v) PROVE EdgesConserved'
    BY <2>3 DEF CountEntries, atexit
  <2>4. ASSUME NEW v \in Vcpus, NEW K \in SUBSET Edges, FinishFlush(v, K)
        PROVE  EdgesConserved'
    <3> DEFINE W == Merge(written[v], Keep(batch[v], K))
               L == Merge(lost[v], Keep(batch[v], Edges \ K))
    <3>1. /\ \A f \in Edges : W[f] = written[v][f] + IF f \in K THEN batch[v][f] ELSE 0
          /\ \A f \in Edges : L[f] = lost[v][f] + IF f \in K THEN 0 ELSE batch[v][f]
          /\ W \in [Edges -> Nat] /\ L \in [Edges -> Nat]
      <4>1. /\ batch[v] \in [Edges -> Nat] /\ written[v] \in [Edges -> Nat]
            /\ lost[v] \in [Edges -> Nat]
        OBVIOUS
      <4> QED
        BY ONLY <4>1, SMT DEF Merge, Keep
    <3>2. /\ batch' = [batch EXCEPT ![v] = EmptyTable(Edges)]
          /\ written' = [written EXCEPT ![v] = W]
          /\ lost' = [lost EXCEPT ![v] = L]
          /\ UNCHANGED <<acc, truth, final>>
      BY <2>4 DEF FinishFlush, atexit
    <3> HIDE DEF W, L
    <3>3. \A w \in Vcpus : /\ batch'[w] = IF w = v THEN EmptyTable(Edges) ELSE batch[w]
                           /\ written'[w] = IF w = v THEN W ELSE written[w]
                           /\ lost'[w] = IF w = v THEN L ELSE lost[w]
      BY <3>2
    <3> SUFFICES ASSUME NEW w \in Vcpus, NEW e \in Edges
                 PROVE  truth[w][e] = acc[w][e] + batch'[w][e] + written'[w][e] + final[w][e]
                                        + lost'[w][e]
      BY <3>2
    <3>4. /\ truth[w][e] = acc[w][e] + batch[w][e] + written[w][e] + final[w][e] + lost[w][e]
          /\ truth[w][e] \in Nat /\ acc[w][e] \in Nat /\ batch[w][e] \in Nat
          /\ written[w][e] \in Nat /\ final[w][e] \in Nat /\ lost[w][e] \in Nat
          /\ EmptyTable(Edges)[e] = 0
      BY EmptyIsTable
    <3> QED
      BY ONLY <3>1, <3>3, <3>4, w \in Vcpus, e \in Edges
  <2>5. CASE ExitWithoutWriter
    BY <2>5 DEF ExitWithoutWriter, store
  <2>6. ASSUME NEW K \in SUBSET Edges, ExitWrite(K) PROVE EdgesConserved'
    <3>1. ASSUME NEW v \in Vcpus, NEW f \in Edges
          PROVE  /\ final'[v][f] = IF f \in K THEN acc[v][f] ELSE 0
                 /\ lost'[v][f] = lost[v][f] + IF f \in K THEN 0 ELSE acc[v][f]
      <4>1. acc[v] \in [Edges -> Nat] /\ lost[v] \in [Edges -> Nat]
        OBVIOUS
      <4>2. final'[v] = Keep(acc[v], K) /\ lost'[v] = Merge(lost[v], Keep(acc[v], Edges \ K))
        BY <2>6 DEF ExitWrite
      <4> QED
        BY ONLY <4>1, <4>2, SMT DEF Merge, Keep
    <3>2. /\ acc' = Zero /\ UNCHANGED <<batch, written, truth>>
          /\ \A v \in Vcpus, f \in Edges : final[v][f] = 0
      BY <2>6 DEF ExitWrite, BatchesInFlight
    <3> SUFFICES ASSUME NEW w \in Vcpus, NEW e \in Edges
                 PROVE  truth[w][e] = Zero[w][e] + batch[w][e] + written[w][e] + final'[w][e]
                                        + lost'[w][e]
      BY <3>2
    <3>3. /\ truth[w][e] = acc[w][e] + batch[w][e] + written[w][e] + final[w][e] + lost[w][e]
          /\ truth[w][e] \in Nat /\ acc[w][e] \in Nat /\ batch[w][e] \in Nat
          /\ written[w][e] \in Nat /\ lost[w][e] \in Nat
          /\ Zero[w][e] = 0 /\ final[w][e] = 0
      BY <3>2, EmptyIsTable
    <3> QED
      BY ONLY <3>1, <3>3, w \in Vcpus, e \in Edges
  <2>7. CASE UNCHANGED vars
    BY <2>7 DEF vars, store, atexit
  <2> QED
    BY <2>1, <2>2, <2>3, <2>4, <2>5, <2>6, <2>7, FlushKinds, ExitKinds DEF Next
<1> QED
  BY <1>1, <1>2, TablesInvariant, BatchesInvariant, PTL DEF Spec

(* plugin_exit runs with all vCPUs out of the plugin. *)
ExitQuiet == exited => \A v \in Vcpus : pc[v] = "idle"

LEMMA ExitQuietInvariant == Spec => []ExitQuiet
<1>1. Init => ExitQuiet
  BY DEF Init, ExitQuiet
<1>2. ExitQuiet /\ [Next]_vars => ExitQuiet'
  BY DEF ExitQuiet, Next, InitWriter, AlreadyInitialized, NotInitialized, CompareExchange,
         OpenFile, OpenFails, PublishWriter, RecordEdge, FlushEdges, CountEntries, WriteBatch,
         WriteFails, NoWriter, FinishFlush, ExitWithoutWriter, PluginExit, ExitWriteFails, ExitWrite,
         Quiescent, vars, atexit
<1> QED
  BY <1>1, <1>2, PTL DEF Spec

(***************************************************************************)
(* LedgerSpec: for any vCPUs, edges and threshold, the tables, batches and *)
(* the writer implement the ledger: each step enters one edge, settles all *)
(* that is pending on one vCPU (each edge delivered or given up whole),    *)
(* settles all vCPUs and closes, or changes nothing in it.                 *)
(***************************************************************************)
THEOREM ImplementsLedger == Spec => LedgerSpec
<1>1. Init => Ledger!Init
  <2> SUFFICES ASSUME Init PROVE Ledger!Init
    OBVIOUS
  <2>1. /\ acc = Zero /\ batch = Zero /\ written = Zero /\ final = Zero /\ lost = Zero
        /\ exited = FALSE
    BY Zenon DEF Init
  <2>2. Merge(EmptyTable(Edges), EmptyTable(Edges)) = EmptyTable(Edges)
    BY DEF Merge, EmptyTable
  <2>3. \A v \in Vcpus : Zero[v] = EmptyTable(Edges)
    BY DEF Zero
  <2> QED
    BY <2>1, <2>2, <2>3 DEF Ledger!Init, Ledger!None, Zero, EmptyTable
<1>2. TablesOK /\ TablesOK' /\ BatchesInFlight /\ ExitQuiet /\ [Next]_vars => [Ledger!Next]_(Ledger!vars)
  <2> SUFFICES ASSUME TablesOK, TablesOK', BatchesInFlight, ExitQuiet, [Next]_vars
               PROVE  [Ledger!Next]_(Ledger!vars)
    OBVIOUS
  <2> DEFINE pend == [v \in Vcpus |-> Merge(acc[v], batch[v])]
             deliv == [v \in Vcpus |-> Merge(written[v], final[v])]
  <2>0. UNCHANGED <<acc, batch, written, final, lost, exited>> => UNCHANGED Ledger!vars
    BY DEF Ledger!vars
  <2>1. ASSUME NEW v \in Vcpus, InitWriter(v) PROVE UNCHANGED Ledger!vars
    BY <2>0, <2>1 DEF InitWriter, AlreadyInitialized, NotInitialized, CompareExchange,
                      OpenFile, OpenFails, PublishWriter, store, atexit
  <2>2. ASSUME NEW v \in Vcpus, NEW e \in Edges, RecordEdge(v, e) PROVE Ledger!Record(v, e)
    <3>1. ~exited /\ UNCHANGED <<written, final, lost, exited>>
      BY <2>2 DEF RecordEdge, atexit
    <3>2. \A w \in Vcpus, f \in Edges :
             acc'[w][f] + batch'[w][f] =
                 acc[w][f] + batch[w][f] + (IF w = v /\ f = e THEN 1 ELSE 0)
      <4> DEFINE t == Bump(acc[v], e)
      <4>1. /\ t \in [Edges -> Nat]
            /\ \A f \in Edges : t[f] = IF f = e THEN acc[v][f] + 1 ELSE acc[v][f]
        BY DEF Bump, TablesOK
      <4>2. \A f \in Edges : batch[v][f] = 0
        BY <2>2 DEF RecordEdge, BatchesInFlight
      <4>3. CASE ShouldFlush(t, TRUE, TopN)
        <5>1. /\ acc' = [acc EXCEPT ![v] = EmptyTable(Edges)]
              /\ batch' = [batch EXCEPT ![v] = t]
          BY <2>2, <4>3 DEF RecordEdge
        <5> HIDE DEF t
        <5> QED
          BY <4>1, <4>2, <5>1, EmptyIsTable DEF TablesOK
      <4>4. CASE ~ShouldFlush(t, TRUE, TopN)
        <5>1. acc' = [acc EXCEPT ![v] = t] /\ batch' = batch
          BY <2>2, <4>4 DEF RecordEdge
        <5> HIDE DEF t
        <5> QED
          BY <4>1, <4>2, <5>1 DEF TablesOK
      <4> QED
        BY <4>3, <4>4
    <3>3. pend' = [pend EXCEPT ![v][e] = @ + 1]
      <4>1. pend' = [w \in Vcpus |-> [f \in Edges |-> acc'[w][f] + batch'[w][f]]]
        BY DEF TablesOK, Merge
      <4>2. pend = [w \in Vcpus |-> [f \in Edges |-> acc[w][f] + batch[w][f]]]
        BY DEF TablesOK, Merge
      <4>3. [pend EXCEPT ![v][e] = @ + 1]
              = [w \in Vcpus |-> [f \in Edges |->
                    acc[w][f] + batch[w][f] + (IF w = v /\ f = e THEN 1 ELSE 0)]]
        <5> HIDE DEF pend
        <5>1. \A w \in Vcpus : [pend EXCEPT ![v][e] = @ + 1][w] =
                 [f \in Edges |-> acc[w][f] + batch[w][f] + (IF w = v /\ f = e THEN 1 ELSE 0)]
          <6>1. \A w \in Vcpus, f \in Edges : acc[w][f] \in Nat /\ batch[w][f] \in Nat
            BY DEF TablesOK
          <6>2. ASSUME NEW w \in Vcpus, w # v
                PROVE  [f \in Edges |-> acc[w][f] + batch[w][f] + (IF w = v /\ f = e THEN 1 ELSE 0)]
                         = [f \in Edges |-> acc[w][f] + batch[w][f]]
            BY <6>1, <6>2
          <6>3. [pend[v] EXCEPT ![e] = @ + 1]
                  = [f \in Edges |-> acc[v][f] + batch[v][f] + (IF v = v /\ f = e THEN 1 ELSE 0)]
            BY <4>2, <6>1
          <6> QED
            BY <4>2, <6>2, <6>3
        <5> QED
          BY <4>2, <5>1
      <4> HIDE DEF pend
      <4> QED
        BY <3>2, <4>1, <4>3
    <3>4. UNCHANGED deliv
      BY <3>1
    <3> QED
      BY <3>1, <3>3, <3>4 DEF Ledger!Record
  <2>3. ASSUME NEW v \in Vcpus, CountEntries(v) PROVE UNCHANGED Ledger!vars
    BY <2>0, <2>3 DEF CountEntries, atexit
  <2>4. ASSUME NEW v \in Vcpus, NEW K \in SUBSET Edges, FinishFlush(v, K), ~exited
        PROVE  Ledger!Flush(v)
    <3>1. /\ batch' = [batch EXCEPT ![v] = EmptyTable(Edges)]
          /\ written' = [written EXCEPT ![v] = Merge(written[v], Keep(batch[v], K))]
          /\ lost' = [lost EXCEPT ![v] = Merge(lost[v], Keep(batch[v], Edges \ K))]
          /\ UNCHANGED <<acc, final, exited>>
          /\ pc[v] = "write"
      BY <2>4 DEF FinishFlush, atexit
    <3>2. \A w \in Vcpus, f \in Edges :
             /\ written'[w][f] =
                  written[w][f] + IF w \in {v} /\ f \in K THEN batch[w][f] ELSE 0
             /\ lost'[w][f] =
                  lost[w][f] + IF w \in {v} /\ f \notin K THEN batch[w][f] ELSE 0
             /\ acc'[w][f] + batch'[w][f] =
                  IF w \in {v} THEN 0 ELSE acc[w][f] + batch[w][f]
             /\ w = v => acc[w][f] = 0
      <4> TAKE w \in Vcpus, f \in Edges
      <4>1. /\ Merge(written[v], Keep(batch[v], K))[f] =
                  written[v][f] + IF f \in K THEN batch[v][f] ELSE 0
            /\ Merge(lost[v], Keep(batch[v], Edges \ K))[f] =
                  lost[v][f] + IF f \in K THEN 0 ELSE batch[v][f]
        <5>1. /\ batch[v] \in [Edges -> Nat] /\ written[v] \in [Edges -> Nat]
              /\ lost[v] \in [Edges -> Nat]
          BY DEF TablesOK
        <5> QED
          BY ONLY <5>1, SMT DEF Merge, Keep
      <4>2. acc[v][f] = 0
        BY <3>1 DEF BatchesInFlight
      <4>3. /\ written[w][f] \in Nat /\ lost[w][f] \in Nat
            /\ written'[w] = IF w = v THEN Merge(written[v], Keep(batch[v], K)) ELSE written[w]
            /\ lost'[w] = IF w = v THEN Merge(lost[v], Keep(batch[v], Edges \ K)) ELSE lost[w]
            /\ batch'[w] = IF w = v THEN EmptyTable(Edges) ELSE batch[w]
        BY <3>1 DEF TablesOK
      <4> QED
        BY <3>1, <4>1, <4>2, <4>3, EmptyIsTable
    <3>3. Ledger!Settle({v}, K)
      <4>1. deliv' = [w \in Vcpus |-> [f \in Edges |->
                        deliv[w][f] + IF w \in {v} /\ f \in K THEN pend[w][f] ELSE 0]]
        <5> SUFFICES ASSUME NEW w \in Vcpus
                     PROVE  Merge(written'[w], final'[w]) =
                              [f \in Edges |-> deliv[w][f]
                                 + IF w \in {v} /\ f \in K THEN pend[w][f] ELSE 0]
          OBVIOUS
        <5>1. Merge(written'[w], final'[w]) = [f \in Edges |-> written'[w][f] + final[w][f]]
          BY <3>1 DEF TablesOK, Merge
        <5>2. \A f \in Edges : deliv[w][f] = written[w][f] + final[w][f]
          BY DEF TablesOK, Merge
        <5>3. \A f \in Edges : pend[w][f] = acc[w][f] + batch[w][f]
          BY DEF TablesOK, Merge
        <5>4. \A f \in Edges : /\ acc[w][f] \in Nat /\ batch[w][f] \in Nat
                               /\ written[w][f] \in Nat /\ final[w][f] \in Nat
          BY DEF TablesOK
        <5> HIDE DEF pend, deliv
        <5>5. \A f \in Edges : written'[w][f] + final[w][f] = deliv[w][f]
                                 + IF w \in {v} /\ f \in K THEN pend[w][f] ELSE 0
          BY <3>2, <5>2, <5>3, <5>4
        <5> QED
          BY <5>1, <5>5
      <4>2. lost' = [w \in Vcpus |-> [f \in Edges |->
                        lost[w][f] + IF w \in {v} /\ f \notin K THEN pend[w][f] ELSE 0]]
        <5>1. \A w \in Vcpus, f \in Edges : pend[w][f] = acc[w][f] + batch[w][f]
          BY DEF TablesOK, Merge
        <5>2. \A w \in Vcpus, f \in Edges : acc[w][f] \in Nat /\ batch[w][f] \in Nat
          BY DEF TablesOK
        <5>3. lost' \in [Vcpus -> [Edges -> Nat]]
          BY DEF TablesOK
        <5> HIDE DEF pend
        <5>4. \A w \in Vcpus, f \in Edges :
                 lost'[w][f] = lost[w][f] + IF w \in {v} /\ f \notin K THEN pend[w][f] ELSE 0
          BY <3>2, <5>1, <5>2
        <5> QED
          BY <5>3, <5>4
      <4>3. pend' = [w \in Vcpus |-> IF w \in {v} THEN [f \in Edges |-> 0] ELSE pend[w]]
        <5>1. \A w \in Vcpus : Merge(acc'[w], batch'[w]) = [f \in Edges |-> acc'[w][f] + batch'[w][f]]
          BY DEF TablesOK, Merge
        <5>2. \A w \in Vcpus : pend[w] = [f \in Edges |-> acc[w][f] + batch[w][f]]
          BY DEF TablesOK, Merge
        <5>3. ASSUME NEW w \in Vcpus
              PROVE  Merge(acc'[w], batch'[w]) = IF w \in {v} THEN [f \in Edges |-> 0] ELSE pend[w]
          <6>1. CASE w = v
            BY <3>2, <5>1, <6>1
          <6>2. CASE w # v
            <7>1. acc'[w] = acc[w] /\ batch'[w] = batch[w]
              BY <3>1, <6>2 DEF TablesOK
            <7> QED
              BY <6>2, <7>1
          <6> QED
            BY <6>1, <6>2
        <5>4. pend' = [w \in Vcpus |-> Merge(acc'[w], batch'[w])]
          OBVIOUS
        <5> HIDE DEF pend
        <5> QED
          BY <5>3, <5>4
      <4> HIDE DEF pend, deliv
      <4> QED
        BY <2>4, <4>1, <4>2, <4>3 DEF Ledger!Settle, pend, deliv
    <3> QED
      BY <3>1, <3>3 DEF Ledger!Flush
  <2>5. CASE ExitWithoutWriter
    BY <2>5 DEF ExitWithoutWriter, store, Ledger!Abandon, Ledger!Next
  <2>6. ASSUME NEW K \in SUBSET Edges, ExitWrite(K) PROVE Ledger!Close
    <3>1. /\ ~exited /\ exited' = TRUE
          /\ final' = [v \in Vcpus |-> Keep(acc[v], K)]
          /\ lost' = [v \in Vcpus |-> Merge(lost[v], Keep(acc[v], Edges \ K))]
          /\ acc' = Zero
          /\ UNCHANGED <<batch, written>>
          /\ \A v \in Vcpus : pc[v] = "idle"
      BY <2>6, Zenon DEF ExitWrite, Quiescent
    <3>2. \A v \in Vcpus, f \in Edges : batch[v][f] = 0 /\ final[v][f] = 0
      BY <3>1 DEF BatchesInFlight
    <3>3. \A v \in Vcpus, f \in Edges :
             /\ final'[v][f] = IF f \in K THEN acc[v][f] ELSE 0
             /\ lost'[v][f] = lost[v][f] + IF f \in K THEN 0 ELSE acc[v][f]
             /\ acc'[v][f] = 0
      <4> TAKE v \in Vcpus, f \in Edges
      <4>1. acc[v] \in [Edges -> Nat] /\ lost[v] \in [Edges -> Nat]
        BY DEF TablesOK
      <4>2. final'[v] = Keep(acc[v], K) /\ lost'[v] = Merge(lost[v], Keep(acc[v], Edges \ K))
        BY <3>1
      <4>3. acc'[v][f] = 0
        BY <3>1, EmptyIsTable
      <4> QED
        BY ONLY <4>1, <4>2, <4>3, SMT DEF Merge, Keep
    <3>4. \A v \in Vcpus, f \in Edges : /\ deliv[v][f] = written[v][f] /\ pend[v][f] = acc[v][f]
                                        /\ written[v][f] \in Nat /\ acc[v][f] \in Nat
      BY <3>2 DEF TablesOK, Merge
    <3>5. /\ \A v \in Vcpus : deliv'[v] = [f \in Edges |-> written[v][f] + final'[v][f]]
          /\ \A v \in Vcpus : pend'[v] = [f \in Edges |-> acc'[v][f] + batch[v][f]]
          /\ deliv' = [v \in Vcpus |-> deliv'[v]] /\ pend' = [v \in Vcpus |-> pend'[v]]
      BY <3>1 DEF TablesOK, Merge
    <3>6. lost' \in [Vcpus -> [Edges -> Nat]]
      BY DEF TablesOK
    <3> HIDE DEF pend, deliv
    <3>7. deliv' = [v \in Vcpus |-> [f \in Edges |->
                      deliv[v][f] + IF v \in Vcpus /\ f \in K THEN pend[v][f] ELSE 0]]
      <4>1. \A v \in Vcpus : deliv'[v] = [f \in Edges |->
                      deliv[v][f] + IF v \in Vcpus /\ f \in K THEN pend[v][f] ELSE 0]
        BY <3>3, <3>4, <3>5
      <4> QED
        BY <3>5, <4>1
    <3>8. lost' = [v \in Vcpus |-> [f \in Edges |->
                      lost[v][f] + IF v \in Vcpus /\ f \notin K THEN pend[v][f] ELSE 0]]
      <4>1. \A v \in Vcpus, f \in Edges : lost'[v][f] =
                      lost[v][f] + IF v \in Vcpus /\ f \notin K THEN pend[v][f] ELSE 0
        BY <3>3, <3>4
      <4> QED
        BY <3>6, <4>1
    <3>9. pend' = [v \in Vcpus |-> IF v \in Vcpus THEN [f \in Edges |-> 0] ELSE pend[v]]
      <4>1. \A v \in Vcpus : pend'[v] = [f \in Edges |-> 0]
        BY <3>2, <3>3, <3>5
      <4> QED
        BY <3>5, <4>1
    <3>10. Ledger!Settle(Vcpus, K)
      BY <3>1, <3>7, <3>8, <3>9 DEF Ledger!Settle, pend, deliv
    <3> QED
      BY <3>1, <3>10 DEF Ledger!Close
  <2>7. CASE UNCHANGED vars
    BY <2>0, <2>7 DEF vars, store, atexit
  <2>8. ASSUME NEW v \in Vcpus, FlushEdges(v)
        PROVE  Ledger!Flush(v) \/ UNCHANGED Ledger!vars
    <3>1. ~exited
      BY <2>8 DEF FlushEdges, CountEntries, WriteBatch, WriteFails, NoWriter, FinishFlush, ExitQuiet
    <3> QED
      BY <2>3, <2>4, <2>8, <3>1, FlushKinds
  <2> QED
    BY <2>1, <2>2, <2>5, <2>6, <2>7, <2>8, ExitKinds DEF Next, Ledger!Next
<1> QED
  BY <1>1, <1>2, TablesInvariant, BatchesInvariant, ExitQuietInvariant, PTL
     DEF Spec, LedgerSpec, Ledger!Spec
-----------------------------------------------------------------------------
(* The branch entries of the batch that v has drained and not counted yet. *)
Uncounted(v, a) ==
    EntriesInto(acc[v], a) + (IF pc[v] = "count" THEN EntriesInto(batch[v], a) ELSE 0)

(* Up to exit, what flushes have counted and what they still will is what happened. *)
EntriesCounted ==
    ~exited =>
        \A a \in Targets :
            flushed[a] + SumFunction([v \in Vcpus |-> Uncounted(v, a)])
              = SumFunction([v \in Vcpus |-> EntriesInto(truth[v], a)])

(* The rest of TypeOK: the flags and the derived counts. *)
CountsOK ==
    /\ writer \in {"none", "open"}
    /\ translated \in BOOLEAN
    /\ exited \in BOOLEAN
    /\ flushed \in [Targets -> Nat]
    /\ entries \in [Targets -> Nat]

(* What one vCPU adds, the total over the vCPUs adds. *)
LEMMA VcpuBump ==
    ASSUME NEW v \in Vcpus, NEW f, NEW g, NEW m \in Nat, DOMAIN f = Vcpus, DOMAIN g = Vcpus,
           \A w \in Vcpus : f[w] \in Nat /\ g[w] = IF w = v THEN f[w] + m ELSE f[w]
    PROVE  SumFunction(g) = SumFunction(f) + m
<1>1. IsFiniteSet(Vcpus)
  BY FiniteAssumption
<1> QED
  BY <1>1, TotalBump

(* The sums over the vCPUs' tables are numbers. *)
LEMMA EntriesAreNumbers ==
    ASSUME TablesOK, NEW a
    PROVE  /\ \A v \in Vcpus : /\ EntriesInto(acc[v], a) \in Nat
                               /\ EntriesInto(batch[v], a) \in Nat
                               /\ EntriesInto(truth[v], a) \in Nat
                               /\ Uncounted(v, a) \in Nat
           /\ SumFunction([v \in Vcpus |-> EntriesInto(acc[v], a)]) \in Nat
           /\ SumFunction([v \in Vcpus |-> EntriesInto(truth[v], a)]) \in Nat
           /\ SumFunction([v \in Vcpus |-> Uncounted(v, a)]) \in Nat
<1>1. ASSUME NEW v \in Vcpus
      PROVE  /\ EntriesInto(acc[v], a) \in Nat
             /\ EntriesInto(batch[v], a) \in Nat
             /\ EntriesInto(truth[v], a) \in Nat
  <2>1. acc[v] \in [Edges -> Nat] /\ batch[v] \in [Edges -> Nat] /\ truth[v] \in [Edges -> Nat]
    BY DEF TablesOK
  <2> QED
    BY <2>1, EntriesFacts, FiniteAssumption
<1>2. \A v \in Vcpus : Uncounted(v, a) \in Nat
  BY <1>1 DEF Uncounted
<1>3. \A f : DOMAIN f = Vcpus /\ (\A v \in Vcpus : f[v] \in Nat) => SumFunction(f) \in Nat
  BY SumIsNat, FiniteAssumption DEF SumFunction
<1> QED
  BY <1>1, <1>2, <1>3

(* Types of the derived counts: the sums are numbers. *)
LEMMA CountsInvariant == Spec => []CountsOK
<1>1. Init => CountsOK
  <2> SUFFICES ASSUME Init PROVE CountsOK
    OBVIOUS
  <2>1. EmptyTable(Targets) \in [Targets -> Nat]
    BY DEF EmptyTable
  <2>2. translated \in BOOLEAN /\ exited \in BOOLEAN
    BY DEF Init
  <2> QED
    BY <2>1, <2>2 DEF Init, CountsOK
<1>2. TablesOK /\ CountsOK /\ [Next]_vars => CountsOK'
  <2> SUFFICES ASSUME TablesOK, CountsOK, [Next]_vars PROVE CountsOK'
    OBVIOUS
  <2>1. ASSUME NEW v \in Vcpus, InitWriter(v) PROVE CountsOK'
    <3>1. UNCHANGED <<flushed, exited, entries>>
      BY <2>1 DEF InitWriter, AlreadyInitialized, NotInitialized, CompareExchange,
                  OpenFile, OpenFails, PublishWriter, store, atexit
    <3>2. translated' = translated \/ translated' = TRUE
      BY <2>1, Zenon DEF InitWriter, AlreadyInitialized, NotInitialized, CompareExchange,
                  OpenFile, OpenFails, PublishWriter
    <3>3. writer' = writer \/ writer' = "open"
      BY <2>1, Zenon DEF InitWriter, AlreadyInitialized, NotInitialized, CompareExchange,
                  OpenFile, OpenFails, PublishWriter
    <3> QED
      BY <3>1, <3>2, <3>3 DEF CountsOK
  <2>2. ASSUME NEW v \in Vcpus, CountEntries(v) PROVE CountsOK'
    <3>1. ASSUME NEW a \in Targets PROVE flushed[a] + EntriesInto(batch[v], a) \in Nat
      <4>1. EntriesInto(batch[v], a) \in Nat
        BY EntriesAreNumbers
      <4> QED
        BY <4>1 DEF CountsOK
    <3>2. flushed' \in [Targets -> Nat]
      BY <2>2, <3>1 DEF CountEntries
    <3> QED
      BY <2>2, <3>2 DEF CountEntries, CountsOK, atexit
  <2>3. ASSUME NEW K \in SUBSET Edges, ExitWrite(K) PROVE CountsOK'
    <3>1. ASSUME NEW a \in Targets
          PROVE  flushed[a] + SumFunction([v \in Vcpus |-> EntriesInto(acc[v], a)]) \in Nat
      <4>1. SumFunction([v \in Vcpus |-> EntriesInto(acc[v], a)]) \in Nat
        BY EntriesAreNumbers
      <4> QED
        BY <4>1 DEF CountsOK
    <3>2. entries' \in [Targets -> Nat]
      BY <2>3, <3>1 DEF ExitWrite
    <3> QED
      BY <2>3, <3>2 DEF ExitWrite, CountsOK
  <2>4. CASE ExitWithoutWriter
    BY <2>4 DEF ExitWithoutWriter, CountsOK, store
  <2>5. CASE UNCHANGED <<writer, translated, exited, flushed, entries>>
    BY <2>5 DEF CountsOK
  <2>6. ASSUME NEW v \in Vcpus, NEW K \in SUBSET Edges, FinishFlush(v, K)
        PROVE  UNCHANGED <<writer, translated, exited, flushed, entries>>
    BY <2>6 DEF FinishFlush, atexit
  <2>7. ASSUME NEW v \in Vcpus, NEW e \in Edges, RecordEdge(v, e)
        PROVE  UNCHANGED <<writer, translated, exited, flushed, entries>>
    BY <2>7 DEF RecordEdge, atexit
  <2>8. UNCHANGED vars => UNCHANGED <<writer, translated, exited, flushed, entries>>
    BY DEF vars, store, atexit
  <2> QED
    BY <2>1, <2>2, <2>3, <2>4, <2>5, <2>6, <2>7, <2>8, FlushKinds, ExitKinds DEF Next
<1> QED
  BY <1>1, <1>2, TablesInvariant, PTL DEF Spec

(* The type invariant of the flushing machinery, the derived sums included. *)
THEOREM TypeInvariant == Spec => []TypeOK
<1>1. TablesOK /\ CountsOK => TypeOK
  BY DEF TablesOK, CountsOK, TypeOK
<1> QED
  BY <1>1, TablesInvariant, CountsInvariant, PTL

(* Recording an edge adds one entry to what happened and to what is not counted yet. *)
LEMMA RecordAddsEntry ==
    ASSUME TablesOK, NEW v \in Vcpus, NEW e \in Edges, RecordEdge(v, e), NEW a
    PROVE  /\ \A w \in Vcpus : EntriesInto(truth'[w], a) =
                 IF w = v THEN EntriesInto(truth[w], a) + (IF e[2] = a THEN 1 ELSE 0)
                          ELSE EntriesInto(truth[w], a)
           /\ \A w \in Vcpus : Uncounted(w, a)' =
                 IF w = v THEN Uncounted(w, a) + (IF e[2] = a THEN 1 ELSE 0) ELSE Uncounted(w, a)
<1> DEFINE t == Bump(acc[v], e)
           n == IF e[2] = a THEN 1 ELSE 0
<1>1. acc[v] \in [Edges -> Nat] /\ truth[v] \in [Edges -> Nat]
  BY DEF TablesOK
<1>2. /\ EntriesInto(t, a) = EntriesInto(acc[v], a) + n
      /\ EntriesInto(Bump(truth[v], e), a) = EntriesInto(truth[v], a) + n
      /\ EntriesInto(EmptyTable(Edges), a) = 0
      /\ EntriesInto(acc[v], a) \in Nat /\ n \in Nat
  BY <1>1, EntriesFacts, FiniteAssumption
<1>3. truth'[v] = Bump(truth[v], e) /\ \A w \in Vcpus : w # v => truth'[w] = truth[w]
  BY DEF RecordEdge, TablesOK
<1>4. pc[v] = "idle"
  BY DEF RecordEdge
<1>5. Uncounted(v, a) = EntriesInto(acc[v], a) + 0
  BY <1>4 DEF Uncounted
<1>6. CASE ShouldFlush(t, TRUE, TopN)
  <2>1. /\ acc' = [acc EXCEPT ![v] = EmptyTable(Edges)]
        /\ batch' = [batch EXCEPT ![v] = t]
        /\ pc' = [pc EXCEPT ![v] = "count"]
    BY <1>6 DEF RecordEdge
  <2> HIDE DEF t, n
  <2>2. /\ acc'[v] = EmptyTable(Edges) /\ batch'[v] = t /\ pc'[v] = "count"
        /\ \A w \in Vcpus : w # v => acc'[w] = acc[w] /\ batch'[w] = batch[w] /\ pc'[w] = pc[w]
    BY <2>1 DEF TablesOK
  <2>3. Uncounted(v, a)' = Uncounted(v, a) + n
    BY <1>2, <1>5, <2>2 DEF Uncounted
  <2>4. \A w \in Vcpus : w # v => Uncounted(w, a)' = Uncounted(w, a)
    BY <2>2 DEF Uncounted
  <2> QED
    BY <1>2, <1>3, <2>3, <2>4 DEF n
<1>7. CASE ~ShouldFlush(t, TRUE, TopN)
  <2>1. acc' = [acc EXCEPT ![v] = t] /\ batch' = batch /\ pc' = pc
    BY <1>7 DEF RecordEdge
  <2> HIDE DEF t, n
  <2>2. acc'[v] = t /\ \A w \in Vcpus : w # v => acc'[w] = acc[w]
    BY <2>1 DEF TablesOK
  <2>3. Uncounted(v, a)' = Uncounted(v, a) + n
    BY <1>2, <1>4, <1>5, <2>1, <2>2 DEF Uncounted
  <2>4. \A w \in Vcpus : w # v => Uncounted(w, a)' = Uncounted(w, a)
    BY <2>1, <2>2 DEF Uncounted
  <2> QED
    BY <1>2, <1>3, <2>3, <2>4 DEF n
<1> QED
  BY <1>6, <1>7

(* Entries are counted once: by the flush that drained them, before it writes. *)
LEMMA EntriesInvariant == Spec => []EntriesCounted
<1> DEFINE U(a) == [v \in Vcpus |-> Uncounted(v, a)]
           R(a) == [v \in Vcpus |-> EntriesInto(truth[v], a)]
<1>1. Init => EntriesCounted
  <2> SUFFICES ASSUME Init, NEW a \in Targets
               PROVE  flushed[a] + SumFunction(U(a)) = SumFunction(R(a))
    BY DEF EntriesCounted
  <2>1. \A v \in Vcpus : /\ acc[v] = EmptyTable(Edges) /\ truth[v] = EmptyTable(Edges)
                         /\ pc[v] = "idle"
    BY DEF Init, Zero
  <2>2. EntriesInto(EmptyTable(Edges), a) = 0
    BY EmptyIsTable, EntriesFacts, FiniteAssumption
  <2>3. U(a) = R(a) /\ \A v \in Vcpus : R(a)[v] = 0
    BY <2>1, <2>2 DEF Uncounted
  <2>4. SumFunction(R(a)) \in Nat
    <3>1. DOMAIN R(a) = Vcpus /\ \A v \in Vcpus : R(a)[v] \in Nat
      BY <2>3
    <3> HIDE DEF R
    <3> QED
      BY <3>1, SumIsNat, FiniteAssumption DEF SumFunction
  <2>5. flushed[a] = 0
    BY DEF Init, EmptyTable
  <2> HIDE DEF U, R
  <2> QED
    BY <2>3, <2>4, <2>5
<1>2. TablesOK /\ CountsOK /\ EntriesCounted /\ [Next]_vars => EntriesCounted'
  <2> SUFFICES ASSUME TablesOK, CountsOK, EntriesCounted, [Next]_vars, ~exited',
                      NEW a \in Targets
               PROVE  flushed'[a] + SumFunction(U(a)') = SumFunction(R(a)')
    BY DEF EntriesCounted
  <2> DEFINE u0 == U(a)
             u1 == U(a)'
             r0 == R(a)
             r1 == R(a)'
  <2>1. /\ DOMAIN u0 = Vcpus /\ DOMAIN u1 = Vcpus /\ DOMAIN r0 = Vcpus /\ DOMAIN r1 = Vcpus
        /\ \A v \in Vcpus : /\ u0[v] = Uncounted(v, a) /\ u1[v] = Uncounted(v, a)'
                            /\ r0[v] = EntriesInto(truth[v], a) /\ r1[v] = EntriesInto(truth'[v], a)
    OBVIOUS
  <2>2. /\ \A v \in Vcpus : u0[v] \in Nat /\ r0[v] \in Nat /\ EntriesInto(batch[v], a) \in Nat
        /\ SumFunction(u0) \in Nat /\ SumFunction(r0) \in Nat
    BY EntriesAreNumbers
  <2>3. flushed[a] \in Nat
    BY DEF CountsOK
  <2>4. ~exited => flushed[a] + SumFunction(u0) = SumFunction(r0)
    BY DEF EntriesCounted
  <2> SUFFICES flushed'[a] + SumFunction(u1) = SumFunction(r1)
    OBVIOUS
  <2> HIDE DEF u0, u1, r0, r1, U, R
  <2>5. ASSUME NEW v \in Vcpus, NEW e \in Edges, RecordEdge(v, e)
        PROVE  flushed'[a] + SumFunction(u1) = SumFunction(r1)
    <3> DEFINE n == IF e[2] = a THEN 1 ELSE 0
    <3>1. n \in Nat
      OBVIOUS
    <3>2. /\ \A w \in Vcpus : r0[w] \in Nat /\ r1[w] = IF w = v THEN r0[w] + n ELSE r0[w]
          /\ \A w \in Vcpus : u0[w] \in Nat /\ u1[w] = IF w = v THEN u0[w] + n ELSE u0[w]
      BY <2>1, <2>2, <2>5, RecordAddsEntry
    <3>3. DOMAIN r0 = Vcpus /\ DOMAIN r1 = Vcpus /\ DOMAIN u0 = Vcpus /\ DOMAIN u1 = Vcpus
      BY <2>1
    <3> HIDE DEF n
    <3>4. SumFunction(r1) = SumFunction(r0) + n /\ SumFunction(u1) = SumFunction(u0) + n
      <4>1. /\ DOMAIN r0 = Vcpus /\ DOMAIN r1 = Vcpus
            /\ \A w \in Vcpus : r0[w] \in Nat /\ r1[w] = IF w = v THEN r0[w] + n ELSE r0[w]
        BY <3>2, <3>3
      <4>2. /\ DOMAIN u0 = Vcpus /\ DOMAIN u1 = Vcpus
            /\ \A w \in Vcpus : u0[w] \in Nat /\ u1[w] = IF w = v THEN u0[w] + n ELSE u0[w]
        BY <3>2, <3>3
      <4>3. SumFunction(r1) = SumFunction(r0) + n
        BY <3>1, <4>1, VcpuBump
      <4>4. SumFunction(u1) = SumFunction(u0) + n
        BY <3>1, <4>2, VcpuBump
      <4> QED
        BY <4>3, <4>4
    <3>5. flushed' = flushed /\ ~exited
      BY <2>5 DEF RecordEdge
    <3> QED
      BY <2>2, <2>3, <2>4, <3>1, <3>4, <3>5
  <2>6. ASSUME NEW v \in Vcpus, CountEntries(v), ~exited
        PROVE  flushed'[a] + SumFunction(u1) = SumFunction(r1)
    <3> DEFINE n == EntriesInto(batch[v], a)
    <3>1. flushed'[a] = flushed[a] + n /\ truth' = truth
      BY <2>6 DEF CountEntries
    <3>2. /\ pc[v] = "count" /\ acc' = acc /\ batch' = batch
          /\ pc'[v] = "write" /\ \A w \in Vcpus : w # v => pc'[w] = pc[w]
      BY <2>6 DEF CountEntries, TablesOK
    <3>3. n \in Nat
      BY <2>2
    <3>4. \A w \in Vcpus : EntriesInto(acc[w], a) \in Nat
      BY EntriesAreNumbers
    <3> HIDE DEF n
    <3>5. \A w \in Vcpus : u1[w] \in Nat /\ u0[w] = IF w = v THEN u1[w] + n ELSE u1[w]
      <4> TAKE w \in Vcpus
      <4>1. CASE w = v
        BY <2>1, <3>2, <3>3, <3>4, <4>1 DEF Uncounted, n
      <4>2. CASE w # v
        BY <2>1, <2>2, <3>2, <4>2 DEF Uncounted
      <4> QED
        BY <4>1, <4>2
    <3>6. SumFunction(u0) = SumFunction(u1) + n
      <4>1. DOMAIN u1 = Vcpus /\ DOMAIN u0 = Vcpus
        BY <2>1
      <4> QED
        BY <3>3, <3>5, <4>1, VcpuBump
    <3>7. r1 = r0
      BY <3>1 DEF r0, r1, R
    <3>8. SumFunction(u1) \in Nat
      BY <2>1, <3>5, SumIsNat, FiniteAssumption DEF SumFunction
    <3> QED
      BY <2>3, <2>4, <2>6, <3>1, <3>3, <3>6, <3>7, <3>8
  <2>7. ASSUME UNCHANGED <<acc, batch, truth, flushed>>, ~exited,
               \A w \in Vcpus : pc'[w] = "count" <=> pc[w] = "count"
        PROVE  flushed'[a] + SumFunction(u1) = SumFunction(r1)
    <3>1. \A w \in Vcpus : Uncounted(w, a)' = Uncounted(w, a)
      BY <2>7 DEF Uncounted
    <3>2. u1 = u0
      BY <3>1 DEF u0, u1, U
    <3>3. r1 = r0
      BY <2>7 DEF r0, r1, R
    <3> QED
      BY <2>4, <2>7, <3>2, <3>3
  <2>8. ASSUME NEW v \in Vcpus, NEW K \in SUBSET Edges, FinishFlush(v, K), ~exited
        PROVE  flushed'[a] + SumFunction(u1) = SumFunction(r1)
    <3>1. /\ pc[v] = "write" /\ pc'[v] = "idle" /\ UNCHANGED <<acc, truth, flushed>>
          /\ \A w \in Vcpus : w # v => pc'[w] = pc[w] /\ batch'[w] = batch[w]
      BY <2>8 DEF FinishFlush, TablesOK
    <3>2. \A w \in Vcpus : Uncounted(w, a)' = Uncounted(w, a)
      BY <3>1 DEF Uncounted
    <3>3. u1 = u0
      BY <3>2 DEF u0, u1, U
    <3>4. r1 = r0
      BY <3>1 DEF r0, r1, R
    <3> QED
      BY <2>4, <2>8, <3>1, <3>3, <3>4
  <2>9. ASSUME NEW v \in Vcpus, InitWriter(v), ~exited
        PROVE  flushed'[a] + SumFunction(u1) = SumFunction(r1)
    <3>1. /\ UNCHANGED <<acc, batch, truth, flushed>>
          /\ \A w \in Vcpus : pc'[w] = "count" <=> pc[w] = "count"
      BY <2>9 DEF InitWriter, AlreadyInitialized, NotInitialized, CompareExchange,
                  OpenFile, OpenFails, PublishWriter, store, TablesOK
    <3> QED
      BY <2>7, <2>9, <3>1
  <2>10. ~(ExitWithoutWriter \/ PluginExit \/ ExitWriteFails)
    BY DEF ExitWithoutWriter, PluginExit, ExitWriteFails, ExitWrite
  <2>11. CASE UNCHANGED vars
    BY <2>7, <2>11 DEF vars, store, atexit
  <2>12. ~exited
    <3>1. exited' = exited \/ exited' = TRUE
      BY DEF Next, InitWriter, AlreadyInitialized, NotInitialized, CompareExchange, OpenFile,
             OpenFails, PublishWriter, RecordEdge, FlushEdges, CountEntries, WriteBatch, WriteFails,
             NoWriter, FinishFlush, ExitWithoutWriter, PluginExit, ExitWriteFails, ExitWrite,
             vars, atexit
    <3> QED
      BY <3>1
  <2> QED
    BY <2>5, <2>6, <2>8, <2>9, <2>10, <2>11, <2>12, FlushKinds DEF Next
<1> QED
  BY <1>1, <1>2, TablesInvariant, CountsInvariant, PTL DEF Spec

(***************************************************************************)
(* EntriesExact: for any vCPUs, edges and threshold the branch entries     *)
(* that plugin_exit uses are those that happened, although batches may     *)
(* have been lost on their way to the file.                                *)
(***************************************************************************)
THEOREM ExitEntriesExact == Spec => []EntriesExact
<1>1. Init => EntriesExact
  BY DEF Init, EntriesExact
<1>2. TablesOK /\ EntriesCounted /\ ExitQuiet /\ EntriesExact /\ [Next]_vars => EntriesExact'
  <2> SUFFICES ASSUME TablesOK, EntriesCounted, ExitQuiet, EntriesExact, [Next]_vars
               PROVE  EntriesExact'
    OBVIOUS
  <2>1. ASSUME NEW K \in SUBSET Edges, ExitWrite(K) PROVE EntriesExact'
    <3> SUFFICES ASSUME NEW a \in Targets
                 PROVE  entries'[a] = SumFunction([v \in Vcpus |-> EntriesInto(truth'[v], a)])
      BY DEF EntriesExact
    <3>1. /\ entries'[a] = flushed[a] + SumFunction([v \in Vcpus |-> EntriesInto(acc[v], a)])
          /\ truth' = truth /\ ~exited /\ \A v \in Vcpus : pc[v] = "idle"
      BY <2>1 DEF ExitWrite, Quiescent
    <3>2. \A v \in Vcpus : Uncounted(v, a) = EntriesInto(acc[v], a)
      <4> TAKE v \in Vcpus
      <4>1. EntriesInto(acc[v], a) \in Nat /\ pc[v] = "idle"
        BY <3>1, EntriesAreNumbers
      <4> QED
        BY <4>1 DEF Uncounted
    <3>3. [v \in Vcpus |-> Uncounted(v, a)] = [v \in Vcpus |-> EntriesInto(acc[v], a)]
      BY <3>2
    <3> QED
      BY <3>1, <3>3 DEF EntriesCounted
  <2>2. CASE ~exited'
    BY <2>2 DEF EntriesExact
  <2>3. CASE UNCHANGED <<exited, writer, entries, truth>>
    BY <2>3 DEF EntriesExact
  <2>4. CASE ExitWithoutWriter
    BY <2>4 DEF ExitWithoutWriter, EntriesExact
  <2>5. ASSUME NEW v \in Vcpus, InitWriter(v) PROVE ~exited' \/ UNCHANGED <<exited, writer, entries, truth>>
    BY <2>5 DEF InitWriter, AlreadyInitialized, NotInitialized, CompareExchange, OpenFile,
                OpenFails, PublishWriter, ExitQuiet, store, atexit
  <2>6. ASSUME NEW v \in Vcpus, FlushEdges(v) PROVE UNCHANGED <<exited, writer, entries, truth>>
    BY <2>6 DEF FlushEdges, CountEntries, WriteBatch, WriteFails, NoWriter, FinishFlush, atexit
  <2>7. ASSUME NEW v \in Vcpus, NEW e \in Edges, RecordEdge(v, e) PROVE ~exited'
    BY <2>7 DEF RecordEdge, atexit
  <2>8. UNCHANGED vars => UNCHANGED <<exited, writer, entries, truth>>
    BY DEF vars, store, atexit
  <2> QED
    BY <2>1, <2>2, <2>3, <2>4, <2>5, <2>6, <2>7, <2>8, ExitKinds DEF Next
<1> QED
  BY <1>1, <1>2, TablesInvariant, EntriesInvariant, ExitQuietInvariant, PTL DEF Spec
=============================================================================
