-------------------------- MODULE SharedMapsProofs --------------------------
(* Proofs about SharedMaps, for any vCPUs, blocks and largest symbol id. *)
EXTENDS SharedMaps, TLAPS

(* The actions of a vCPU, grouped by what they do to locks and symbols. *)
LEMMA NextCases ==
    ASSUME Next
    PROVE  \/ \E v \in Vcpus, b \in Tbs :
                NoSymbol(v, b) \/ InternHit(v, b) \/ InternFull(v, b) \/ InternNew(v, b)
           \/ \E v \in Vcpus : InternInsert(v) \/ MapTb(v) \/ NoteCalls(v) \/ SetFlags(v)
           \/ \E v \in Vcpus : WriteBatch(v) \/ CountEntries(v) \/ PublishWriter(v)
           \/ \E v \in Vcpus, b \in Tbs, d \in Devices : MemAccess(v, b, d)
           \/ \E v \in Vcpus, e \in Events : Discon(v, e)
           \/ ExitBegin \/ ExitStep
  BY DEF Next, Continue

(* The symbol of a block that has one is a name. *)
LEMMA SymbolIsName == \A b \in Tbs : SymbolOf[b] # NoName => SymbolOf[b] \in Names
  BY DEF Names

(* A translation under way has its block. *)
LEMMA CurrentBlock ==
    ASSUME TypeOK, NEW v \in Vcpus, pc[v] \notin {"idle", "write"}
    PROVE  cur[v][1] \in Tbs
<1>1. cur[v] \in Seq(Tbs) /\ Len(cur[v]) = 1
  BY DEF TypeOK
<1> QED
  BY <1>1

(***************************************************************************)
(* Type correctness: in particular every id in symbol_ids fits 16 bits and *)
(* every translation in progress has its block.                            *)
(***************************************************************************)
THEOREM TypeInvariant == Spec => []TypeOK
<1> USE DEF Locks, ExitPcs, SymIds
<1>1. Init => TypeOK
  <2> SUFFICES ASSUME Init PROVE TypeOK
    OBVIOUS
  <2>1. /\ held \in [Locks -> Vcpus \cup {Exit, Free}]
        /\ pc \in [Vcpus -> {"idle", "symbols", "map", "calls", "flags", "write"}]
        /\ cur \in [Vcpus -> Seq(Tbs)]
        /\ \A v \in Vcpus : pc[v] = "idle"
    BY DEF Init
  <2>2. /\ ids \in [Names -> 0 .. MaxSymId]
        /\ symbols \in [SymIds -> Names \cup {NoName}]
        /\ next_sym_id \in Nat \ {0}
        /\ tb_map \subseteq Tbs
        /\ exitPc \in ExitPcs
        /\ given \in [Names -> SUBSET Nat]
    BY MaxSymIdAssumption DEF Init
  <2> QED
    BY <2>1, <2>2 DEF TypeOK
<1>2. TypeOK /\ [Next]_vars => TypeOK'
  <2> SUFFICES ASSUME TypeOK, [Next]_vars PROVE TypeOK'
    OBVIOUS
  <2> USE MaxSymIdAssumption, SymbolIsName DEF TypeOK, interning, tier3, leaving
  <2>0. ASSUME NEW v \in Vcpus, NEW b \in Tbs, NoSymbol(v, b) PROVE TypeOK'
    BY <2>0 DEF NoSymbol, Begin
  <2>1. ASSUME NEW v \in Vcpus, NEW b \in Tbs, InternHit(v, b) PROVE TypeOK'
    BY <2>1 DEF InternHit, InternBegin, Interned, Begin
  <2>2. ASSUME NEW v \in Vcpus, NEW b \in Tbs, InternFull(v, b) PROVE TypeOK'
    BY <2>2 DEF InternFull, InternBegin, Interned, Begin
  <2>3. ASSUME NEW v \in Vcpus, NEW b \in Tbs, InternNew(v, b) PROVE TypeOK'
    BY <2>3 DEF InternNew, InternBegin, Begin, Full
  <2>4. ASSUME NEW v \in Vcpus, InternInsert(v) PROVE TypeOK'
    <3> DEFINE n0 == SymbolOf[cur[v][1]]
    <3>1. cur[v][1] \in Tbs
      BY <2>4, CurrentBlock DEF InternInsert
    <3>2. n0 \in Names \cup {NoName}
      BY <3>1
    <3>3. symbols' \in [SymIds -> Names \cup {NoName}]
      BY <2>4, <3>2 DEF InternInsert
    <3>4. given' \in [Names -> SUBSET Nat]
      <4>1. given' = [given EXCEPT ![n0] = @ \cup {ids[n0]}]
        BY <2>4 DEF InternInsert, Interned
      <4>2. n0 \in Names => ids[n0] \in Nat
        OBVIOUS
      <4> HIDE DEF n0
      <4> QED
        BY <4>1, <4>2
    <3>5. UNCHANGED <<cur, ids, next_sym_id, tb_map, exitPc>>
      BY <2>4 DEF InternInsert
    <3>6. pc' = [pc EXCEPT ![v] = "map"] /\ held' = [held EXCEPT !["symbol_ids"] = Free]
      BY <2>4 DEF InternInsert, Interned
    <3> QED
      BY <2>4, <3>3, <3>4, <3>5, <3>6 DEF InternInsert
  <2>5. ASSUME NEW v \in Vcpus, MapTb(v) PROVE TypeOK'
    BY <2>5, CurrentBlock DEF MapTb
  <2>6. ASSUME NEW v \in Vcpus, NoteCalls(v) PROVE TypeOK'
    BY <2>6 DEF NoteCalls
  <2>7. ASSUME NEW v \in Vcpus, SetFlags(v) PROVE TypeOK'
    BY <2>7 DEF SetFlags
  <2>8. ASSUME NEW v \in Vcpus, WriteBatch(v) \/ CountEntries(v) PROVE TypeOK'
    BY <2>8 DEF WriteBatch, CountEntries, Begin
  <2>9. CASE UNCHANGED <<held, pc, cur, interning, tb_map, exitPc>>
    BY <2>9
  <2>10. ASSUME NEW v \in Vcpus, PublishWriter(v) PROVE TypeOK'
    BY <2>9, <2>10 DEF PublishWriter
  <2>11. ASSUME NEW v \in Vcpus, NEW b \in Tbs, NEW d \in Devices, MemAccess(v, b, d) PROVE TypeOK'
    BY <2>9, <2>11 DEF MemAccess
  <2>12. ASSUME NEW v \in Vcpus, NEW e \in Events, Discon(v, e) PROVE TypeOK'
    BY <2>9, <2>12 DEF Discon
  <2>13. CASE ExitBegin
    BY <2>13 DEF ExitBegin
  <2>14. CASE ExitStep
    <3>1. UNCHANGED <<pc, cur, interning, tb_map>> /\ exitPc' \in ExitPcs
      BY <2>14 DEF ExitStep, ExitTakes, ExitSymbols, ExitTbs, ExitTakeFlushed, ExitFallThroughs,
                   ExitTakeDirect, ExitDirectCalls, ExitResources, ExitDevices, ExitEvents
    <3>2. held' \in [Locks -> Vcpus \cup {Exit, Free}]
      <4>1. CASE ExitSymbols \/ ExitTbs \/ ExitResources
        BY <4>1 DEF ExitSymbols, ExitTbs, ExitResources
      <4>2. CASE ExitTakeFlushed \/ ExitFallThroughs
        BY <4>2 DEF ExitTakeFlushed, ExitFallThroughs
      <4>3. CASE ExitTakeDirect \/ ExitDirectCalls
        BY <4>3 DEF ExitTakeDirect, ExitDirectCalls
      <4>4. CASE ExitDevices
        BY <4>4 DEF ExitDevices
      <4>5. CASE ExitEvents
        BY <4>5 DEF ExitEvents
      <4> QED
        BY <2>14, <4>1, <4>2, <4>3, <4>4, <4>5 DEF ExitStep
    <3> QED
      BY <3>1, <3>2
  <2>15. CASE UNCHANGED vars
    BY <2>9, <2>15 DEF vars
  <2> QED
    BY <2>0, <2>1, <2>2, <2>3, <2>4, <2>5, <2>6, <2>7, <2>8, <2>10, <2>11, <2>12, <2>13, <2>14, <2>15,
       NextCases
<1> QED
  BY <1>1, <1>2, PTL DEF Spec
-----------------------------------------------------------------------------
(***************************************************************************)
(* Who may hold what between two steps.  A vCPU keeps only symbol_ids, and *)
(* only while it inserts into symbols; plugin_exit keeps the writer, and   *)
(* each other lock only while it reads what it needs with it.              *)
(***************************************************************************)
LocksKept ==
    /\ \A l \in Locks, v \in Vcpus : held[l] = v => l = "symbol_ids" /\ pc[v] = "symbols"
    /\ \A v \in Vcpus : pc[v] = "symbols" => held["symbol_ids"] = v
    /\ held["symbol_ids"] # Exit
    /\ held["symbols"] = Free /\ held["tb_map"] = Free /\ held["discon_events"] = Free
    /\ held["flushed_branch_entries"] = Exit => exitPc = "fall_throughs"
    /\ held["direct_calls"] = Exit => exitPc = "weights"
    /\ held["device_accesses"] = Exit => exitPc = "events"

LEMMA LocksKeptInvariant == Spec => []LocksKept
<1> USE DEF Locks, LocksKept
<1>1. Init => LocksKept
  BY ThreadsAssumption DEF Init
<1>2. TypeOK /\ LocksKept /\ [Next]_vars => LocksKept'
  <2> SUFFICES ASSUME TypeOK, LocksKept, [Next]_vars PROVE LocksKept'
    OBVIOUS
  <2> USE ThreadsAssumption DEF TypeOK, leaving
  <2>0. ASSUME NEW v \in Vcpus, NEW b \in Tbs, NoSymbol(v, b) PROVE LocksKept'
    BY <2>0 DEF NoSymbol, Begin
  <2>1. ASSUME NEW v \in Vcpus, NEW b \in Tbs, InternHit(v, b) PROVE LocksKept'
    BY <2>1 DEF InternHit, InternBegin, Interned, Begin
  <2>2. ASSUME NEW v \in Vcpus, NEW b \in Tbs, InternFull(v, b) PROVE LocksKept'
    BY <2>2 DEF InternFull, InternBegin, Interned, Begin
  <2>3. ASSUME NEW v \in Vcpus, NEW b \in Tbs, InternNew(v, b) PROVE LocksKept'
    BY <2>3 DEF InternNew, InternBegin, Begin
  <2>4. ASSUME NEW v \in Vcpus, InternInsert(v) PROVE LocksKept'
    BY <2>4 DEF InternInsert, Interned
  <2>5. ASSUME NEW v \in Vcpus, MapTb(v) \/ NoteCalls(v) \/ SetFlags(v) PROVE LocksKept'
    BY <2>5 DEF MapTb, NoteCalls, SetFlags
  <2>6. ASSUME NEW v \in Vcpus, WriteBatch(v) \/ CountEntries(v) PROVE LocksKept'
    BY <2>6 DEF WriteBatch, CountEntries, Begin
  <2>7. CASE UNCHANGED <<held, pc, exitPc>>
    BY <2>7
  <2>8. ASSUME NEW v \in Vcpus, PublishWriter(v) PROVE LocksKept'
    BY <2>7, <2>8 DEF PublishWriter
  <2>9. ASSUME NEW v \in Vcpus, NEW b \in Tbs, NEW d \in Devices, MemAccess(v, b, d) PROVE LocksKept'
    BY <2>7, <2>9 DEF MemAccess
  <2>10. ASSUME NEW v \in Vcpus, NEW e \in Events, Discon(v, e) PROVE LocksKept'
    BY <2>7, <2>10 DEF Discon
  <2>11. CASE ExitBegin
    BY <2>11 DEF ExitBegin
  <2>12. CASE ExitSymbols \/ ExitTbs \/ ExitResources
    BY <2>12 DEF ExitTakes, ExitSymbols, ExitTbs, ExitResources
  <2>13. CASE ExitTakeFlushed \/ ExitFallThroughs
    BY <2>13 DEF ExitTakes, ExitTakeFlushed, ExitFallThroughs
  <2>14. CASE ExitTakeDirect \/ ExitDirectCalls
    BY <2>14 DEF ExitTakes, ExitTakeDirect, ExitDirectCalls
  <2>15. CASE ExitDevices
    BY <2>15 DEF ExitTakes, ExitDevices
  <2>17. CASE ExitEvents
    <3>1. /\ UNCHANGED pc /\ exitPc' = "done"
          /\ held' = [held EXCEPT !["device_accesses"] = Free, !["writer"] = Free]
      BY <2>17 DEF ExitTakes, ExitEvents
    <3>2. \A l \in Locks : held'[l] = IF l \in {"device_accesses", "writer"} THEN Free ELSE held[l]
      BY <3>1
    <3>3. exitPc = "events"
      BY <2>17 DEF ExitTakes, ExitEvents
    <3> QED
      BY <3>1, <3>2, <3>3
  <2>16. CASE UNCHANGED vars
    BY <2>7, <2>16 DEF vars
  <2> QED
    BY <2>0, <2>1, <2>2, <2>3, <2>4, <2>5, <2>6, <2>8, <2>9, <2>10, <2>11, <2>12, <2>13, <2>14, <2>15, <2>16,
       <2>17, NextCases DEF ExitStep
<1> QED
  BY <1>1, <1>2, TypeInvariant, PTL DEF Spec

(***************************************************************************)
(* NoWaitCycle: for any number of vCPUs the mutexes never deadlock.        *)
(* plugin_exit never waits for a held lock, and every other thread that    *)
(* waits, waits for plugin_exit.                                           *)
(***************************************************************************)
THEOREM NoDeadlock == Spec => []NoWaitCycle
<1>1. TypeOK /\ LocksKept => NoWaitCycle
  <2> SUFFICES ASSUME TypeOK, LocksKept, NEW S \in SUBSET (Vcpus \cup {Exit}), S # {}
               PROVE  \E t \in S : ~(Waits(t) /\ held[Needs(t)] \in S)
    BY DEF NoWaitCycle
  <2> USE ThreadsAssumption DEF TypeOK, LocksKept, Locks
  <2>1. CASE Exit \in S
    <3>1. ~Waits(Exit)
      BY DEF Waits, Needs
    <3> QED
      BY <2>1, <3>1
  <2>2. CASE Exit \notin S
    <3>1. PICK t \in S : TRUE
      OBVIOUS
    <3>2. t \in Vcpus /\ t # Exit
      BY <2>2, <3>1
    <3>3. Needs(t) \in {"none", "symbols", "tb_map", "direct_calls", "writer"}
      BY <3>2 DEF Needs
    <3>4. Waits(t) => held[Needs(t)] = Exit
      BY <3>3 DEF Waits
    <3> QED
      BY <2>2, <3>4
  <2> QED
    BY <2>1, <2>2
<1> QED
  BY <1>1, TypeInvariant, LocksKeptInvariant, PTL
-----------------------------------------------------------------------------
(***************************************************************************)
(* Why ids are stable.  Ids below the counter are in use, each by one      *)
(* name; a name is given its id in symbol_ids and no other; 0 is given     *)
(* only after the counter has passed the last id; and between the two      *)
(* insertions of intern_symbol an id may be missing in symbols only while  *)
(* its vCPU still holds symbol_ids.                                        *)
(***************************************************************************)
Inserting(v, n) == pc[v] = "symbols" /\ SymbolOf[cur[v][1]] = n

IdsConsistent ==
    /\ \A n \in Names : ids[n] < next_sym_id
    /\ \A n, m \in Names : ids[n] # 0 /\ ids[n] = ids[m] => n = m
    /\ \A j \in SymIds : j < next_sym_id => \E m \in Names : ids[m] = j
    /\ \A n \in Names : \A i \in given[n] : i = ids[n] /\ (i = 0 => Full(next_sym_id))
    /\ \A n \in Names : \A i \in given[n] : i # 0 => symbols[i] = n
    /\ \A n \in Names : ids[n] # 0 => symbols[ids[n]] = n \/ \E v \in Vcpus : Inserting(v, n)
    /\ \A v \in Vcpus : pc[v] = "symbols" => SymbolOf[cur[v][1]] \in Names /\ ids[SymbolOf[cur[v][1]]] # 0

LEMMA IdsConsistentInvariant == Spec => []IdsConsistent
<1>1. Init => IdsConsistent
  BY DEF Init, IdsConsistent, SymIds
<1>2. TypeOK /\ LocksKept /\ IdsConsistent /\ [Next]_vars => IdsConsistent'
  <2> SUFFICES ASSUME TypeOK, LocksKept, IdsConsistent, [Next]_vars PROVE IdsConsistent'
    OBVIOUS
  <2> USE MaxSymIdAssumption, SymbolIsName
  <2>1. ASSUME NEW v \in Vcpus, NEW b \in Tbs, InternHit(v, b) PROVE IdsConsistent'
    <3>1. \A w \in Vcpus : pc[w] # "symbols" /\ pc'[w] # "symbols"
      BY <2>1, ThreadsAssumption DEF InternHit, InternBegin, Begin, LocksKept, TypeOK, Interned
    <3>2. UNCHANGED <<ids, symbols, next_sym_id>>
      BY <2>1 DEF InternHit
    <3>3. /\ given' = [given EXCEPT ![SymbolOf[b]] = @ \cup {ids[SymbolOf[b]]}]
          /\ ids[SymbolOf[b]] # 0 /\ SymbolOf[b] \in Names
      BY <2>1 DEF InternHit, InternBegin, Interned
    <3>4. \A n \in Names : ids[n] # 0 => symbols[ids[n]] = n
      BY <3>1 DEF IdsConsistent, Inserting
    <3> QED
      BY <3>1, <3>2, <3>3, <3>4 DEF IdsConsistent, TypeOK
  <2>2. ASSUME NEW v \in Vcpus, NEW b \in Tbs, InternFull(v, b) PROVE IdsConsistent'
    <3>1. \A w \in Vcpus : pc[w] # "symbols" /\ pc'[w] # "symbols"
      BY <2>2, ThreadsAssumption DEF InternFull, InternBegin, Begin, LocksKept, TypeOK, Interned
    <3>2. UNCHANGED <<ids, symbols>> /\ next_sym_id' = next_sym_id + 1 /\ next_sym_id > MaxSymId
      BY <2>2 DEF InternFull, Full
    <3>3. /\ given' = [given EXCEPT ![SymbolOf[b]] = @ \cup {0}]
          /\ ids[SymbolOf[b]] = 0 /\ SymbolOf[b] \in Names
      BY <2>2 DEF InternFull, InternBegin, Interned
    <3>4. \A n \in Names : ids[n] # 0 => symbols[ids[n]] = n
      BY <3>1 DEF IdsConsistent, Inserting
    <3> QED
      BY <3>1, <3>2, <3>3, <3>4 DEF IdsConsistent, TypeOK, SymIds, Full
  <2>3. ASSUME NEW v \in Vcpus, NEW b \in Tbs, InternNew(v, b) PROVE IdsConsistent'
    <3> DEFINE n0 == SymbolOf[b]
    <3>1. \A w \in Vcpus : pc[w] # "symbols"
      BY <2>3, ThreadsAssumption DEF InternNew, InternBegin, LocksKept, TypeOK
    <3>2. /\ n0 \in Names /\ ids[n0] = 0
          /\ next_sym_id \in SymIds /\ next_sym_id' = next_sym_id + 1
          /\ ids' = [ids EXCEPT ![n0] = next_sym_id]
          /\ UNCHANGED <<symbols, given>>
      BY <2>3 DEF InternNew, InternBegin, Full, TypeOK, SymIds
    <3>3. given[n0] = {}
      BY <2>3, <3>2 DEF InternNew, IdsConsistent, TypeOK
    <3>4. \A m \in Names : ids'[m] = IF m = n0 THEN next_sym_id ELSE ids[m]
      BY <3>2 DEF TypeOK
    <3>5. cur'[v] = <<b>> /\ pc'[v] = "symbols"
      BY <2>3 DEF InternNew, InternBegin, TypeOK
    <3>6. \A w \in Vcpus : pc'[w] = "symbols" => w = v
      BY <2>3, <3>1 DEF InternNew, TypeOK
    <3>7. Inserting(v, n0)'
      BY <3>5 DEF Inserting
    <3>8. \A n \in Names : ids[n] # 0 => symbols[ids[n]] = n
      BY <3>1 DEF IdsConsistent, Inserting
    <3>9. SymbolOf[cur'[v][1]] = n0
      BY <3>5
    <3> HIDE DEF n0
    <3>10. \A n \in Names : ids'[n] < next_sym_id'
      BY <3>2, <3>4 DEF IdsConsistent, TypeOK
    <3>11. \A n, m \in Names : ids'[n] # 0 /\ ids'[n] = ids'[m] => n = m
      BY <3>2, <3>4 DEF IdsConsistent, TypeOK
    <3>12. \A j \in SymIds : j < next_sym_id' => \E m \in Names : ids'[m] = j
      <4> SUFFICES ASSUME NEW j \in SymIds, j < next_sym_id' PROVE \E m \in Names : ids'[m] = j
        OBVIOUS
      <4>1. CASE j = next_sym_id
        BY <3>2, <3>4, <4>1
      <4>2. CASE j < next_sym_id
        <5>1. PICK m \in Names : ids[m] = j
          BY <4>2 DEF IdsConsistent
        <5>2. m # n0
          BY <3>2, <5>1 DEF SymIds
        <5> QED
          BY <3>4, <5>1, <5>2
      <4> QED
        BY <3>2, <4>1, <4>2 DEF TypeOK, SymIds
    <3>13. \A n \in Names : \A i \in given'[n] : i = ids'[n] /\ (i = 0 => Full(next_sym_id'))
      BY <3>2, <3>3, <3>4 DEF IdsConsistent, TypeOK, Full
    <3>14. \A n \in Names : \A i \in given'[n] : i # 0 => symbols'[i] = n
      BY <3>2 DEF IdsConsistent
    <3>15. \A n \in Names : ids'[n] # 0 =>
              symbols'[ids'[n]] = n \/ \E w \in Vcpus : Inserting(w, n)'
      BY <3>2, <3>4, <3>7, <3>8
    <3>16. \A w \in Vcpus : pc'[w] = "symbols" =>
              SymbolOf[cur'[w][1]] \in Names /\ ids'[SymbolOf[cur'[w][1]]] # 0
      BY <3>2, <3>4, <3>6, <3>9 DEF TypeOK
    <3> QED
      BY <3>10, <3>11, <3>12, <3>13, <3>14, <3>15, <3>16 DEF IdsConsistent
  <2>4. ASSUME NEW v \in Vcpus, InternInsert(v) PROVE IdsConsistent'
    <3> DEFINE n0 == SymbolOf[cur[v][1]]
    <3>1. n0 \in Names /\ ids[n0] \in SymIds
      <4>1. pc[v] = "symbols"
        BY <2>4 DEF InternInsert
      <4>2. ids[n0] # 0
        BY <4>1 DEF IdsConsistent
      <4>3. n0 \in Names
        BY <4>1 DEF IdsConsistent
      <4>4. ids[n0] \in 0 .. MaxSymId
        BY <4>3 DEF TypeOK
      <4> QED
        BY <4>2, <4>3, <4>4, MaxSymIdAssumption DEF SymIds
    <3>2. /\ symbols' = [symbols EXCEPT ![ids[n0]] = n0]
          /\ given' = [given EXCEPT ![n0] = @ \cup {ids[n0]}]
          /\ UNCHANGED <<cur, ids, next_sym_id>>
      BY <2>4 DEF InternInsert, Interned
    <3>3. \A w \in Vcpus : pc[w] = "symbols" => w = v
      BY <2>4, ThreadsAssumption DEF InternInsert, LocksKept
    <3>4. \A w \in Vcpus : pc'[w] # "symbols"
      BY <2>4, <3>3 DEF InternInsert, Interned, TypeOK
    <3>5. \A n \in Names : ids[n] # 0 /\ n # n0 => symbols[ids[n]] = n
      BY <3>3 DEF IdsConsistent, Inserting
    <3> HIDE DEF n0
    <3>6. \A n \in Names : ids[n] # 0 => symbols'[ids[n]] = n
      BY <3>1, <3>2, <3>5 DEF IdsConsistent, TypeOK, SymIds
    <3> QED
      BY <3>1, <3>2, <3>4, <3>6 DEF IdsConsistent, TypeOK, SymIds
  <2>5. ASSUME UNCHANGED interning,
               \A w \in Vcpus : pc'[w] = "symbols" <=> pc[w] = "symbols",
               \A w \in Vcpus : pc[w] = "symbols" => cur'[w] = cur[w]
        PROVE  IdsConsistent'
    BY <2>5 DEF interning, IdsConsistent, Inserting
  <2>6. ASSUME NEW v \in Vcpus, MapTb(v) \/ NoteCalls(v) \/ SetFlags(v) \/ WriteBatch(v) PROVE IdsConsistent'
    BY <2>5, <2>6 DEF MapTb, NoteCalls, SetFlags, WriteBatch, TypeOK
  <2>13. ASSUME NEW v \in Vcpus, NEW b \in Tbs, NoSymbol(v, b) PROVE IdsConsistent'
    BY <2>5, <2>13 DEF NoSymbol, Begin, TypeOK
  <2>7. ASSUME NEW v \in Vcpus, CountEntries(v) \/ PublishWriter(v) PROVE IdsConsistent'
    BY <2>5, <2>7 DEF CountEntries, PublishWriter, Begin, TypeOK
  <2>8. ASSUME NEW v \in Vcpus, NEW b \in Tbs, NEW d \in Devices, MemAccess(v, b, d) PROVE IdsConsistent'
    BY <2>5, <2>8 DEF MemAccess
  <2>9. ASSUME NEW v \in Vcpus, NEW e \in Events, Discon(v, e) PROVE IdsConsistent'
    BY <2>5, <2>9 DEF Discon
  <2>10. CASE ExitBegin
    BY <2>5, <2>10 DEF ExitBegin
  <2>11. CASE ExitStep
    <3>1. UNCHANGED <<pc, cur, interning>>
      BY <2>11 DEF ExitStep, ExitTakes, ExitSymbols, ExitTbs, ExitTakeFlushed, ExitFallThroughs,
                   ExitTakeDirect, ExitDirectCalls, ExitResources, ExitDevices, ExitEvents
    <3> QED
      BY <2>5, <3>1
  <2>12. CASE UNCHANGED vars
    BY <2>5, <2>12 DEF vars
  <2> QED
    BY <2>1, <2>2, <2>3, <2>4, <2>6, <2>7, <2>8, <2>9, <2>10, <2>11, <2>12, <2>13, NextCases
<1> QED
  BY <1>1, <1>2, TypeInvariant, LocksKeptInvariant, PTL DEF Spec

(***************************************************************************)
(* NamesStable: one name, one id, for any number of vCPUs, names and ids:  *)
(* two threads that intern the same name get the same id, an id that was   *)
(* given is in symbols under its name, and 0 means all ids are in use.     *)
(***************************************************************************)
THEOREM SymbolIdsStable == Spec => []NamesStable
<1>1. TypeOK /\ IdsConsistent => NamesStable
  <2> SUFFICES ASSUME TypeOK, IdsConsistent, NEW n \in Names, NEW i \in given[n]
               PROVE  /\ given[n] = {i}
                      /\ i # 0 => i \in SymIds /\ symbols[i] = n
                      /\ i = 0 => \A j \in SymIds : \E m \in Names : ids[m] = j
    BY DEF NamesStable
  <2>1. given[n] = {i}
    BY DEF IdsConsistent
  <2>2. i # 0 => i \in SymIds /\ symbols[i] = n
    BY MaxSymIdAssumption DEF IdsConsistent, TypeOK, SymIds
  <2>3. i = 0 => \A j \in SymIds : \E m \in Names : ids[m] = j
    BY MaxSymIdAssumption DEF IdsConsistent, TypeOK, SymIds, Full
  <2> QED
    BY <2>1, <2>2, <2>3
<1> QED
  BY <1>1, TypeInvariant, IdsConsistentInvariant, PTL
-----------------------------------------------------------------------------
(* Tier 3.  The pairs of block and device that a map of name lists holds. *)
Listed(names) == {p \in Tbs \X Devices : p[2] \in Range(names[p[1]])}

SeenType == [tbs : SUBSET Tbs, devices : SUBSET (Tbs \X Devices), events : [Events -> Nat]]

(* The maps hold what happened, and a block is in tb_map before it gets its flags. *)
MapsHold ==
    /\ seen \in SeenType
    /\ flags = [b \in Tbs |-> IF b \in seen.tbs THEN FlagsOf[b] ELSE {}]
    /\ devices \in [Tbs -> Seq(Devices)]
    /\ \A b \in Tbs : IsInjective(devices[b])
    /\ seen.devices = Listed(devices)
    /\ events = seen.events
    /\ seen.tbs \subseteq tb_map
    /\ \A v \in Vcpus : pc[v] \in {"calls", "flags"} => cur[v][1] \in tb_map

Earlier(x, y) ==
    /\ x.tbs \subseteq y.tbs /\ x.devices \subseteq y.devices
    /\ \A e \in Events : x.events[e] <= y.events[e]

(* What plugin_exit has written after each of its tier 3 sections. *)
ResourcesDone ==
    /\ \A b \in before.tbs : FlagsOf[b] # {} => b \in report.resources
    /\ \A b \in report.resources : FlagsOf[b] # {} /\ b \in tb_map
DevicesDone ==
    /\ before.devices \subseteq Listed(report.devices) /\ Listed(report.devices) \subseteq seen.devices
    /\ \A b \in Tbs : IsInjective(report.devices[b])
EventsDone ==
    /\ report.events \in [Events -> Nat]
    /\ \A e \in Events : before.events[e] <= report.events[e] /\ report.events[e] <= seen.events[e]

Staged ==
    /\ before \in SeenType
    /\ DOMAIN report = {"resources", "devices", "events"}
    /\ exitPc # "running" => Earlier(before, seen)
    /\ exitPc \in {"devices", "events", "done"} => ResourcesDone
    /\ exitPc \in {"events", "done"} => DevicesDone
    /\ exitPc = "done" => EventsDone

(* A name is added at most once. *)
LEMMA AddDeviceFacts ==
    ASSUME NEW D, NEW names \in Seq(D), IsInjective(names), NEW d \in D
    PROVE  /\ AddDevice(names, d) \in Seq(D)
           /\ IsInjective(AddDevice(names, d))
           /\ Range(AddDevice(names, d)) = Range(names) \cup {d}
<1>1. CASE d \in Range(names)
  BY <1>1 DEF AddDevice
<1>2. CASE d \notin Range(names)
  <2> DEFINE n == Len(names)
             new == Append(names, d)
  <2>1. /\ n \in Nat /\ DOMAIN names = 1 .. n /\ new \in Seq(D) /\ DOMAIN new = 1 .. n + 1
        /\ new[n + 1] = d /\ \A i \in 1 .. n : new[i] = names[i]
    OBVIOUS
  <2>2. AddDevice(names, d) = new
    BY <1>2 DEF AddDevice
  <2> HIDE DEF n, new
  <2>3. \A i \in 1 .. n + 1 : i \in 1 .. n \/ i = n + 1
    BY <2>1
  <2>4. \A i \in 1 .. n : names[i] # d
    BY <1>2, <2>1 DEF Range
  <2>5. IsInjective(new)
    BY <2>1, <2>3, <2>4 DEF IsInjective
  <2>6. Range(new) = Range(names) \cup {d}
    <3>1. 1 .. n + 1 = (1 .. n) \cup {n + 1}
      BY <2>1
    <3> QED
      BY <2>1, <3>1 DEF Range
  <2> QED
    BY <2>1, <2>2, <2>5, <2>6
<1> QED
  BY <1>1, <1>2

(* A device access, in the map and in the history. *)
LEMMA AccessListed ==
    ASSUME MapsHold, NEW b \in Tbs, NEW d \in Devices,
           devices' = [devices EXCEPT ![b] = AddDevice(@, d)]
    PROVE  /\ devices' \in [Tbs -> Seq(Devices)]
           /\ \A c \in Tbs : IsInjective(devices'[c])
           /\ Listed(devices') = Listed(devices) \cup {<<b, d>>}
<1> DEFINE new == AddDevice(devices[b], d)
<1>1. devices[b] \in Seq(Devices) /\ IsInjective(devices[b])
  BY DEF MapsHold
<1>2. /\ new \in Seq(Devices) /\ IsInjective(new) /\ Range(new) = Range(devices[b]) \cup {d}
  BY <1>1, AddDeviceFacts
<1> HIDE DEF new
<1>3. devices' = [devices EXCEPT ![b] = new]
  BY DEF new
<1>4. devices'[b] = new /\ \A c \in Tbs \ {b} : devices'[c] = devices[c]
  BY <1>3 DEF MapsHold
<1>5. devices' \in [Tbs -> Seq(Devices)] /\ \A c \in Tbs : IsInjective(devices'[c])
  BY <1>2, <1>3, <1>4 DEF MapsHold
<1>6. ASSUME NEW c \in Tbs, NEW x \in Devices
      PROVE  x \in Range(devices'[c]) <=> x \in Range(devices[c]) \/ <<c, x>> = <<b, d>>
  BY <1>2, <1>4
<1>7. Listed(devices') = Listed(devices) \cup {<<b, d>>}
  BY <1>6 DEF Listed
<1> QED
  BY <1>5, <1>7

(* Which steps change tier 3's maps, the block map or plugin_exit's progress. *)
TierThreeSame == UNCHANGED <<flags, devices, events, seen, tb_map, exitPc, report, before>>

LEMMA MapsInvariant == Spec => [](MapsHold /\ Staged)
<1> USE DEF SeenType
<1>1. Init => MapsHold /\ Staged
  <2> SUFFICES ASSUME Init PROVE MapsHold /\ Staged
    OBVIOUS
  <2>1. seen = Nothing /\ before = Nothing /\ Nothing \in SeenType /\ Nothing.tbs = {}
        /\ Nothing.devices = {} /\ Nothing.events = events
    BY DEF Init, Nothing
  <2>2. Listed(devices) = {} /\ devices \in [Tbs -> Seq(Devices)] /\ \A b \in Tbs : IsInjective(devices[b])
    BY DEF Init, Listed, Range, IsInjective
  <2>3. MapsHold
    BY <2>1, <2>2 DEF Init, MapsHold
  <2>4. Staged
    BY <2>1 DEF Init, Staged
  <2> QED
    BY <2>3, <2>4
<1>2. TypeOK /\ MapsHold /\ Staged /\ [Next]_vars => (MapsHold /\ Staged)'
  <2> SUFFICES ASSUME TypeOK, MapsHold, Staged, [Next]_vars PROVE MapsHold' /\ Staged'
    OBVIOUS
  <2>1. ASSUME TierThreeSame, \A v \in Vcpus : pc'[v] \in {"calls", "flags"} =>
                                 pc[v] \in {"calls", "flags"} /\ cur'[v] = cur[v]
        PROVE  MapsHold' /\ Staged'
    BY <2>1 DEF TierThreeSame, MapsHold, Staged, ResourcesDone, DevicesDone, EventsDone, Earlier
  <2>2. ASSUME NEW v \in Vcpus, NEW b \in Tbs,
               NoSymbol(v, b) \/ InternHit(v, b) \/ InternFull(v, b) \/ InternNew(v, b)
        PROVE  MapsHold' /\ Staged'
    BY <2>1, <2>2 DEF NoSymbol, InternHit, InternFull, InternNew, InternBegin, Interned, Begin,
                      TypeOK, TierThreeSame, tier3, leaving
  <2>3. ASSUME NEW v \in Vcpus, InternInsert(v) \/ NoteCalls(v) \/ WriteBatch(v) \/ CountEntries(v)
                                \/ PublishWriter(v)
        PROVE  MapsHold' /\ Staged'
    BY <2>1, <2>3 DEF InternInsert, Interned, NoteCalls, WriteBatch, CountEntries, PublishWriter, Begin,
                      TypeOK, TierThreeSame, tier3, leaving
  <2>4. ASSUME NEW v \in Vcpus, MapTb(v) PROVE MapsHold' /\ Staged'
    <3>1. /\ tb_map' = tb_map \cup {cur[v][1]} /\ pc' = [pc EXCEPT ![v] = "calls"]
          /\ UNCHANGED <<cur, flags, devices, events, seen, exitPc, report, before>>
      BY <2>4 DEF MapTb, tier3, leaving
    <3>2. MapsHold'
      BY <3>1 DEF MapsHold, TypeOK
    <3>3. Staged'
      BY <3>1 DEF Staged, ResourcesDone, DevicesDone, EventsDone, Earlier
    <3> QED
      BY <3>2, <3>3
  <2>5. ASSUME NEW v \in Vcpus, SetFlags(v) PROVE MapsHold' /\ Staged'
    <3> DEFINE b == cur[v][1]
    <3>1. /\ pc[v] = "flags" /\ flags' = [flags EXCEPT ![b] = FlagsOf[b]]
          /\ seen' = [seen EXCEPT !.tbs = @ \cup {b}]
          /\ pc' = [pc EXCEPT ![v] = "idle"] /\ cur' = [cur EXCEPT ![v] = <<>>]
          /\ UNCHANGED <<tb_map, devices, events, exitPc, report, before>>
      BY <2>5 DEF SetFlags, leaving
    <3>2. b \in Tbs /\ b \in tb_map
      BY <3>1, CurrentBlock DEF MapsHold
    <3> HIDE DEF b
    <3>3. /\ seen' \in SeenType /\ seen'.tbs = seen.tbs \cup {b}
          /\ seen'.devices = seen.devices /\ seen'.events = seen.events
      BY <3>1, <3>2 DEF MapsHold
    <3>4. flags' = [c \in Tbs |-> IF c \in seen'.tbs THEN FlagsOf[c] ELSE {}]
      BY <3>1, <3>2, <3>3 DEF MapsHold
    <3>5. MapsHold'
      BY <3>1, <3>2, <3>3, <3>4, ZenonT(30) DEF MapsHold, TypeOK
    <3>6. Staged'
      <4>1. /\ ResourcesDone => ResourcesDone'
            /\ DevicesDone => DevicesDone'
            /\ EventsDone => EventsDone'
        BY <3>1, <3>3 DEF ResourcesDone, DevicesDone, EventsDone
      <4>2. Earlier(before, seen) => Earlier(before, seen)'
        BY <3>1, <3>3 DEF Earlier
      <4> QED
        BY <3>1, <4>1, <4>2 DEF Staged
    <3> QED
      BY <3>5, <3>6
  <2>6. ASSUME NEW v \in Vcpus, NEW b \in Tbs, NEW d \in Devices, MemAccess(v, b, d)
        PROVE  MapsHold' /\ Staged'
    <3>1. /\ devices' = [devices EXCEPT ![b] = AddDevice(@, d)]
          /\ seen' = [seen EXCEPT !.devices = @ \cup {<<b, d>>}]
          /\ UNCHANGED <<pc, cur, tb_map, flags, events, exitPc, report, before>>
      BY <2>6 DEF MemAccess, leaving
    <3>2. /\ devices' \in [Tbs -> Seq(Devices)] /\ \A c \in Tbs : IsInjective(devices'[c])
          /\ Listed(devices') = Listed(devices) \cup {<<b, d>>}
      BY <3>1, AccessListed
    <3>3. /\ seen' \in SeenType /\ seen'.tbs = seen.tbs
          /\ seen'.devices = seen.devices \cup {<<b, d>>} /\ seen'.events = seen.events
      <4> DEFINE all == seen.devices \cup {<<b, d>>}
      <4>1. all \in SUBSET (Tbs \X Devices) /\ seen' = [seen EXCEPT !.devices = all]
        BY <3>1 DEF MapsHold
      <4> HIDE DEF all
      <4>2. /\ seen' \in SeenType /\ seen'.tbs = seen.tbs
            /\ seen'.devices = all /\ seen'.events = seen.events
        BY <4>1 DEF MapsHold
      <4> QED
        BY <4>2 DEF all
    <3>4. MapsHold'
      BY <3>1, <3>2, <3>3 DEF MapsHold
    <3>5. Staged'
      BY <3>1, <3>3 DEF Staged, ResourcesDone, DevicesDone, EventsDone, Earlier
    <3> QED
      BY <3>4, <3>5
  <2>7. ASSUME NEW v \in Vcpus, NEW e \in Events, Discon(v, e) PROVE MapsHold' /\ Staged'
    <3>1. /\ events' = [events EXCEPT ![e] = @ + 1]
          /\ seen' = [seen EXCEPT !.events[e] = @ + 1]
          /\ UNCHANGED <<pc, cur, tb_map, flags, devices, exitPc, report, before>>
      BY <2>7 DEF Discon, leaving
    <3>2. /\ seen' \in SeenType /\ seen'.tbs = seen.tbs /\ seen'.devices = seen.devices
          /\ seen'.events = [seen.events EXCEPT ![e] = @ + 1]
      <4> DEFINE all == [seen.events EXCEPT ![e] = @ + 1]
      <4>1. all \in [Events -> Nat] /\ seen' = [seen EXCEPT !.events = all]
        BY <3>1 DEF MapsHold
      <4> HIDE DEF all
      <4>2. /\ seen' \in SeenType /\ seen'.tbs = seen.tbs
            /\ seen'.devices = seen.devices /\ seen'.events = all
        BY <4>1 DEF MapsHold
      <4> QED
        BY <4>2 DEF all
    <3>3. \A x \in Events : seen.events[x] \in Nat /\ seen'.events[x] \in Nat /\ seen.events[x] <= seen'.events[x]
      BY <3>2 DEF MapsHold
    <3>4. MapsHold'
      BY <3>1, <3>2 DEF MapsHold
    <3>5. /\ before.tbs \in SUBSET Tbs /\ \A x \in Events : before.events[x] \in Nat
      BY DEF Staged
    <3>6. Earlier(before, seen) => Earlier(before, seen)'
      BY <3>1, <3>2, <3>3, <3>5 DEF Earlier
    <3>7. EventsDone => EventsDone'
      BY <3>1, <3>3, <3>5 DEF EventsDone
    <3>8. Staged'
      BY <3>1, <3>2, <3>6, <3>7 DEF Staged, ResourcesDone, DevicesDone
    <3> QED
      BY <3>4, <3>8
  <2>8. CASE ExitBegin
    <3>1. /\ UNCHANGED <<pc, cur, tb_map, flags, devices, events, seen, report>>
          /\ before' = seen /\ exitPc' \in {"symbols", "returned"}
      BY <2>8 DEF ExitBegin, tier3
    <3>2. MapsHold'
      BY <3>1 DEF MapsHold
    <3>3. Earlier(seen, seen)
      BY DEF Earlier, MapsHold
    <3> QED
      BY <3>1, <3>2, <3>3 DEF Staged, MapsHold, Earlier
  <2>9. CASE ExitStep
    <3>1. UNCHANGED <<pc, cur, tb_map, flags, devices, events, seen, before>>
      BY <2>9 DEF ExitStep, ExitTakes, ExitSymbols, ExitTbs, ExitTakeFlushed, ExitFallThroughs,
                  ExitTakeDirect, ExitDirectCalls, ExitResources, ExitDevices, ExitEvents, tier3
    <3>2. MapsHold'
      BY <3>1 DEF MapsHold
    <3>3. exitPc # "running" => Earlier(before, seen)'
      BY <3>1 DEF Staged, Earlier
    <3>4. CASE \/ ExitSymbols \/ ExitTbs \/ ExitTakeFlushed \/ ExitFallThroughs \/ ExitTakeDirect
               \/ ExitDirectCalls
      <4>1. report' = report /\ exitPc' \notin {"devices", "events", "done"} /\ exitPc # "running"
        BY <3>4 DEF ExitTakes, ExitSymbols, ExitTbs, ExitTakeFlushed, ExitFallThroughs,
                    ExitTakeDirect, ExitDirectCalls
      <4> QED
        BY <3>1, <3>2, <3>3, <4>1 DEF Staged
    <3>5. CASE ExitResources
      <4>1. /\ exitPc = "resources" /\ exitPc' = "devices"
            /\ report' = [report EXCEPT !.resources = {b \in tb_map : flags[b] # {}}]
        BY <3>5 DEF ExitTakes, ExitResources
      <4>2. DOMAIN report' = DOMAIN report /\ report'.resources = {b \in tb_map : flags[b] # {}}
        BY <4>1 DEF Staged
      <4>3. before.tbs \subseteq seen.tbs
        BY <4>1 DEF Staged, Earlier
      <4>4. ResourcesDone'
        BY <3>1, <4>2, <4>3 DEF ResourcesDone, MapsHold, TypeOK
      <4> QED
        BY <3>1, <3>2, <3>3, <4>1, <4>2, <4>4 DEF Staged
    <3>6. CASE ExitDevices
      <4>1. /\ exitPc = "devices" /\ exitPc' = "events"
            /\ report' = [report EXCEPT !.devices = devices]
        BY <3>6 DEF ExitTakes, ExitDevices
      <4>2. /\ DOMAIN report' = DOMAIN report /\ report'.devices = devices
            /\ report'.resources = report.resources
        BY <4>1 DEF Staged
      <4>3. before.devices \subseteq seen.devices
        BY <4>1 DEF Staged, Earlier
      <4>4. DevicesDone'
        BY <3>1, <4>2, <4>3 DEF DevicesDone, MapsHold
      <4>5. ResourcesDone'
        BY <3>1, <4>1, <4>2 DEF ResourcesDone, Staged
      <4> QED
        BY <3>1, <3>2, <3>3, <4>1, <4>2, <4>4, <4>5 DEF Staged
    <3>7. CASE ExitEvents
      <4>1. /\ exitPc = "events" /\ exitPc' = "done"
            /\ report' = [report EXCEPT !.events = events]
        BY <3>7 DEF ExitTakes, ExitEvents
      <4>2. /\ DOMAIN report' = DOMAIN report /\ report'.events = events
            /\ report'.resources = report.resources /\ report'.devices = report.devices
        BY <4>1 DEF Staged
      <4>3. \A e \in Events : before.events[e] <= seen.events[e]
        BY <4>1 DEF Staged, Earlier
      <4>4. EventsDone'
        BY <3>1, <4>2, <4>3 DEF EventsDone, MapsHold
      <4>5. ResourcesDone' /\ DevicesDone'
        BY <3>1, <4>1, <4>2 DEF ResourcesDone, DevicesDone, Staged
      <4> QED
        BY <3>1, <3>2, <3>3, <4>1, <4>2, <4>4, <4>5 DEF Staged
    <3> QED
      BY <2>9, <3>4, <3>5, <3>6, <3>7 DEF ExitStep
  <2>10. CASE UNCHANGED vars
    BY <2>1, <2>10 DEF vars, TierThreeSame, tier3, leaving
  <2> QED
    BY <2>2, <2>3, <2>4, <2>5, <2>6, <2>7, <2>8, <2>9, <2>10, NextCases
<1> QED
  BY <1>1, <1>2, TypeInvariant, PTL DEF Spec

(***************************************************************************)
(* Whatever runs during plugin_exit: what tier 3 had recorded when it      *)
(* began is in the profile, each device of a block once, and nothing that  *)
(* did not happen.                                                         *)
(***************************************************************************)
THEOREM ExitReportsSnapshot == Spec => []ExitSnapshot
<1>1. Staged => ExitSnapshot
  BY DEF Staged, ResourcesDone, DevicesDone, EventsDone, Listed, ExitSnapshot
<1> QED
  BY <1>1, MapsInvariant, PTL
=============================================================================
