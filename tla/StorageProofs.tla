---------------------------- MODULE StorageProofs ----------------------------
(***************************************************************************)
(* Proofs about what each vCPU stores to: its slot of the shared table     *)
(* (VcpuStore, for every number of vCPUs and every table size) and the     *)
(* accumulator the slot holds (EdgeStorage, for any finite set of edges,   *)
(* either mode and any top_n).                                             *)
(***************************************************************************)
EXTENDS VcpuStore, EdgeStorage, TableTheorems

(* A claimed index is private to its claimant until it is published. *)
ClaimsPrivate ==
    /\ \A v \in Vcpus : pc[v] = "store" =>
          /\ slot[v] \in Slots
          /\ slot[v] < len[table[v]]
          /\ ptrs[table[v]][slot[v]] = NoVcpu
    /\ \A v, w \in Vcpus :
          /\ v # w
          /\ pc[v] = "store"
          /\ pc[w] = "store"
          /\ table[v] = table[w]
          => slot[v] # slot[w]
    /\ \A s \in Tables, i \in Slots : ptrs[s][i] # NoVcpu => i < len[s]

(* An index below len is published or held by the vCPU about to publish it. *)
ClaimsAccounted ==
    \A s \in Tables, i \in Slots : i < len[s] =>
        \/ ptrs[s][i] # NoVcpu
        \/ \E v \in Vcpus : pc[v] = "store" /\ table[v] = s /\ slot[v] = i

(* What a vCPU has established when it leaves a loop of ensure_vcpu_state. *)
LoopsDone ==
    \A v \in Vcpus :
        /\ table[v] = "calls" \/ pc[v] = "ready" => len["edges"] >= v + 1
        /\ pc[v] = "ready" /\ Tier >= 2 => len["calls"] >= v + 1

(* The process dies in a push, and only there does len pass the table's end. *)
AbortState ==
    /\ aborted => \E v \in Vcpus : pc[v] = "panic"
    /\ ~aborted => \A s \in Tables : len[s] <= MAX_VCPUS

(* Type correctness: counters, slots and each callback's position, whatever fetch_adds race. *)
THEOREM TypeInvariant == Spec => []TypeOK
<1> USE NVcpusAssumption, MaxVcpusAssumption, TierAssumption, NoVcpuAssumption
<1>1. Init => TypeOK
  <2> SUFFICES ASSUME Init PROVE TypeOK
    OBVIOUS
  <2>1. ptrs \in [Tables -> [Slots -> Vcpus \cup {NoVcpu}]]
    <3>1. [i \in Slots |-> NoVcpu] \in [Slots -> Vcpus \cup {NoVcpu}]
      OBVIOUS
    <3> QED
      BY <3>1 DEF Init
  <2>2. missed \subseteq Vcpus \X Tables
    BY DEF Init
  <2> QED
    BY <2>1, <2>2 DEF Init, TypeOK, Tables
<1>2. TypeOK /\ [Next]_vars => TypeOK'
  <2> SUFFICES ASSUME TypeOK, [Next]_vars PROVE TypeOK'
    OBVIOUS
  <2> USE DEF TypeOK
  <2>1. ASSUME NEW v \in Vcpus, VcpuInit(v) PROVE TypeOK'
    BY <2>1 DEF VcpuInit
  <2>2. ASSUME NEW v \in Vcpus, NeedSlot(v) PROVE TypeOK'
    BY <2>2 DEF NeedSlot
  <2>3. ASSUME NEW v \in Vcpus, Covered(v) PROVE TypeOK'
    BY <2>3 DEF Covered, Tables
  <2>4. ASSUME NEW v \in Vcpus, Claim(v) PROVE TypeOK'
    <3>1. len[table[v]] \in Nat
      OBVIOUS
    <3>2. len' \in [Tables -> Nat] /\ slot' \in [Vcpus -> Nat]
      BY <2>4, <3>1 DEF Claim
    <3>3. /\ pc' \in [Vcpus -> {"new", "check", "claim", "store", "panic", "ready"}]
          /\ aborted' \in BOOLEAN
      BY <2>4 DEF Claim
    <3> QED
      BY <2>4, <3>2, <3>3 DEF Claim
  <2>5. ASSUME NEW v \in Vcpus, StorePtr(v) PROVE TypeOK'
    BY <2>5 DEF StorePtr
  <2>6. ASSUME NEW v \in Vcpus, NEW s \in Tables, Record(v, s) PROVE TypeOK'
    BY <2>6 DEF Record
  <2>7. CASE UNCHANGED vars
    BY <2>7 DEF vars
  <2> QED
    BY <2>1, <2>2, <2>3, <2>4, <2>5, <2>6, <2>7 DEF Next, InitStep
<1> QED
  BY <1>1, <1>2, PTL DEF Spec

(***************************************************************************)
(* Two pushes never meet in a slot: fetch_add makes claims private, so     *)
(* nothing published is stored over (SlotsWrittenOnce below).              *)
(***************************************************************************)
LEMMA ClaimsPrivateInvariant == Spec => []ClaimsPrivate
<1> USE NVcpusAssumption, MaxVcpusAssumption, TierAssumption, NoVcpuAssumption
<1>1. Init => ClaimsPrivate
  BY DEF Init, ClaimsPrivate
<1>2. TypeOK /\ ClaimsPrivate /\ [Next]_vars => ClaimsPrivate'
  <2> SUFFICES ASSUME TypeOK, ClaimsPrivate, [Next]_vars PROVE ClaimsPrivate'
    OBVIOUS
  <2>1. ASSUME NEW v \in Vcpus, VcpuInit(v) PROVE ClaimsPrivate'
    BY <2>1 DEF VcpuInit, TypeOK, ClaimsPrivate
  <2>2. ASSUME NEW v \in Vcpus, NeedSlot(v) PROVE ClaimsPrivate'
    BY <2>2 DEF NeedSlot, TypeOK, ClaimsPrivate
  <2>3. ASSUME NEW v \in Vcpus, Covered(v) PROVE ClaimsPrivate'
    <3>1. /\ UNCHANGED <<ptrs, len, slot>> /\ \A w \in Vcpus : w # v => table'[w] = table[w]
          /\ \A w \in Vcpus : pc'[w] = "store" => w # v /\ pc[w] = "store"
      BY <2>3 DEF Covered, TypeOK
    <3> QED
      BY <3>1 DEF ClaimsPrivate
  <2>4. ASSUME NEW v \in Vcpus, Claim(v) PROVE ClaimsPrivate'
    <3>1. /\ ptrs' = ptrs /\ table' = table /\ table[v] \in Tables /\ len[table[v]] \in Nat
          /\ \A s \in Tables : len'[s] = IF s = table[v] THEN len[s] + 1 ELSE len[s]
          /\ \A w \in Vcpus : w # v => pc'[w] = pc[w] /\ slot'[w] = slot[w]
          /\ slot'[v] = len[table[v]]
          /\ pc'[v] = "store" => slot'[v] \in Slots
      BY <2>4 DEF Claim, TypeOK, Slots
    <3>2. \A w \in Vcpus : table[w] \in Tables /\ \A s \in Tables : len[s] \in Nat
      BY DEF TypeOK
    <3>3. \A w \in Vcpus : pc'[w] = "store" =>
             slot'[w] \in Slots /\ slot'[w] < len'[table'[w]] /\ ptrs'[table'[w]][slot'[w]] = NoVcpu
      BY <3>1, <3>2 DEF ClaimsPrivate, Slots
    <3>4. \A u, w \in Vcpus :
             u # w /\ pc'[u] = "store" /\ pc'[w] = "store" /\ table'[u] = table'[w] => slot'[u] # slot'[w]
      BY <3>1, <3>2 DEF ClaimsPrivate, Slots
    <3>5. \A s \in Tables, i \in Slots : ptrs'[s][i] # NoVcpu => i < len'[s]
      BY <3>1, <3>2 DEF ClaimsPrivate, Slots
    <3> QED
      BY <3>3, <3>4, <3>5 DEF ClaimsPrivate
  <2>5. ASSUME NEW v \in Vcpus, StorePtr(v) PROVE ClaimsPrivate'
    BY <2>5 DEF StorePtr, TypeOK, ClaimsPrivate
  <2>6. ASSUME NEW v \in Vcpus, NEW s \in Tables, Record(v, s) PROVE ClaimsPrivate'
    BY <2>6 DEF Record, ClaimsPrivate
  <2>7. CASE UNCHANGED vars
    BY <2>7 DEF vars, ClaimsPrivate
  <2> QED
    BY <2>1, <2>2, <2>3, <2>4, <2>5, <2>6, <2>7 DEF Next, InitStep
<1> QED
  BY <1>1, <1>2, TypeInvariant, PTL DEF Spec

(***************************************************************************)
(* SlotsWrittenOnce: no push replaces a published accumulator, for every   *)
(* number of vCPUs initialising at once.                                   *)
(***************************************************************************)
THEOREM PublishedSlotsStay == Spec => SlotsWrittenOnce
<1>1. TypeOK /\ ClaimsPrivate /\ [Next]_vars =>
        [\A s \in Tables, i \in Slots :
            ptrs[s][i] # NoVcpu => ptrs'[s][i] = ptrs[s][i]]_vars
  <2> SUFFICES ASSUME TypeOK, ClaimsPrivate, Next,
                      NEW s \in Tables, NEW i \in Slots, ptrs[s][i] # NoVcpu
               PROVE  ptrs'[s][i] = ptrs[s][i]
    OBVIOUS
  <2>1. ASSUME NEW v \in Vcpus, StorePtr(v) PROVE ptrs'[s][i] = ptrs[s][i]
    BY <2>1 DEF StorePtr, TypeOK, ClaimsPrivate
  <2>2. ASSUME NEW v \in Vcpus, ~StorePtr(v),
               VcpuInit(v) \/ InitStep(v) \/ \E t \in Tables : Record(v, t)
        PROVE  ptrs' = ptrs
    BY <2>2 DEF InitStep, VcpuInit, NeedSlot, Covered, Claim, Record
  <2> QED
    BY <2>1, <2>2 DEF Next
<1> QED
  BY <1>1, TypeInvariant, ClaimsPrivateInvariant, PTL DEF Spec, SlotsWrittenOnce

(* No index below len is lost between the fetch_add and the pointer store. *)
LEMMA ClaimsAccountedInvariant == Spec => []ClaimsAccounted
<1> USE NVcpusAssumption, MaxVcpusAssumption, TierAssumption, NoVcpuAssumption
<1>1. Init => ClaimsAccounted
  BY DEF Init, ClaimsAccounted, Slots
<1>2. TypeOK /\ ClaimsAccounted /\ [Next]_vars => ClaimsAccounted'
  <2> SUFFICES ASSUME TypeOK, ClaimsAccounted, [Next]_vars PROVE ClaimsAccounted'
    OBVIOUS
  <2>1. ASSUME NEW v \in Vcpus, VcpuInit(v) PROVE ClaimsAccounted'
    BY <2>1 DEF VcpuInit, TypeOK, ClaimsAccounted
  <2>2. ASSUME NEW v \in Vcpus, NeedSlot(v) PROVE ClaimsAccounted'
    BY <2>2 DEF NeedSlot, TypeOK, ClaimsAccounted
  <2>3. ASSUME NEW v \in Vcpus, Covered(v) PROVE ClaimsAccounted'
    BY <2>3 DEF Covered, TypeOK, ClaimsAccounted
  <2>4. ASSUME NEW v \in Vcpus, Claim(v) PROVE ClaimsAccounted'
    BY <2>4 DEF Claim, TypeOK, ClaimsAccounted, Slots
  <2>5. ASSUME NEW v \in Vcpus, StorePtr(v) PROVE ClaimsAccounted'
    BY <2>5 DEF StorePtr, TypeOK, ClaimsAccounted, Slots
  <2>6. ASSUME NEW v \in Vcpus, NEW s \in Tables, Record(v, s) PROVE ClaimsAccounted'
    BY <2>6 DEF Record, TypeOK, ClaimsAccounted
  <2>7. CASE UNCHANGED vars
    BY <2>7 DEF vars, TypeOK, ClaimsAccounted
  <2> QED
    BY <2>1, <2>2, <2>3, <2>4, <2>5, <2>6, <2>7 DEF Next, InitStep
<1> QED
  BY <1>1, <1>2, TypeInvariant, PTL DEF Spec

(* A vCPU that left a loop found its own index covered, and len never shrinks. *)
LEMMA LoopsDoneInvariant == Spec => []LoopsDone
<1> USE NVcpusAssumption, MaxVcpusAssumption, TierAssumption, NoVcpuAssumption
<1>1. Init => LoopsDone
  BY DEF Init, LoopsDone
<1>2. TypeOK /\ LoopsDone /\ [Next]_vars => LoopsDone'
  <2> SUFFICES ASSUME TypeOK, LoopsDone, [Next]_vars PROVE LoopsDone'
    OBVIOUS
  <2>1. ASSUME NEW v \in Vcpus, VcpuInit(v) PROVE LoopsDone'
    BY <2>1 DEF VcpuInit, TypeOK, LoopsDone, Vcpus, Tables
  <2>2. ASSUME NEW v \in Vcpus, NeedSlot(v) PROVE LoopsDone'
    BY <2>2 DEF NeedSlot, TypeOK, LoopsDone, Vcpus, Tables
  <2>3. ASSUME NEW v \in Vcpus, Covered(v) PROVE LoopsDone'
    BY <2>3 DEF Covered, TypeOK, LoopsDone, Vcpus, Tables
  <2>4. ASSUME NEW v \in Vcpus, Claim(v) PROVE LoopsDone'
    <3>1. \A s \in Tables : len[s] \in Nat /\ len'[s] \in Nat /\ len'[s] >= len[s]
      BY <2>4 DEF Claim, TypeOK
    <3>2. table' = table /\ \A w \in Vcpus : pc'[w] = "ready" => pc[w] = "ready"
      BY <2>4 DEF Claim, TypeOK
    <3> QED
      BY <3>1, <3>2 DEF LoopsDone, Vcpus, Tables
  <2>5. ASSUME NEW v \in Vcpus, StorePtr(v) PROVE LoopsDone'
    BY <2>5 DEF StorePtr, TypeOK, LoopsDone, Vcpus, Tables
  <2>6. ASSUME NEW v \in Vcpus, NEW s \in Tables, Record(v, s) PROVE LoopsDone'
    BY <2>6 DEF Record, TypeOK, LoopsDone, Vcpus, Tables
  <2>7. CASE UNCHANGED vars
    BY <2>7 DEF vars, TypeOK, LoopsDone, Vcpus, Tables
  <2> QED
    BY <2>1, <2>2, <2>3, <2>4, <2>5, <2>6, <2>7 DEF Next, InitStep
<1> QED
  BY <1>1, <1>2, TypeInvariant, PTL DEF Spec

(* The vCPU whose assertion failed never leaves push. *)
LEMMA AbortStateInvariant == Spec => []AbortState
<1> USE NVcpusAssumption, MaxVcpusAssumption, TierAssumption, NoVcpuAssumption
<1>1. Init => AbortState
  BY DEF Init, AbortState
<1>2. TypeOK /\ AbortState /\ [Next]_vars => AbortState'
  <2> SUFFICES ASSUME TypeOK, AbortState, [Next]_vars PROVE AbortState'
    OBVIOUS
  <2>1. ASSUME NEW v \in Vcpus, VcpuInit(v) PROVE AbortState'
    BY <2>1 DEF VcpuInit, TypeOK, AbortState
  <2>2. ASSUME NEW v \in Vcpus, NeedSlot(v) PROVE AbortState'
    BY <2>2 DEF NeedSlot, TypeOK, AbortState
  <2>3. ASSUME NEW v \in Vcpus, Covered(v) PROVE AbortState'
    BY <2>3 DEF Covered, TypeOK, AbortState
  <2>4. ASSUME NEW v \in Vcpus, Claim(v) PROVE AbortState'
    BY <2>4 DEF Claim, TypeOK, AbortState
  <2>5. ASSUME NEW v \in Vcpus, StorePtr(v) PROVE AbortState'
    BY <2>5 DEF StorePtr, TypeOK, AbortState
  <2>6. ASSUME NEW v \in Vcpus, NEW s \in Tables, Record(v, s) PROVE AbortState'
    BY <2>6 DEF Record, TypeOK, AbortState
  <2>7. CASE UNCHANGED vars
    BY <2>7 DEF vars, TypeOK, AbortState
  <2> QED
    BY <2>1, <2>2, <2>3, <2>4, <2>5, <2>6, <2>7 DEF Next, InitStep
<1> QED
  BY <1>1, <1>2, TypeInvariant, PTL DEF Spec

(***************************************************************************)
(* QuiescentComplete: when no vcpu_init runs, every initialised vCPU finds *)
(* its own accumulators, so plugin_exit merges everybody's data.           *)
(***************************************************************************)
THEOREM ExitSeesEverySlot == Spec => []QuiescentComplete
<1> USE NVcpusAssumption, MaxVcpusAssumption, TierAssumption, NoVcpuAssumption
<1>1. TypeOK /\ ClaimsAccounted /\ LoopsDone /\ AbortState => QuiescentComplete
  <2> SUFFICES ASSUME TypeOK, ClaimsAccounted, LoopsDone, AbortState,
                      \A v \in Vcpus : pc[v] \in {"new", "ready"},
                      NEW v \in Vcpus, NEW s \in Tables,
                      pc[v] = "ready", s = "calls" => Tier >= 2
               PROVE  GetMut(s, v) # NoVcpu
    BY DEF QuiescentComplete
  <2>1. ~aborted
    BY DEF AbortState
  <2>2. len[s] >= v + 1
    BY DEF LoopsDone, Tables
  <2>3. len[s] <= MAX_VCPUS /\ len[s] \in Nat /\ v \in Nat
    BY <2>1 DEF AbortState, TypeOK, Vcpus
  <2>4. v \in Slots /\ v < len[s]
    BY <2>2, <2>3 DEF Slots
  <2>5. ptrs[s][v] # NoVcpu
    BY <2>4 DEF ClaimsAccounted
  <2> QED
    BY <2>3, <2>4, <2>5 DEF GetMut
<1> QED
  BY <1>1, TypeInvariant, ClaimsAccountedInvariant, LoopsDoneInvariant,
     AbortStateInvariant, PTL

(* Claiming(s) is a finite set of at most NVcpus threads. *)
LEMMA ClaimingFinite ==
    ASSUME NEW s
    PROVE  /\ IsFiniteSet(Claiming(s))
           /\ Cardinality(Claiming(s)) \in Nat
           /\ Cardinality(Claiming(s)) <= NVcpus
<1>1. IsFiniteSet(Vcpus) /\ Cardinality(Vcpus) = NVcpus
  BY NVcpusAssumption, FS_Interval DEF Vcpus
<1>2. Claiming(s) \in SUBSET Vcpus
  BY DEF Claiming
<1> QED
  BY <1>1, <1>2, FS_Subset, FS_CardinalityType

(* The same of the next state. *)
LEMMA ClaimingFinitePrime ==
    ASSUME NEW s
    PROVE  /\ IsFiniteSet(Claiming(s)')
           /\ Cardinality(Claiming(s)') \in Nat
           /\ Cardinality(Claiming(s)') <= NVcpus
<1>1. IsFiniteSet(Vcpus) /\ Cardinality(Vcpus) = NVcpus
  BY NVcpusAssumption, FS_Interval DEF Vcpus
<1>2. Claiming(s)' \in SUBSET Vcpus
  BY DEF Claiming
<1> QED
  BY <1>1, <1>2, FS_Subset, FS_CardinalityType

(***************************************************************************)
(* BoundedOvershoot: a push is started only while len is below the         *)
(* starter's count, and each of the NVcpus threads has at most one push    *)
(* under way, so the table never needs more than 2*NVcpus - 1 slots.       *)
(***************************************************************************)
THEOREM OvershootBound == Spec => []BoundedOvershoot
<1> USE NVcpusAssumption, MaxVcpusAssumption
<1>1. Init => BoundedOvershoot
  <2> SUFFICES ASSUME Init, NEW s \in Tables
               PROVE  len[s] + Cardinality(Claiming(s)) <= 2 * NVcpus - 1
    BY DEF BoundedOvershoot
  <2>1. len[s] = 0 /\ Claiming(s) = {}
    BY DEF Init, Claiming
  <2> QED
    BY <2>1, FS_EmptySet
<1>2. TypeOK /\ BoundedOvershoot /\ [Next]_vars => BoundedOvershoot'
  <2> SUFFICES ASSUME TypeOK, BoundedOvershoot, [Next]_vars, NEW s \in Tables
               PROVE  len'[s] + Cardinality(Claiming(s)') <= 2 * NVcpus - 1
    BY DEF BoundedOvershoot
  <2>1. /\ len[s] \in Nat
        /\ len[s] + Cardinality(Claiming(s)) <= 2 * NVcpus - 1
    BY DEF TypeOK, BoundedOvershoot
  <2>2. ASSUME NEW v \in Vcpus, NeedSlot(v)
        PROVE  len'[s] + Cardinality(Claiming(s)') <= 2 * NVcpus - 1
    <3>1. CASE table[v] = s
      <4>1. len'[s] = len[s] /\ len[s] <= NVcpus - 1
        BY <2>1, <2>2, <3>1 DEF NeedSlot, Vcpus
      <4> QED
        BY <2>1, <4>1, ClaimingFinitePrime
    <3>2. CASE table[v] # s
      <4>1. len' = len /\ Claiming(s)' = Claiming(s)
        BY <2>2, <3>2 DEF NeedSlot, Claiming, TypeOK
      <4> QED
        BY <2>1, <4>1
    <3> QED
      BY <3>1, <3>2
  <2>3. ASSUME NEW v \in Vcpus, Claim(v)
        PROVE  len'[s] + Cardinality(Claiming(s)') <= 2 * NVcpus - 1
    <3>1. CASE table[v] = s
      <4>1. len'[s] = len[s] + 1
        BY <2>3, <3>1 DEF Claim, TypeOK
      <4>2. v \in Claiming(s) /\ Claiming(s)' = Claiming(s) \ {v}
        BY <2>3, <3>1 DEF Claim, Claiming, TypeOK
      <4>3. Cardinality(Claiming(s)') = Cardinality(Claiming(s)) - 1
        BY <4>2, ClaimingFinite, FS_RemoveElement
      <4> QED
        BY <2>1, <4>1, <4>3, ClaimingFinite
    <3>2. CASE table[v] # s
      <4>1. len'[s] = len[s] /\ Claiming(s)' = Claiming(s)
        BY <2>3, <3>2 DEF Claim, Claiming, TypeOK
      <4> QED
        BY <2>1, <4>1
    <3> QED
      BY <3>1, <3>2
  <2>4. ASSUME NEW v \in Vcpus,
               \/ VcpuInit(v) \/ Covered(v) \/ StorePtr(v)
               \/ \E t \in Tables : Record(v, t)
        PROVE  len'[s] + Cardinality(Claiming(s)') <= 2 * NVcpus - 1
    <3>1. len' = len
      BY <2>4 DEF VcpuInit, Covered, StorePtr, Record
    <3>2. Claiming(s)' = Claiming(s)
      BY <2>4 DEF VcpuInit, Covered, StorePtr, Record, Claiming, TypeOK
    <3> QED
      BY <2>1, <3>1, <3>2
  <2>5. CASE UNCHANGED vars
    BY <2>1, <2>5 DEF vars, Claiming
  <2> QED
    BY <2>2, <2>3, <2>4, <2>5 DEF Next, InitStep
<1> QED
  BY <1>1, <1>2, TypeInvariant, PTL DEF Spec

(* The process is down only if some table ran past its end. *)
AbortCause == aborted => \E s \in Tables : len[s] > MAX_VCPUS

(***************************************************************************)
(* NoPanicWithRoom: "too many vCPUs" cannot fire on a machine of at most   *)
(* (MAX_VCPUS + 1) / 2 vCPUs: 128 for the 256 slots of the code.           *)
(***************************************************************************)
THEOREM NoPanic == Spec => []NoPanicWithRoom
<1> USE NVcpusAssumption, MaxVcpusAssumption
<1>1. Init => AbortCause
  BY DEF Init, AbortCause
<1>2. TypeOK /\ AbortCause /\ [Next]_vars => AbortCause'
  <2> SUFFICES ASSUME TypeOK, AbortCause, [Next]_vars PROVE AbortCause'
    OBVIOUS
  <2>1. ASSUME NEW v \in Vcpus, Claim(v) PROVE AbortCause'
    <3>1. /\ table[v] \in Tables
          /\ len[table[v]] \in Nat
          /\ len'[table[v]] = len[table[v]] + 1
      BY <2>1 DEF Claim, TypeOK
    <3>2. aborted' => ~(len[table[v]] < MAX_VCPUS)
      BY <2>1, Zenon DEF Claim
    <3> QED
      BY <3>1, <3>2 DEF AbortCause
  <2>2. ASSUME NEW v \in Vcpus,
               \/ VcpuInit(v) \/ NeedSlot(v) \/ Covered(v) \/ StorePtr(v)
               \/ \E t \in Tables : Record(v, t)
        PROVE  AbortCause'
    BY <2>2 DEF VcpuInit, NeedSlot, Covered, StorePtr, Record, AbortCause
  <2>3. CASE UNCHANGED vars
    BY <2>3 DEF vars, AbortCause
  <2> QED
    BY <2>1, <2>2, <2>3 DEF Next, InitStep
<1>3. TypeOK /\ AbortCause /\ BoundedOvershoot => NoPanicWithRoom
  <2> SUFFICES ASSUME TypeOK, BoundedOvershoot, NEW s \in Tables, len[s] > MAX_VCPUS,
                      2 * NVcpus - 1 <= MAX_VCPUS
               PROVE  FALSE
    BY DEF AbortCause, NoPanicWithRoom
  <2> QED
    BY ClaimingFinite DEF TypeOK, BoundedOvershoot
<1> QED
  BY <1>1, <1>2, <1>3, TypeInvariant, OvershootBound, PTL DEF Spec

-----------------------------------------------------------------------------

StorageOK ==
    /\ config \in [streaming : BOOLEAN, top_n : Nat]
    /\ stored \in [Edges -> Nat]
    /\ out \in [Edges -> Nat]
    /\ exited \in BOOLEAN
    /\ truth \in [Edges -> Nat]
    /\ evictedMax \in Nat

(* Only the top-N table throws anything away. *)
StreamingKeepsAll == config.streaming => evictedMax = 0

(* Max picks the larger of two numbers. *)
LEMMA MaxOfTwo ==
    ASSUME NEW a \in Nat, NEW b \in Nat
    PROVE  Max({a, b}) = IF a >= b THEN a ELSE b
  BY DEF Max

(* The largest dropped count bounds the dropped ones; it is 0 if none is. *)
LEMMA LargestDroppedFacts ==
    ASSUME NEW t \in [Edges -> Nat], NEW u \in [Edges -> Nat]
    PROVE  /\ LargestDropped(t, u) \in Nat
           /\ \/ LargestDropped(t, u) = 0
              \/ \E e \in Keys(t) \ Keys(u) : LargestDropped(t, u) = t[e]
           /\ Keys(t) \subseteq Keys(u) => LargestDropped(t, u) = 0
<1> DEFINE D == {t[e] : e \in Keys(t) \ Keys(u)}
           S == {0} \cup D
<1>1. S \subseteq Nat /\ 0 \in S
  BY DEF Keys
<1>2. IsFiniteSet(S)
  <2> DEFINE K == Keys(t) \ Keys(u)
  <2>1. IsFiniteSet(K)
    BY EdgesAssumption, FS_Subset DEF Keys
  <2>2. IsFiniteSet(D)
    <3> DEFINE f == [e \in K |-> t[e]]
    <3>1. f \in Surjection(K, D)
      BY DEF Surjection
    <3> HIDE DEF f, K, D
    <3> QED
      BY <2>1, <3>1, FS_Surjection
  <2> HIDE DEF D
  <2>3. IsFiniteSet({0})
    BY FS_Singleton
  <2> QED
    BY <2>2, <2>3, FS_Union
<1>3. \E x \in S : \A y \in S : x >= y
  <2> HIDE DEF S
  <2> QED
    BY <1>1, <1>2, LargestExists
<1>4. LargestDropped(t, u) \in S
  BY <1>3 DEF LargestDropped, Max
<1>5. Keys(t) \subseteq Keys(u) => S = {0}
  OBVIOUS
<1> QED
  BY <1>1, <1>4, <1>5

(* The facts of one record_edge that the invariants below are about. *)
LEMMA RecordEdgeStep ==
    ASSUME StorageOK, NEW e \in Edges, RecordEdge(e)
    PROVE  \E t \in [Edges -> Nat] :
             /\ t \in AccRecord(stored, e, config.streaming, config.top_n)
             /\ truth' = Bump(truth, e)
             /\ \/ /\ ShouldFlush(t, config.streaming, config.top_n)
                   /\ stored' = EmptyTable(Edges) /\ out' = Merge(out, t)
                \/ /\ ~ShouldFlush(t, config.streaming, config.top_n)
                   /\ stored' = t /\ out' = out
             /\ LargestDropped(Bump(stored, e), t) \in Nat
             /\ evictedMax' = IF evictedMax >= LargestDropped(Bump(stored, e), t)
                              THEN evictedMax ELSE LargestDropped(Bump(stored, e), t)
             /\ config' = config /\ exited' = exited /\ ~exited
<1>1. PICK t \in AccRecord(stored, e, config.streaming, config.top_n) :
          /\ IF ShouldFlush(t, config.streaming, config.top_n)
             THEN stored' = EmptyTable(Edges) /\ out' = Merge(out, t)
             ELSE stored' = t /\ UNCHANGED out
          /\ evictedMax' = Max({evictedMax, LargestDropped(Bump(stored, e), t)})
  BY DEF RecordEdge
<1>2. stored \in [Edges -> Nat] /\ config.streaming \in BOOLEAN /\ config.top_n \in Nat
  BY DEF StorageOK
<1>3. t \in [Edges -> Nat]
  BY <1>2, EdgesAssumption, RecordFacts
<1>4. LargestDropped(Bump(stored, e), t) \in Nat
  BY <1>2, <1>3, EdgesAssumption, BumpFacts, LargestDroppedFacts
<1>5. evictedMax' = IF evictedMax >= LargestDropped(Bump(stored, e), t)
                    THEN evictedMax ELSE LargestDropped(Bump(stored, e), t)
  BY <1>1, <1>4, MaxOfTwo DEF StorageOK
<1> QED
  BY <1>1, <1>3, <1>4, <1>5 DEF RecordEdge

(* The tables' types. *)
LEMMA StorageInvariant == StorageSpec => []StorageOK
<1>1. StorageInit => StorageOK
  <2> SUFFICES ASSUME StorageInit PROVE StorageOK
    OBVIOUS
  <2>1. config \in [streaming : BOOLEAN, top_n : Nat]
    BY TopNsAssumption, Zenon DEF StorageInit
  <2>2. EmptyTable(Edges) \in [Edges -> Nat]
    BY DEF EmptyTable
  <2> QED
    BY <2>1, <2>2 DEF StorageInit, StorageOK
<1>2. StorageOK /\ [StorageNext]_storageVars => StorageOK'
  <2> SUFFICES ASSUME StorageOK, [StorageNext]_storageVars PROVE StorageOK'
    OBVIOUS
  <2>1. ASSUME NEW e \in Edges, RecordEdge(e) PROVE StorageOK'
    <3>1. PICK t \in [Edges -> Nat] :
             /\ truth' = Bump(truth, e)
             /\ \/ stored' = EmptyTable(Edges) /\ out' = Merge(out, t)
                \/ stored' = t /\ out' = out
             /\ LargestDropped(Bump(stored, e), t) \in Nat
             /\ evictedMax' = IF evictedMax >= LargestDropped(Bump(stored, e), t)
                              THEN evictedMax ELSE LargestDropped(Bump(stored, e), t)
             /\ config' = config /\ exited' = exited
      BY <2>1, RecordEdgeStep
    <3>2. truth' \in [Edges -> Nat]
      BY <3>1 DEF StorageOK, Bump
    <3>3. Merge(out, t) \in [Edges -> Nat] /\ EmptyTable(Edges) \in [Edges -> Nat]
      BY DEF StorageOK, Merge, EmptyTable
    <3>4. evictedMax' \in Nat
      BY <3>1 DEF StorageOK
    <3> QED
      BY <3>1, <3>2, <3>3, <3>4 DEF StorageOK
  <2>2. CASE ExitDrain
    BY <2>2 DEF ExitDrain, StorageOK, Merge, EmptyTable
  <2>3. CASE UNCHANGED storageVars
    BY <2>3 DEF storageVars, StorageOK
  <2> QED
    BY <2>1, <2>2, <2>3 DEF StorageNext
<1> QED
  BY <1>1, <1>2, PTL DEF StorageSpec

(***************************************************************************)
(* CountsConserved: pruning and re-insertion never invent a count, and the *)
(* streaming map loses none, for any capacity and any sequence of edges.   *)
(***************************************************************************)
THEOREM CountsNeverInvented == StorageSpec => []CountsConserved
<1>1. StorageInit => CountsConserved
  BY DEF StorageInit, CountsConserved, EmptyTable
<1>2. StorageOK /\ CountsConserved /\ [StorageNext]_storageVars => CountsConserved'
  <2> SUFFICES ASSUME StorageOK, CountsConserved, [StorageNext]_storageVars PROVE CountsConserved'
    OBVIOUS
  <2>1. ASSUME NEW e \in Edges, RecordEdge(e) PROVE CountsConserved'
    <3>1. PICK t \in [Edges -> Nat] :
             /\ t \in AccRecord(stored, e, config.streaming, config.top_n)
             /\ truth' = Bump(truth, e)
             /\ \/ stored' = EmptyTable(Edges) /\ out' = Merge(out, t)
                \/ stored' = t /\ out' = out
             /\ config' = config
      BY <2>1, RecordEdgeStep
    <3>2. stored \in [Edges -> Nat] /\ config.streaming \in BOOLEAN /\ config.top_n \in Nat
      BY DEF StorageOK
    <3>3. /\ \A f \in Edges : t[f] = 0 \/ t[f] = Bump(stored, e)[f]
          /\ config.streaming => t = Bump(stored, e)
      BY <3>1, <3>2, EdgesAssumption, RecordFacts
    <3>4. \A f \in Edges :
             /\ t[f] \in Nat /\ stored[f] \in Nat /\ out[f] \in Nat /\ truth[f] \in Nat
             /\ Bump(stored, e)[f] = IF f = e THEN stored[f] + 1 ELSE stored[f]
             /\ truth'[f] = IF f = e THEN truth[f] + 1 ELSE truth[f]
      BY <3>1 DEF StorageOK, Bump
    <3>5. \A f \in Edges : stored'[f] + out'[f] = t[f] + out[f]
      BY <3>1, <3>4 DEF StorageOK, Merge, EmptyTable
    <3> QED
      BY <3>1, <3>3, <3>4, <3>5 DEF CountsConserved
  <2>2. CASE ExitDrain
    BY <2>2 DEF ExitDrain, StorageOK, CountsConserved, Merge, EmptyTable
  <2>3. CASE UNCHANGED storageVars
    BY <2>3 DEF storageVars, CountsConserved
  <2> QED
    BY <2>1, <2>2, <2>3 DEF StorageNext
<1> QED
  BY <1>1, <1>2, StorageInvariant, PTL DEF StorageSpec

(* An emptied table has no keys. *)
LEMMA EmptyHasNoKeys == Cardinality(Keys(EmptyTable(Edges))) = 0
<1>1. Keys(EmptyTable(Edges)) = {}
  BY DEF Keys, EmptyTable
<1> QED
  BY <1>1, FS_EmptySet

(***************************************************************************)
(* TableBounded: the memory bound of each mode, for every top_n, 0 and 1   *)
(* included.                                                               *)
(***************************************************************************)
THEOREM MemoryBounded == StorageSpec => []TableBounded
<1>1. StorageOK /\ stored = EmptyTable(Edges) => TableBounded
  BY EmptyHasNoKeys DEF TableBounded, StorageOK
<1>2. StorageInit => stored = EmptyTable(Edges)
  BY DEF StorageInit
<1>3. StorageOK /\ StorageOK' /\ TableBounded /\ [StorageNext]_storageVars => TableBounded'
  <2> SUFFICES ASSUME StorageOK, StorageOK', TableBounded, [StorageNext]_storageVars PROVE TableBounded'
    OBVIOUS
  <2>1. ASSUME NEW e \in Edges, RecordEdge(e) PROVE TableBounded'
    <3>1. PICK t \in [Edges -> Nat] :
             /\ t \in AccRecord(stored, e, config.streaming, config.top_n)
             /\ \/ stored' = EmptyTable(Edges)
                \/ ~ShouldFlush(t, config.streaming, config.top_n) /\ stored' = t
             /\ config' = config
      BY <2>1, RecordEdgeStep
    <3>2. stored \in [Edges -> Nat] /\ config.streaming \in BOOLEAN /\ config.top_n \in Nat
      BY DEF StorageOK
    <3>3. ~config.streaming => Cardinality(Keys(t)) <= 2 * config.top_n
      BY <3>1, <3>2, EdgesAssumption, RecordFacts
    <3>4. Cardinality(Keys(t)) \in Nat
      BY <3>1, EdgesAssumption, FS_Subset, FS_CardinalityType DEF Keys
    <3>5. CASE stored' = EmptyTable(Edges)
      BY <3>1, <3>2, <3>5, EmptyHasNoKeys DEF TableBounded
    <3>6. CASE ~ShouldFlush(t, config.streaming, config.top_n) /\ stored' = t
      BY <3>1, <3>2, <3>3, <3>4, <3>6 DEF TableBounded, ShouldFlush
    <3> QED
      BY <3>1, <3>5, <3>6
  <2>2. CASE ExitDrain
    BY <2>2, EmptyHasNoKeys DEF ExitDrain, TableBounded, StorageOK
  <2>3. CASE UNCHANGED storageVars
    BY <2>3 DEF storageVars, TableBounded
  <2> QED
    BY <2>1, <2>2, <2>3 DEF StorageNext
<1> QED
  BY <1>1, <1>2, <1>3, StorageInvariant, PTL DEF StorageSpec

(* The streaming map is never pruned. *)
LEMMA StreamingInvariant == StorageSpec => []StreamingKeepsAll
<1>1. StorageInit => StreamingKeepsAll
  BY DEF StorageInit, StreamingKeepsAll
<1>2. StorageOK /\ StreamingKeepsAll /\ [StorageNext]_storageVars => StreamingKeepsAll'
  <2> SUFFICES ASSUME StorageOK, StreamingKeepsAll, [StorageNext]_storageVars PROVE StreamingKeepsAll'
    OBVIOUS
  <2>1. ASSUME NEW e \in Edges, RecordEdge(e) PROVE StreamingKeepsAll'
    <3>1. PICK t \in [Edges -> Nat] :
             /\ t \in AccRecord(stored, e, config.streaming, config.top_n)
             /\ evictedMax' = IF evictedMax >= LargestDropped(Bump(stored, e), t)
                              THEN evictedMax ELSE LargestDropped(Bump(stored, e), t)
             /\ config' = config
      BY <2>1, RecordEdgeStep
    <3>2. config.streaming => t = Bump(stored, e)
      BY <3>1 DEF AccRecord
    <3>3. LargestDropped(t, t) = 0
      BY <3>1, LargestDroppedFacts
    <3> QED
      BY <3>1, <3>2, <3>3 DEF StreamingKeepsAll
  <2>2. CASE UNCHANGED <<config, evictedMax>>
    BY <2>2 DEF StreamingKeepsAll
  <2> QED
    BY <2>1, <2>2 DEF StorageNext, ExitDrain, storageVars
<1> QED
  BY <1>1, <1>2, StorageInvariant, PTL DEF StorageSpec

(* The stored edges with at least n. *)
AtLeast(t, n) == {e \in Edges : t[e] >= n}

(***************************************************************************)
(* TopNFloor: at any moment before exit, top_n of the stored edges have    *)
(* counts no smaller than anything pruning has ever thrown away.  When a   *)
(* pruning keeps an edge below the old mark, everything it drops is below  *)
(* it too, and the edges above the mark, top_n of them, are all kept: one  *)
(* too many.                                                               *)
(***************************************************************************)
THEOREM PruningKeepsTop == StorageSpec => []TopNFloor
<1>1. StorageInit => TopNFloor
  BY DEF StorageInit, TopNFloor
<1>2. StorageOK /\ StorageOK' /\ StreamingKeepsAll /\ StreamingKeepsAll' /\ TopNFloor
        /\ [StorageNext]_storageVars => TopNFloor'
  <2> SUFFICES ASSUME StorageOK, StorageOK', StreamingKeepsAll, StreamingKeepsAll', TopNFloor, [StorageNext]_storageVars
               PROVE  TopNFloor'
    OBVIOUS
  <2>1. ASSUME NEW e \in Edges, RecordEdge(e), ~config.streaming, evictedMax' > 0 PROVE TopNFloor'
    <3> DEFINE b == Bump(stored, e)
               n == config.top_n
    <3>1. PICK t \in [Edges -> Nat] :
             /\ t \in AccRecord(stored, e, config.streaming, config.top_n)
             /\ \/ ShouldFlush(t, config.streaming, config.top_n)
                \/ stored' = t
             /\ evictedMax' = IF evictedMax >= LargestDropped(b, t)
                              THEN evictedMax ELSE LargestDropped(b, t)
             /\ config' = config /\ ~exited
      BY <2>1, RecordEdgeStep
    <3>2. /\ stored \in [Edges -> Nat] /\ config.streaming \in BOOLEAN /\ n \in Nat
          /\ evictedMax \in Nat
      BY DEF StorageOK
    <3>3. stored' = t
      BY <2>1, <3>1 DEF ShouldFlush
    <3>4. /\ \A f \in Edges : t[f] = 0 \/ t[f] = b[f]
          /\ \/ t = b
             \/ /\ Cardinality(Keys(t)) = n
                /\ \A a \in Keys(t), d \in Keys(b) \ Keys(t) : b[a] >= b[d]
      BY <3>1, <3>2, EdgesAssumption, RecordFacts
    <3>5. b \in [Edges -> Nat] /\ \A f \in Edges : b[f] >= stored[f]
      BY <3>2 DEF Bump
    <3>6. /\ LargestDropped(b, t) \in Nat
          /\ \/ LargestDropped(b, t) = 0
             \/ \E d \in Keys(b) \ Keys(t) : LargestDropped(b, t) = b[d]
          /\ Keys(b) \subseteq Keys(t) => LargestDropped(b, t) = 0
      BY <3>1, <3>5, LargestDroppedFacts
    <3> HIDE DEF b, n
    <3>7. evictedMax > 0 => Cardinality(AtLeast(stored, evictedMax)) >= n
      BY <3>1 DEF TopNFloor, AtLeast, n
    <3>8. SUFFICES Cardinality(AtLeast(t, evictedMax')) >= n
      BY <3>1, <3>3 DEF TopNFloor, AtLeast, n
    <3>9. /\ IsFiniteSet(AtLeast(t, evictedMax')) /\ IsFiniteSet(AtLeast(b, evictedMax))
          /\ IsFiniteSet(Keys(t))
      BY <3>1, EdgesAssumption, FS_Subset DEF AtLeast, Keys
    <3>10. /\ Cardinality(AtLeast(t, evictedMax')) \in Nat /\ Cardinality(AtLeast(b, evictedMax)) \in Nat
           /\ Cardinality(Keys(t)) \in Nat /\ Cardinality(AtLeast(stored, evictedMax)) \in Nat
      <4>1. IsFiniteSet(AtLeast(stored, evictedMax))
        BY EdgesAssumption, FS_Subset DEF AtLeast
      <4> QED
        BY <3>9, <4>1, FS_CardinalityType
    <3>11. evictedMax > 0 => Cardinality(AtLeast(b, evictedMax)) >= n
      <4> SUFFICES ASSUME evictedMax > 0 PROVE Cardinality(AtLeast(b, evictedMax)) >= n
        OBVIOUS
      <4>1. AtLeast(stored, evictedMax) \in SUBSET AtLeast(b, evictedMax)
        BY <3>2, <3>5 DEF AtLeast
      <4>2. Cardinality(AtLeast(stored, evictedMax)) <= Cardinality(AtLeast(b, evictedMax))
        BY <3>9, <4>1, FS_Subset
      <4> QED
        BY <3>2, <3>7, <3>10, <4>2
    <3>12. CASE t = b
      <4>1. evictedMax' = evictedMax
        BY <3>1, <3>2, <3>6, <3>12
      <4> QED
        BY <2>1, <3>11, <3>12, <4>1
    <3>13. CASE /\ Cardinality(Keys(t)) = n
                /\ \A a \in Keys(t), d \in Keys(b) \ Keys(t) : b[a] >= b[d]
      <4>1. ASSUME NEW a \in Keys(t), ~(b[a] >= evictedMax) PROVE FALSE
        <5>1. a \in Edges /\ b[a] \in Nat /\ evictedMax > 0
          BY <3>1, <3>2, <3>5, <4>1 DEF Keys
        <5>2. AtLeast(b, evictedMax) \in SUBSET (Keys(t) \ {a})
          <6> SUFFICES ASSUME NEW f \in AtLeast(b, evictedMax) PROVE f \in Keys(t) /\ f # a
            OBVIOUS
          <6>1. f \in Edges /\ b[f] \in Nat /\ b[f] >= evictedMax
            BY <3>5 DEF AtLeast
          <6>2. f \in Keys(b) /\ f # a
            BY <3>2, <3>5, <4>1, <5>1, <6>1 DEF Keys
          <6>3. f \in Keys(b) \ Keys(t) => b[a] >= b[f]
            BY <3>13
          <6> QED
            BY <3>2, <4>1, <5>1, <6>1, <6>2, <6>3
        <5>3. /\ IsFiniteSet(Keys(t) \ {a})
              /\ Cardinality(Keys(t) \ {a}) = Cardinality(Keys(t)) - 1
          BY <3>9, FS_RemoveElement
        <5>4. Cardinality(AtLeast(b, evictedMax)) <= Cardinality(Keys(t) \ {a})
          BY <5>2, <5>3, FS_Subset
        <5> QED
          BY <3>2, <3>10, <3>11, <3>13, <5>1, <5>3, <5>4
      <4>2. Keys(t) \in SUBSET AtLeast(t, evictedMax')
        <5> SUFFICES ASSUME NEW a \in Keys(t) PROVE a \in Edges /\ t[a] >= evictedMax'
          BY DEF AtLeast
        <5>1. a \in Edges /\ t[a] = b[a] /\ b[a] \in Nat
          BY <3>1, <3>4, <3>5 DEF Keys
        <5>2. b[a] >= LargestDropped(b, t)
          BY <3>6, <3>13, <5>1
        <5>3. b[a] >= evictedMax
          BY <4>1
        <5> QED
          BY <3>1, <5>1, <5>2, <5>3
      <4>3. Cardinality(Keys(t)) <= Cardinality(AtLeast(t, evictedMax'))
        BY <3>9, <4>2, FS_Subset
      <4> QED
        BY <3>2, <3>10, <3>13, <4>3
    <3> QED
      BY <3>4, <3>12, <3>13
  <2>2. ASSUME NEW e \in Edges, RecordEdge(e), config.streaming \/ ~(evictedMax' > 0) PROVE TopNFloor'
    <3>1. config' = config
      BY <2>2 DEF RecordEdge
    <3> QED
      BY <2>2, <3>1 DEF TopNFloor, StreamingKeepsAll
  <2>3. CASE ExitDrain
    BY <2>3 DEF ExitDrain, TopNFloor
  <2>4. CASE UNCHANGED storageVars
    BY <2>4 DEF storageVars, TopNFloor
  <2> QED
    BY <2>1, <2>2, <2>3, <2>4 DEF StorageNext, StorageOK
<1> QED
  BY <1>1, <1>2, StorageInvariant, StreamingInvariant, PTL DEF StorageSpec
=============================================================================
