-------------------------- MODULE ConverterProofs --------------------------
(***************************************************************************)
(* The converter, for every binary and guest run: one pass over the ELF's  *)
(* symbols finds the best of each address; lookups name the right          *)
(* function; the old output is given up last; and what the emitters write  *)
(* (lines, call-graph weights, the temporal trace) is what happened.       *)
(***************************************************************************)
EXTENDS Converter, TableTheorems

SymbolTable == Seq([func : BOOLEAN, value : Nat, size : Nat, name : DOMAIN NameLen])

(* The symbols of a table have the fields that elf_index.rs reads. *)
LEMMA SymbolTypes ==
    ASSUME NEW t \in SymbolTable, NEW i \in 1 .. Len(t)
    PROVE  t[i].size \in Nat /\ NameLen[t[i].name] \in Nat
<1> DEFINE R == [func : BOOLEAN, value : Nat, size : Nat, name : DOMAIN NameLen]
<1>1. t \in Seq(R)
  BY DEF SymbolTable
<1>2. t[i] \in R
  <2> HIDE DEF R
  <2> QED
    BY <1>1
<1> QED
  BY <1>2, NameLenAssumption

(* Displacing orders the symbols: if k displaces i and j does not, k       *)
(* displaces j and is not displaced by it.                                 *)
LEMMA ReplacesOrder ==
    ASSUME NEW t \in SymbolTable,
           NEW i \in 1 .. Len(t), NEW j \in 1 .. Len(t), NEW k \in 1 .. Len(t),
           Replaces(t[k], t[i]), ~Replaces(t[j], t[i])
    PROVE  Replaces(t[k], t[j]) /\ ~Replaces(t[j], t[k])
<1>1. /\ t[i].size \in Nat /\ NameLen[t[i].name] \in Nat
      /\ t[j].size \in Nat /\ NameLen[t[j].name] \in Nat
      /\ t[k].size \in Nat /\ NameLen[t[k].name] \in Nat
  BY SymbolTypes
<1> DEFINE sized(x) == t[x].size > 0
           longer(x, y) == NameLen[t[x].name] > NameLen[t[y].name]
           beats(x, y) == (~sized(y) /\ sized(x)) \/ ((sized(y) <=> sized(x)) /\ longer(x, y))
<1>2. /\ Replaces(t[k], t[i]) <=> beats(k, i)
      /\ Replaces(t[j], t[i]) <=> beats(j, i)
      /\ Replaces(t[k], t[j]) <=> beats(k, j)
      /\ Replaces(t[j], t[k]) <=> beats(j, k)
  BY <1>1 DEF Replaces
<1>3. longer(k, i) /\ ~longer(j, i) => longer(k, j)
  BY <1>1
<1>4. longer(k, j) => ~longer(j, k)
  BY <1>1
<1> QED
  <2> HIDE DEF sized, longer
  <2> QED
    BY <1>2, <1>3, <1>4

(* The symbols worth keeping are those that none at the address displaces. *)
LEMMA BestUnbeaten ==
    ASSUME NEW t \in SymbolTable, NEW n \in 0 .. Len(t), NEW a
    PROVE  Best(t, n, a) =
             {i \in At(t, n, a) : \A j \in At(t, n, a) : ~Replaces(t[j], t[i])}
<1>1. \A j \in At(t, n, a) : j \in 1 .. Len(t)
  BY DEF At, SymbolTable
<1>2. \A j \in At(t, n, a) : t[j].size \in Nat /\ NameLen[t[j].name] \in Nat
  BY <1>1, SymbolTypes
<1>3. CASE \E j \in At(t, n, a) : t[j].size > 0
  BY <1>2, <1>3 DEF Best, Replaces
<1>4. CASE ~\E j \in At(t, n, a) : t[j].size > 0
  BY <1>2, <1>4 DEF Best, Replaces
<1> QED
  BY <1>3, <1>4
-----------------------------------------------------------------------------
(* The symbol kept at address a after n symbols. *)
Kept(t, n, a, kept) ==
    \E i \in Best(t, n, a) : kept = t[i] /\ \A j \in Best(t, n, a) : i <= j

(* A symbol at another address, or one that is not indexed, changes nothing. *)
LEMMA OtherSymbol ==
    ASSUME NEW t \in SymbolTable, NEW n \in 0 .. Len(t), n < Len(t), NEW a,
           ~(Indexable(t[n + 1]) /\ t[n + 1].value = a)
    PROVE  Best(t, n + 1, a) = Best(t, n, a)
<1>1. 1 .. n + 1 = (1 .. n) \cup {n + 1}
  BY DEF SymbolTable
<1>2. At(t, n + 1, a) = At(t, n, a)
  BY <1>1 DEF At
<1> QED
  BY <1>2 DEF Best

(* The first symbol at an address is the best. *)
LEMMA FirstSymbol ==
    ASSUME NEW t \in SymbolTable, NEW n \in 0 .. Len(t), n < Len(t), NEW a,
           Indexable(t[n + 1]) /\ t[n + 1].value = a, At(t, n, a) = {}
    PROVE  Kept(t, n + 1, a, t[n + 1])
<1>1. 1 .. n + 1 = (1 .. n) \cup {n + 1} /\ n + 1 \in 1 .. Len(t)
  BY DEF SymbolTable
<1>2. At(t, n + 1, a) = {n + 1}
  BY <1>1 DEF At
<1>3. Best(t, n + 1, a) = {n + 1}
  BY <1>1, <1>2, SymbolTypes DEF Best
<1> QED
  BY <1>1, <1>3 DEF Kept

(* A newcomer takes the place of the kept symbol exactly if it is better.  *)
(* It is then better than all that were read, not only than that one.      *)
LEMMA NextSymbol ==
    ASSUME NEW t \in SymbolTable, NEW n \in 0 .. Len(t), n < Len(t), NEW a, NEW kept,
           Indexable(t[n + 1]) /\ t[n + 1].value = a, Kept(t, n, a, kept)
    PROVE  Kept(t, n + 1, a, IF Replaces(t[n + 1], kept) THEN t[n + 1] ELSE kept)
<1> DEFINE m == n + 1
<1>1. 1 .. m = (1 .. n) \cup {m} /\ m \in 1 .. Len(t) /\ n \in Nat
  BY DEF SymbolTable
<1>2. At(t, m, a) = At(t, n, a) \cup {m}
  BY <1>1 DEF At
<1>3. \A j \in At(t, n, a) : j \in 1 .. Len(t) /\ j < m
  BY <1>1 DEF At, SymbolTable
<1>4. /\ Best(t, n, a) = {i \in At(t, n, a) : \A j \in At(t, n, a) : ~Replaces(t[j], t[i])}
      /\ Best(t, m, a) = {i \in At(t, m, a) : \A j \in At(t, m, a) : ~Replaces(t[j], t[i])}
  <2>1. m \in 0 .. Len(t)
    BY <1>1
  <2> HIDE DEF m
  <2> QED
    BY <2>1, BestUnbeaten
<1>5. PICK i \in Best(t, n, a) : kept = t[i] /\ \A j \in Best(t, n, a) : i <= j
  BY DEF Kept
<1>6. i \in At(t, n, a) /\ i \in 1 .. Len(t) /\ i < m /\ \A j \in At(t, n, a) : ~Replaces(t[j], t[i])
  BY <1>3, <1>4, <1>5
<1>7. ~Replaces(t[m], t[m])
  BY <1>1, SymbolTypes DEF Replaces
<1> HIDE DEF m
<1>8. CASE Replaces(t[m], t[i])
  <2>1. \A j \in At(t, n, a) : Replaces(t[m], t[j]) /\ ~Replaces(t[j], t[m])
    BY <1>1, <1>3, <1>6, <1>8, ReplacesOrder
  <2>2. Best(t, m, a) = {m}
    BY <1>2, <1>4, <1>7, <2>1
  <2> QED
    BY <1>1, <1>5, <1>8, <2>2 DEF Kept, m
<1>9. CASE ~Replaces(t[m], t[i])
  <2>1. i \in Best(t, m, a)
    BY <1>2, <1>4, <1>6, <1>9
  <2>2. \A j \in Best(t, m, a) : i <= j
    BY <1>1, <1>2, <1>3, <1>4, <1>5, <1>6
  <2> QED
    BY <1>5, <1>9, <2>1, <2>2 DEF Kept, m
<1> QED
  BY <1>8, <1>9
-----------------------------------------------------------------------------
(* The index is empty until the first symbol is read, and the guest has *)
(* stopped, with no callback under way, before the conversion starts.   *)
Reading ==
    /\ work \in Workloads
    /\ pos \in 0 .. Len(work.symbols)
    /\ phase \in {"guest", "parse", "tier", "elf"} => pos = 0 /\ index = <<>>
    /\ phase # "guest" => \A v \in work.vcpus : call[v] = 0

(* The steps of the guest and of the plugin. *)
GuestNext ==
    \/ \E v \in work.vcpus, b \in work.tbs : EnterBlock(v, b)
    \/ \E b \in work.tbs : Retranslate(b)
    \/ \E v \in work.vcpus : FetchSeq(v) \/ StoreSeq(v)
    \/ FlushEdges

(* They are taken before the conversion and leave it alone. *)
LEMMA GuestSteps ==
    ASSUME Reading, GuestNext
    PROVE  phase = "guest" /\ UNCHANGED <<work, phase, format, edges, pos, index, output>>
<1>1. ASSUME NEW v \in work.vcpus, NEW b \in work.tbs, EnterBlock(v, b)
      PROVE  phase = "guest" /\ UNCHANGED <<work, phase, format, edges, pos, index, output>>
  BY <1>1 DEF EnterBlock
<1>2. ASSUME NEW b \in work.tbs, Retranslate(b)
      PROVE  phase = "guest" /\ UNCHANGED <<work, phase, format, edges, pos, index, output>>
  BY <1>2 DEF Retranslate
<1>3. ASSUME NEW v \in work.vcpus, FetchSeq(v) \/ StoreSeq(v)
      PROVE  phase = "guest" /\ UNCHANGED <<work, phase, format, edges, pos, index, output>>
  BY <1>3 DEF FetchSeq, StoreSeq, Reading
<1>4. CASE FlushEdges
  BY <1>4 DEF FlushEdges
<1> QED
  BY <1>1, <1>2, <1>3, <1>4 DEF GuestNext

LEMMA WorkSymbols ==
    ASSUME Reading
    PROVE  work.symbols \in SymbolTable /\ Len(work.symbols) \in Nat
<1>1. work.symbols \in SymbolTable
  BY WorkloadsAssumption DEF Reading, SymbolTable
<1> QED
  BY <1>1 DEF SymbolTable

LEMMA ReadingInvariant == Spec => []Reading
<1>1. Init => Reading
  <2> SUFFICES ASSUME Init PROVE Reading
    OBVIOUS
  <2>1. Len(work.symbols) \in Nat
    BY WorkloadsAssumption DEF Init
  <2> QED
    BY <2>1 DEF Init, Reading
<1>2. Reading /\ [Next]_vars => Reading'
  <2> SUFFICES ASSUME Reading, [Next]_vars PROVE Reading'
    OBVIOUS
  <2>1. Len(work.symbols) \in Nat
    BY WorkSymbols
  <2>2. CASE GuestNext
    BY <2>2, GuestSteps DEF Reading
  <2> USE <2>1 DEF Reading, guest
  <2>4. ASSUME NEW f \in Formats, Start(f) PROVE Reading'
    BY <2>4 DEF Start
  <2>5. CASE Parse
    BY <2>5 DEF Parse
  <2>6. CASE ParseFails \/ ElfFails \/ CreateFails
    BY <2>6 DEF ParseFails, ElfFails, CreateFails, Fail
  <2>7. CASE RequireTier \/ OpenElf
    BY <2>7 DEF RequireTier, OpenElf
  <2>8. CASE IndexSymbol
    BY <2>8 DEF IndexSymbol
  <2>9. CASE FinishIndex
    BY <2>9 DEF FinishIndex
  <2>10. CASE Emit \/ WriteFails
    BY <2>10 DEF Emit, WriteFails
  <2>11. CASE UNCHANGED vars
    BY <2>11 DEF vars
  <2> QED
    BY <2>2, <2>4, <2>5, <2>6, <2>7, <2>8, <2>9, <2>10, <2>11 DEF Next, GuestNext
<1> QED
  BY <1>1, <1>2, PTL DEF Spec

(***************************************************************************)
(* The loop of ElfIndex::from_file keeps the best symbol of each address:  *)
(* one with a size before one without, then the longest name, the first of *)
(* equals.  For every symbol table and every order of its symbols.         *)
(***************************************************************************)
THEOREM IndexKeepsBest == Spec => []IndexBest
<1>1. Init => IndexBest
  BY DEF Init, IndexBest
<1>2. Reading /\ IndexBest /\ [Next]_vars => IndexBest'
  <2> SUFFICES ASSUME Reading, IndexBest, [Next]_vars PROVE IndexBest'
    OBVIOUS
  <2>1. CASE OpenElf
    <3>1. phase' = "symbols" /\ pos' = 0 /\ index' = <<>>
      BY <2>1 DEF OpenElf, Reading
    <3>2. DOMAIN index' = {} /\ 1 .. pos' = {}
      BY <3>1
    <3> QED
      BY <3>2 DEF IndexBest
  <2>2. CASE IndexSymbol
    <3> DEFINE t == work.symbols
               n == pos
               s == t[n + 1]
    <3>1. /\ t \in SymbolTable /\ n \in 0 .. Len(t) /\ n < Len(t) /\ n \in Nat
          /\ work' = work /\ pos' = n + 1 /\ phase = "symbols"
          /\ index' = AddSymbol(index, s)
      BY <2>2, WorkSymbols DEF IndexSymbol, Reading
    <3>2. /\ \A i \in 1 .. n : Indexable(t[i]) => t[i].value \in DOMAIN index
          /\ \A a \in DOMAIN index : Kept(t, n, a, index[a])
      BY <3>1 DEF IndexBest, Kept
    <3>3. /\ \A i \in 1 .. n + 1 : Indexable(t[i]) => t[i].value \in DOMAIN index'
          /\ \A a \in DOMAIN index' : Kept(t, n + 1, a, index'[a])
      <4> HIDE DEF t, n
      <4>1. CASE ~Indexable(s)
        <5>1. index' = index
          BY <3>1, <4>1 DEF AddSymbol
        <5>2. \A a : Best(t, n + 1, a) = Best(t, n, a)
          BY <3>1, <4>1, OtherSymbol
        <5>3. \A i \in 1 .. n + 1 : i \in 1 .. n \/ i = n + 1
          BY <3>1
        <5> QED
          BY <3>2, <4>1, <5>1, <5>2, <5>3 DEF Kept
      <4>2. CASE Indexable(s)
        <5>1. DOMAIN index' = DOMAIN index \cup {s.value}
          BY <3>1, <4>2 DEF AddSymbol
        <5>2. ASSUME NEW a \in DOMAIN index', a # s.value PROVE Kept(t, n + 1, a, index'[a])
          <6>1. a \in DOMAIN index /\ index'[a] = index[a]
            BY <3>1, <5>1, <5>2 DEF AddSymbol
          <6>2. Best(t, n + 1, a) = Best(t, n, a)
            BY <3>1, <5>2, OtherSymbol
          <6> QED
            BY <3>2, <6>1, <6>2 DEF Kept
        <5>3. CASE s.value \notin DOMAIN index
          <6>1. index'[s.value] = s
            BY <3>1, <4>2, <5>3 DEF AddSymbol
          <6>2. At(t, n, s.value) = {}
            BY <3>2, <5>3 DEF At
          <6> QED
            BY <3>1, <3>2, <4>2, <5>1, <5>2, <6>1, <6>2, FirstSymbol
        <5>4. CASE s.value \in DOMAIN index
          <6> DEFINE kept == index[s.value]
          <6>1. index'[s.value] = IF Replaces(s, kept) THEN s ELSE kept
            BY <3>1, <4>2, <5>4 DEF AddSymbol
          <6>2. Kept(t, n, s.value, kept)
            BY <3>2, <5>4
          <6>3. Kept(t, n + 1, s.value, index'[s.value])
            <7> HIDE DEF kept
            <7> QED
              BY <3>1, <4>2, <6>1, <6>2, NextSymbol
          <6> QED
            BY <3>1, <3>2, <5>1, <5>2, <6>3
        <5> QED
          BY <5>3, <5>4
      <4> QED
        BY <4>1, <4>2
    <3> QED
      BY <3>1, <3>3 DEF IndexBest, Kept
  <2>3. ASSUME phase' # "symbols" PROVE IndexBest'
    BY <2>3 DEF IndexBest
  <2>4. CASE UNCHANGED vars
    BY <2>4 DEF IndexBest, vars
  <2>5. CASE GuestNext
    BY <2>3, <2>5, GuestSteps
  <2>6. ASSUME NEW f \in Formats, Start(f) PROVE phase' # "symbols"
    BY <2>6 DEF Start
  <2>7. CASE \/ Parse \/ ParseFails \/ RequireTier \/ ElfFails
             \/ FinishIndex \/ Emit \/ CreateFails \/ WriteFails
    <3>1. phase' # "symbols"
      BY <2>7 DEF Parse, ParseFails, RequireTier, ElfFails, FinishIndex, Emit,
                  CreateFails, WriteFails, Fail
    <3> QED
      BY <2>3, <3>1
  <2> QED
    BY <2>1, <2>2, <2>3, <2>4, <2>5, <2>6, <2>7 DEF Next, GuestNext
<1> QED
  BY <1>1, <1>2, ReadingInvariant, PTL DEF Spec
-----------------------------------------------------------------------------
(* What the output file may be at each point of the command. *)
OutputStaged ==
    /\ phase \in {"guest", "parse", "tier", "elf", "symbols", "emit"} => output = OldOutput
    /\ phase \in {"elf", "symbols", "emit"} => work.tier >= MinTier(format)
    /\ phase = "emit" => pos = Len(work.symbols)

LEMMA OutputInvariant == Spec => [](OutputStaged /\ OutputIntact)
<1> USE DEF OutputStaged, OutputIntact, OldOutput
<1>1. Init => OutputStaged /\ OutputIntact
  BY DEF Init
<1>2. Reading /\ OutputStaged /\ OutputIntact /\ [Next]_vars => (OutputStaged /\ OutputIntact)'
  <2> SUFFICES ASSUME Reading, OutputStaged, OutputIntact, [Next]_vars
               PROVE  OutputStaged' /\ OutputIntact'
    OBVIOUS
  <2>1. work.tier \in Nat
    BY WorkloadsAssumption DEF Reading
  <2>2. CASE GuestNext
    BY <2>2, GuestSteps
  <2>4. ASSUME NEW f \in Formats, Start(f) PROVE OutputStaged' /\ OutputIntact'
    BY <2>4 DEF Start
  <2>5. CASE Parse
    BY <2>5 DEF Parse
  <2>6. CASE ParseFails \/ ElfFails \/ CreateFails
    BY <2>6 DEF ParseFails, ElfFails, CreateFails, Fail
  <2>7. CASE RequireTier
    BY <2>1, <2>7 DEF RequireTier, MinTier
  <2>8. CASE OpenElf
    BY <2>8 DEF OpenElf
  <2>9. CASE IndexSymbol
    BY <2>9 DEF IndexSymbol
  <2>10. CASE FinishIndex
    BY <2>10 DEF FinishIndex
  <2>11. CASE Emit
    <3>1. output' = [state |-> "complete", content |-> Content] /\ phase' = "done" /\ phase = "emit"
          /\ UNCHANGED <<work, format, pos>>
      BY <2>11 DEF Emit
    <3>2. output'.state = "complete"
      BY <3>1
    <3> QED
      BY <3>1, <3>2
  <2>12. CASE WriteFails
    BY <2>12 DEF WriteFails
  <2>13. CASE UNCHANGED vars
    BY <2>13 DEF vars
  <2> QED
    BY <2>2, <2>4, <2>5, <2>6, <2>7, <2>8, <2>9, <2>10, <2>11, <2>12, <2>13 DEF Next, GuestNext
<1> QED
  BY <1>1, <1>2, ReadingInvariant, PTL DEF Spec

(***************************************************************************)
(* A command that succeeds has written all of its output; one that fails   *)
(* leaves the old output unless everything but the writing had succeeded.  *)
(***************************************************************************)
THEOREM OutputKept == Spec => []OutputIntact
  BY OutputInvariant, PTL
-----------------------------------------------------------------------------
(* The address arithmetic wraps only beyond the address space. *)
LEMMA SmallMod ==
    ASSUME NEW x \in Nat, x < AddrSpace
    PROVE  x % AddrSpace = x
<1>1. AddrSpace \in Nat /\ AddrSpace > 0
  BY SizesAssumption
<1> QED
  BY <1>1

(* A size that from_file infers. *)
LEMMA InferredBounds ==
    ASSUME NEW addrs \in SUBSET Nat, NEW a \in Nat
    PROVE  InferredSize(addrs, a) \in 1 .. SizeCap
<1> DEFINE later == {b \in addrs : b > a}
           next == CHOOSE b \in later : \A c \in later : b <= c
<1>1. SizeCap \in Nat /\ SizeCap > 0 /\ LastSize \in 1 .. SizeCap
  BY SizesAssumption
<1>2. CASE later = {}
  BY <1>1, <1>2 DEF InferredSize
<1>3. CASE later # {}
  <2>1. later \subseteq Nat
    OBVIOUS
  <2>2. next \in later
    <3> HIDE DEF later
    <3>1. \E b \in later : \A c \in later : b <= c
      BY <1>3, <2>1, SmallestExists
    <3> QED
      BY <3>1
  <2>3. InferredSize(addrs, a) = IF next - a <= SizeCap THEN next - a ELSE SizeCap
    BY <1>3 DEF InferredSize
  <2>4. next \in Nat /\ next > a
    BY <2>2
  <2> HIDE DEF next
  <2> QED
    BY <1>1, <2>3, <2>4
<1> QED
  BY <1>2, <1>3

(***************************************************************************)
(* The finished index: an entry for the address of every function, with    *)
(* the name of one there and its size, or an inferred size if no symbol    *)
(* there has one.                                                          *)
(***************************************************************************)
Indexed ==
    /\ DOMAIN index = {s.value : s \in ElfFunctions}
    /\ \A a \in DOMAIN index : \E s \in ElfFunctions :
          /\ s.value = a /\ index[a].value = a /\ index[a].name = s.name
          /\ s.size > 0 => index[a].size = s.size
          /\ s.size = 0 => /\ index[a].size \in 1 .. SizeCap
                           /\ \A t \in ElfFunctions : t.value = a => t.size = 0

IndexFinal == phase = "emit" \/ (phase = "done" /\ format # "dump") => Indexed

(* Symbols have the fields that elf_index.rs reads. *)
LEMMA FunctionFields ==
    ASSUME Reading, NEW s \in ElfFunctions
    PROVE  s.value \in Nat /\ s.size \in Nat
<1> DEFINE R == [func : BOOLEAN, value : Nat, size : Nat, name : DOMAIN NameLen]
<1>1. work.symbols \in Seq(R)
  BY WorkSymbols DEF SymbolTable
<1>2. s \in R
  <2> HIDE DEF R
  <2> QED
    BY <1>1 DEF ElfFunctions, ToSet
<1> QED
  BY <1>2

(* The symbol kept at an address is one of the functions there. *)
LEMMA KeptFunction ==
    ASSUME Reading, NEW a, NEW kept, Kept(work.symbols, Len(work.symbols), a, kept)
    PROVE  /\ kept \in [func : BOOLEAN, value : Nat, size : Nat, name : DOMAIN NameLen]
           /\ kept \in ElfFunctions /\ kept.value = a
           /\ kept.size = 0 => \A u \in ElfFunctions : u.value = a => u.size = 0
<1> DEFINE t == work.symbols
           n == Len(t)
           R == [func : BOOLEAN, value : Nat, size : Nat, name : DOMAIN NameLen]
<1>1. t \in SymbolTable /\ n \in Nat /\ t \in Seq(R)
  BY WorkSymbols DEF SymbolTable
<1>2. PICK i \in Best(t, n, a) : kept = t[i]
  BY DEF Kept
<1>3. i \in At(t, n, a) /\ i \in 1 .. n
  BY <1>2 DEF Best, At
<1>4. kept \in R
  <2> HIDE DEF R
  <2> QED
    BY <1>1, <1>2, <1>3
<1>5. kept \in ElfFunctions /\ kept.value = a
  BY <1>1, <1>2, <1>3 DEF At, ElfFunctions, ToSet
<1>6. ASSUME kept.size = 0, NEW u \in ElfFunctions, u.value = a PROVE u.size = 0
  <2>1. PICK j \in 1 .. n : t[j] = u
    BY <1>1 DEF ElfFunctions, ToSet
  <2>2. j \in At(t, n, a)
    BY <1>6, <2>1 DEF At, ElfFunctions
  <2>3. u.size \in Nat
    BY FunctionFields
  <2>4. CASE u.size > 0
    BY <1>2, <1>6, <2>1, <2>2, <2>4 DEF Best
  <2> QED
    BY <2>3, <2>4
<1> QED
  BY <1>4, <1>5, <1>6

LEMMA IndexFinalInvariant == Spec => []IndexFinal
<1>1. Init => IndexFinal
  BY DEF Init, IndexFinal
<1>2. Reading /\ IndexBest /\ IndexFinal /\ [Next]_vars => IndexFinal'
  <2> SUFFICES ASSUME Reading, IndexBest, IndexFinal, [Next]_vars PROVE IndexFinal'
    OBVIOUS
  <2>1. CASE FinishIndex
    <3> DEFINE t == work.symbols
               n == Len(t)
    <3>1. /\ phase = "symbols" /\ pos = n /\ index' = InferSizes(index) /\ work' = work
      BY <2>1 DEF FinishIndex
    <3>2. t \in SymbolTable /\ n \in Nat /\ DOMAIN t = 1 .. n
      BY WorkSymbols DEF SymbolTable
    <3>3. /\ \A i \in 1 .. n : Indexable(t[i]) => t[i].value \in DOMAIN index
          /\ \A a \in DOMAIN index : Kept(t, n, a, index[a])
      BY <3>1 DEF IndexBest, Kept
    <3>4. DOMAIN index = {s.value : s \in ElfFunctions}
      <4>1. ASSUME NEW a \in DOMAIN index PROVE a \in {s.value : s \in ElfFunctions}
        <5>1. PICK i \in Best(t, n, a) : TRUE
          BY <3>3 DEF Kept
        <5>2. i \in 1 .. n /\ Indexable(t[i]) /\ t[i].value = a
          BY <5>1 DEF Best, At
        <5> QED
          BY <3>2, <5>2 DEF ElfFunctions, ToSet
      <4>2. ASSUME NEW s \in ElfFunctions PROVE s.value \in DOMAIN index
        <5>1. PICK i \in 1 .. n : t[i] = s
          BY <3>2 DEF ElfFunctions, ToSet
        <5> QED
          BY <3>3, <5>1 DEF ElfFunctions
      <4> QED
        BY <4>1, <4>2
    <3>5. DOMAIN index \in SUBSET Nat
      BY <3>4, FunctionFields
    <3>6. DOMAIN index' = DOMAIN index /\ ElfFunctions' = ElfFunctions
      BY <3>1 DEF InferSizes, ElfFunctions
    <3>7. ASSUME NEW a \in DOMAIN index
          PROVE  \E s \in ElfFunctions :
                    /\ s.value = a /\ index'[a].value = a /\ index'[a].name = s.name
                    /\ s.size > 0 => index'[a].size = s.size
                    /\ s.size = 0 => /\ index'[a].size \in 1 .. SizeCap
                                     /\ \A u \in ElfFunctions : u.value = a => u.size = 0
      <4> DEFINE z == InferredSize(DOMAIN index, a)
      <4>1. /\ index[a] \in [func : BOOLEAN, value : Nat, size : Nat, name : DOMAIN NameLen]
            /\ index[a] \in ElfFunctions /\ index[a].value = a
            /\ index[a].size = 0 => \A u \in ElfFunctions : u.value = a => u.size = 0
        BY <3>3, KeptFunction
      <4>2. z \in 1 .. SizeCap
        BY <3>5, InferredBounds
      <4>3. index'[a] = IF index[a].size = 0 THEN [index[a] EXCEPT !.size = z] ELSE index[a]
        BY <3>1 DEF InferSizes
      <4> HIDE DEF z
      <4>4. index'[a].value = a /\ index'[a].name = index[a].name
        BY <4>1, <4>3
      <4>5. index'[a].size = IF index[a].size = 0 THEN z ELSE index[a].size
        BY <4>1, <4>3
      <4> QED
        BY <4>1, <4>2, <4>4, <4>5
    <3>8. Indexed'
      BY <3>4, <3>6, <3>7 DEF Indexed
    <3> QED
      BY <3>8 DEF IndexFinal
  <2>2. CASE Emit
    <3>1. phase = "emit" /\ UNCHANGED <<work, index>>
      BY <2>2 DEF Emit
    <3> QED
      BY <3>1 DEF IndexFinal, Indexed, ElfFunctions
  <2>3. CASE UNCHANGED vars
    BY <2>3 DEF vars, IndexFinal, Indexed, ElfFunctions
  <2>4. ASSUME phase' # "emit", phase' # "done" \/ format' = "dump" PROVE IndexFinal'
    BY <2>4 DEF IndexFinal
  <2>5. CASE GuestNext
    BY <2>4, <2>5, GuestSteps
  <2>6. ASSUME NEW f \in Formats, Start(f) PROVE IndexFinal'
    BY <2>4, <2>6 DEF Start
  <2>7. CASE \/ Parse \/ ParseFails \/ RequireTier \/ OpenElf \/ ElfFails
             \/ IndexSymbol \/ CreateFails \/ WriteFails
    BY <2>4, <2>7 DEF Parse, ParseFails, RequireTier, OpenElf, ElfFails, IndexSymbol,
                      CreateFails, WriteFails, Fail
  <2> QED
    BY <2>1, <2>2, <2>3, <2>5, <2>6, <2>7 DEF Next, GuestNext
<1> QED
  BY <1>1, <1>2, ReadingInvariant, IndexKeepsBest, PTL DEF Spec

(* The entry symbol_at looks at, and what it finds. *)
Nearest(b, a) == b \in DOMAIN index /\ b <= a /\ \A c \in DOMAIN index : c <= a => c <= b

LEMMA LookupFinds ==
    ASSUME Reading, Indexed, NEW a \in 0 .. AddrSpace - 1, NEW b, Nearest(b, a)
    PROVE  LET reach == (index[b].value + index[b].size) % AddrSpace
           IN  NameAt(index, a) = IF a < reach THEN index[b].name ELSE Unknown
<1>1. \A c \in DOMAIN index : c \in Nat
  BY FunctionFields DEF Indexed
<1>2. \A c : Nearest(c, a) => c = b
  BY <1>1 DEF Nearest
<1> DEFINE reach == (index[b].value + index[b].size) % AddrSpace
<1>3. CASE a < reach
  <2>1. SymbolAt(index, a) = {index[b]}
    BY <1>2, <1>3 DEF SymbolAt, Nearest
  <2> QED
    BY <1>3, <2>1 DEF NameAt
<1>4. CASE ~(a < reach)
  <2>1. SymbolAt(index, a) = {}
    BY <1>2, <1>4 DEF SymbolAt, Nearest
  <2> QED
    BY <1>4, <2>1 DEF NameAt
<1> QED
  BY <1>3, <1>4

(* Some entry is the nearest one below a, if there is any below it. *)
LEMMA NearestExists ==
    ASSUME Reading, Indexed, NEW a \in Nat, NEW c \in DOMAIN index, c <= a
    PROVE  \E b : Nearest(b, a)
<1> DEFINE S == {d \in DOMAIN index : d <= a}
<1>1. DOMAIN index \subseteq Nat
  BY FunctionFields DEF Indexed
<1>2. S \subseteq 0 .. a /\ S \subseteq Nat /\ S # {}
  BY <1>1
<1>3. IsFiniteSet(0 .. a)
  BY FS_Interval
<1> HIDE DEF S
<1>4. IsFiniteSet(S)
  BY <1>2, <1>3, FS_Subset
<1>5. PICK b \in S : \A d \in S : b >= d
  BY <1>2, <1>4, LargestExists
<1>6. Nearest(b, a)
  BY <1>1, <1>5 DEF Nearest, S
<1> QED
  BY <1>6

(* An address inside a function, when functions do not overlap. *)
LEMMA InsideFound ==
    ASSUME Reading, Indexed, Separate, NEW a \in 0 .. AddrSpace - 1,
           NEW s \in ElfFunctions, Covers(s, a)
    PROVE  \E u \in ElfFunctions : Covers(u, a) /\ NameAt(index, a) = u.name
<1>1. a \in Nat /\ a < AddrSpace /\ s.value \in Nat /\ s.size \in Nat
  BY FunctionFields, SizesAssumption
<1>2. s.value <= a /\ a < s.value + s.size /\ s.size > 0 /\ s.value \in DOMAIN index
  BY <1>1 DEF Covers, Indexed
<1>3. PICK b : Nearest(b, a)
  BY <1>1, <1>2, NearestExists
<1>4. PICK u \in ElfFunctions :
          /\ u.value = b /\ index[b].value = b /\ index[b].name = u.name
          /\ u.size > 0 => index[b].size = u.size
          /\ u.size = 0 => \A t \in ElfFunctions : t.value = b => t.size = 0
  BY <1>3 DEF Nearest, Indexed
<1>5. b \in Nat /\ u.size \in Nat
  BY <1>4, FunctionFields
<1>6. s.value <= b /\ b <= a
  BY <1>2, <1>3 DEF Nearest
<1>7. Covers(s, u.value)
  BY <1>1, <1>2, <1>4, <1>5, <1>6 DEF Covers
<1>8. u.value = s.value /\ (u.size = 0 \/ u.size = s.size) /\ s.value + s.size < AddrSpace
  BY <1>7 DEF Separate
<1>9. u.size = s.size /\ index[b].size = s.size /\ b = s.value
  BY <1>1, <1>2, <1>4, <1>5, <1>8
<1>10. (index[b].value + index[b].size) % AddrSpace = s.value + s.size
  <2>1. (s.value + s.size) % AddrSpace = s.value + s.size
    BY <1>1, <1>8, SmallMod
  <2> QED
    BY <1>4, <1>9, <2>1
<1>11. NameAt(index, a) = index[b].name
  BY <1>2, <1>3, <1>10, LookupFinds
<1>12. Covers(u, a)
  BY <1>2, <1>8, <1>9 DEF Covers
<1> QED
  BY <1>4, <1>11, <1>12

(* An address outside all functions. *)
LEMMA OutsideNearest ==
    ASSUME Reading, Indexed, NEW a \in 0 .. AddrSpace - 1,
           ~ \E s \in ElfFunctions : Covers(s, a), NameAt(index, a) # Unknown
    PROVE  \E s \in ElfFunctions :
              /\ s.name = NameAt(index, a) /\ s.size = 0
              /\ s.value <= a /\ a - s.value < SizeCap
              /\ \A t \in ElfFunctions : t.value <= a => t.value <= s.value
<1>1. a \in Nat /\ a < AddrSpace /\ AddrSpace \in Nat /\ SizeCap \in Nat
  BY SizesAssumption
<1>2. PICK b : Nearest(b, a)
  <2>1. SymbolAt(index, a) # {}
    BY DEF NameAt
  <2> QED
    BY <2>1 DEF SymbolAt, Nearest
<1>3. PICK u \in ElfFunctions :
          /\ u.value = b /\ index[b].value = b /\ index[b].name = u.name
          /\ u.size > 0 => index[b].size = u.size
          /\ u.size = 0 => index[b].size \in 1 .. SizeCap
  BY <1>2 DEF Nearest, Indexed
<1> DEFINE z == index[b].size
<1>4. b \in Nat /\ u.size \in Nat /\ z \in Nat
  BY <1>1, <1>3, FunctionFields
<1>5. a < (b + z) % AddrSpace /\ NameAt(index, a) = u.name
  BY <1>2, <1>3, LookupFinds
<1> HIDE DEF z
<1>6. a < b + z
  <2>1. CASE b + z < AddrSpace
    <3>1. (b + z) % AddrSpace = b + z
      BY <1>4, <2>1, SmallMod
    <3> QED
      BY <1>5, <3>1
  <2>2. CASE ~(b + z < AddrSpace)
    BY <1>1, <1>4, <2>2
  <2> QED
    BY <2>1, <2>2
<1>7. b <= a
  BY <1>2 DEF Nearest
<1>8. u.size = 0
  <2>1. u.size > 0 => Covers(u, a)
    BY <1>3, <1>6, <1>7 DEF Covers, z
  <2> QED
    BY <1>4, <2>1
<1>9. z <= SizeCap
  BY <1>1, <1>3, <1>8 DEF z
<1>10. a - b < SizeCap
  BY <1>1, <1>4, <1>6, <1>7, <1>9
<1>11. \A t \in ElfFunctions : t.value <= a => t.value <= b
  BY <1>2 DEF Nearest, Indexed
<1> QED
  BY <1>3, <1>5, <1>7, <1>8, <1>10, <1>11

(***************************************************************************)
(* For every symbol table: in a binary of separate functions an address    *)
(* inside one gets its name or an alias's; in any binary an address        *)
(* outside all functions gets a name only from the nearest symbol below    *)
(* it, if that one has no size.                                            *)
(***************************************************************************)
THEOREM LookupsExact == Spec => []LookupExact
<1>1. Reading /\ IndexFinal => LookupExact
  <2> SUFFICES ASSUME Reading, Indexed, NEW a \in 0 .. AddrSpace - 1
               PROVE  LET covering == {s \in ElfFunctions : Covers(s, a)}
                          name == NameAt(index, a)
                      IN  /\ Separate /\ covering # {} => name \in {s.name : s \in covering}
                          /\ covering = {} /\ name # Unknown =>
                                \E s \in ElfFunctions :
                                    /\ s.name = name /\ s.size = 0
                                    /\ s.value <= a /\ a - s.value < SizeCap
                                    /\ \A t \in ElfFunctions : t.value <= a => t.value <= s.value
    BY DEF IndexFinal, LookupExact
  <2>1. ASSUME Separate, NEW s \in ElfFunctions, Covers(s, a)
        PROVE  \E u \in ElfFunctions : Covers(u, a) /\ NameAt(index, a) = u.name
    BY <2>1, InsideFound
  <2>2. ASSUME ~ \E s \in ElfFunctions : Covers(s, a), NameAt(index, a) # Unknown
        PROVE  \E s \in ElfFunctions :
                  /\ s.name = NameAt(index, a) /\ s.size = 0
                  /\ s.value <= a /\ a - s.value < SizeCap
                  /\ \A t \in ElfFunctions : t.value <= a => t.value <= s.value
    BY <2>2, OutsideNearest
  <2> QED
    BY <2>1, <2>2
<1> QED
  BY <1>1, ReadingInvariant, IndexFinalInvariant, PTL
-----------------------------------------------------------------------------
(* A block, or none; an entry of the log. *)
Maybe == {<<>>} \cup {<<b>> : b \in work.tbs}
Entry == [vcpu : work.vcpus, tb : work.tbs, from : Maybe, num : Nat]

(* The guest's run, the numbers and the branch edges recorded of it. *)
RunTyped ==
    /\ log \in Seq(Entry)
    /\ at \in [work.vcpus -> Maybe]
    /\ call \in [work.vcpus -> 0 .. Len(log)]
    /\ counter \in Nat \ {0}
    /\ seq \in [work.tbs -> Nat]
    /\ batches \in Seq([Edges -> Nat]) /\ batches # <<>>

LEMMA MaybeFacts ==
    ASSUME NEW x \in Maybe, x # <<>>
    PROVE  x[1] \in work.tbs
  BY DEF Maybe

(* The entries of the log, field by field. *)
LEMMA LogFacts ==
    ASSUME RunTyped
    PROVE  /\ Len(log) \in Nat /\ DOMAIN log = 1 .. Len(log) /\ IsFiniteSet(DOMAIN log)
           /\ \A k \in DOMAIN log :
                 /\ log[k] \in Entry /\ k \in Nat
                 /\ log[k].vcpu \in work.vcpus /\ log[k].tb \in work.tbs /\ log[k].num \in Nat
                 /\ log[k].from # <<>> => log[k].from[1] \in work.tbs
<1>1. Len(log) \in Nat /\ DOMAIN log = 1 .. Len(log) /\ \A k \in DOMAIN log : log[k] \in Entry /\ k \in Nat
  BY DEF RunTyped
<1>2. IsFiniteSet(DOMAIN log)
  <2>1. 1 \in Int /\ Len(log) \in Int /\ DOMAIN log = 1 .. Len(log)
    BY <1>1
  <2> QED
    BY ONLY <2>1, FS_Interval
<1>3. \A x \in Entry : /\ x.vcpu \in work.vcpus /\ x.tb \in work.tbs /\ x.num \in Nat /\ x.from \in Maybe
  BY DEF Entry
<1>4. \A x \in Maybe : x # <<>> => x[1] \in work.tbs
  BY MaybeFacts
<1> QED
  BY <1>1, <1>2, <1>3, <1>4

LEMMA FiniteEdges ==
    ASSUME Reading
    PROVE  IsFiniteSet(work.tbs) /\ IsFiniteSet(Ends) /\ IsFiniteSet(Starts) /\ IsFiniteSet(Edges)
<1>1. IsFiniteSet(work.tbs)
  BY BlocksAssumption DEF Reading
<1>2. IsFiniteSet(Ends)
  <2> DEFINE f == [b \in work.tbs |-> b.end]
  <2>1. Ends = {f[b] : b \in work.tbs}
    BY DEF Ends
  <2> HIDE DEF f
  <2> QED
    BY <1>1, <2>1, FiniteImage
<1>3. IsFiniteSet(Starts)
  <2> DEFINE f == [b \in work.tbs |-> b.start]
  <2>1. Starts = {f[b] : b \in work.tbs}
    BY DEF Starts
  <2> HIDE DEF f
  <2> QED
    BY <1>1, <2>1, FiniteImage
<1> QED
  BY <1>1, <1>2, <1>3, FS_Product DEF Edges

(* Merging adds up, for each edge, what the batches have of it. *)
LEMMA MergeFacts ==
    ASSUME NEW E, NEW t \in Seq([E -> Nat]), t # <<>>
    PROVE  /\ MergeEdges(t) \in [E -> Nat]
           /\ \A e \in E : MergeEdges(t)[e]
                            = SumFunctionOnSet([i \in 1 .. Len(t) |-> t[i][e]], 1 .. Len(t))
<1>1. DOMAIN t = 1 .. Len(t) /\ Len(t) \in Nat /\ 1 \in 1 .. Len(t) /\ \A i \in 1 .. Len(t) : t[i] \in [E -> Nat]
  OBVIOUS
<1>2. DOMAIN t[1] = E
  BY <1>1
<1>3. MergeEdges(t) = [e \in E |-> SumFunction([i \in 1 .. Len(t) |-> t[i][e]])]
  BY <1>1, <1>2 DEF MergeEdges
<1>4. ASSUME NEW e \in E
      PROVE  /\ MergeEdges(t)[e] = SumFunctionOnSet([i \in 1 .. Len(t) |-> t[i][e]], 1 .. Len(t))
             /\ MergeEdges(t)[e] \in Nat
  <2> DEFINE f == [i \in 1 .. Len(t) |-> t[i][e]]
  <2>1. DOMAIN f = 1 .. Len(t) /\ \A i \in 1 .. Len(t) : f[i] \in Nat
    BY <1>1
  <2>2. MergeEdges(t)[e] = SumFunction(f)
    BY <1>3
  <2> HIDE DEF f
  <2>3. SumFunction(f) = SumFunctionOnSet(f, 1 .. Len(t))
    BY <2>1 DEF SumFunction
  <2>4. IsFiniteSet(1 .. Len(t))
    BY <1>1, FS_Interval
  <2>5. SumFunctionOnSet(f, 1 .. Len(t)) \in Nat
    BY <2>1, <2>4, SumIsNat
  <2> QED
    BY <2>2, <2>3, <2>5 DEF f
<1> QED
  BY <1>3, <1>4

(* Counting an edge in one of the batches counts it in the merged table. *)
LEMMA MergeBump ==
    ASSUME NEW E, NEW t \in Seq([E -> Nat]), t # <<>>, NEW e \in E, NEW j \in 1 .. Len(t),
           NEW u \in Seq([E -> Nat]), Len(u) = Len(t),
           \A i \in 1 .. Len(t) : u[i] = IF i = j THEN Bump(t[i], e) ELSE t[i]
    PROVE  \A x \in E : MergeEdges(u)[x] = MergeEdges(t)[x] + (IF x = e THEN 1 ELSE 0)
<1> DEFINE n == Len(t)
<1>1. n \in Nat /\ j \in 1 .. n /\ t[j] \in [E -> Nat] /\ \A i \in 1 .. n : t[i] \in [E -> Nat]
  <2> DEFINE R == [E -> Nat]
  <2>1. t \in Seq(R)
    OBVIOUS
  <2> HIDE DEF R
  <2>2. n \in Nat /\ j \in 1 .. n /\ \A i \in 1 .. n : t[i] \in R
    BY <2>1
  <2> QED
    BY <2>2 DEF R
<1>2. Bump(t[j], e) \in [E -> Nat] /\ \A x \in E : Bump(t[j], e)[x] = IF x = e THEN t[j][x] + 1 ELSE t[j][x]
  BY <1>1 DEF Bump
<1>3. u \in Seq([E -> Nat]) /\ u # <<>> /\ Len(u) = n
  BY <1>1
<1>4. \A i \in 1 .. n : u[i] = IF i = j THEN Bump(t[j], e) ELSE t[i]
  OBVIOUS
<1>5. ASSUME NEW x \in E
      PROVE  MergeEdges(u)[x] = MergeEdges(t)[x] + (IF x = e THEN 1 ELSE 0)
  <2> DEFINE f == [i \in 1 .. n |-> t[i][x]]
             g == [i \in 1 .. n |-> u[i][x]]
             d == IF x = e THEN 1 ELSE 0
  <2>1. MergeEdges(t)[x] = SumFunctionOnSet(f, 1 .. n)
    BY MergeFacts
  <2>2. MergeEdges(u)[x] = SumFunctionOnSet(g, 1 .. n)
    <3>1. x \in E
      OBVIOUS
    <3>2. MergeEdges(u)[x] = SumFunctionOnSet([i \in 1 .. Len(u) |-> u[i][x]], 1 .. Len(u))
      BY ONLY <1>3, <3>1, MergeFacts
    <3> HIDE DEF n
    <3> QED
      BY <1>3, <3>2
  <2>3. \A i \in 1 .. n : f[i] \in Nat /\ g[i] = IF i = j THEN f[i] + d ELSE f[i]
    <3> SUFFICES ASSUME NEW i \in 1 .. n PROVE f[i] \in Nat /\ g[i] = IF i = j THEN f[i] + d ELSE f[i]
      OBVIOUS
    <3>1. f[i] = t[i][x] /\ g[i] = u[i][x] /\ t[i][x] \in Nat
      BY <1>1
    <3> HIDE DEF f, g, n
    <3>2. CASE i = j
      BY <1>2, <1>4, <3>1, <3>2
    <3>3. CASE i # j
      BY <1>4, <3>1, <3>3
    <3> QED
      BY <3>2, <3>3
  <2>4. IsFiniteSet(1 .. n)
    BY <1>1, FS_Interval
  <2>5. d \in Nat
    OBVIOUS
  <2>6. j \in 1 .. n
    BY <1>1
  <2> HIDE DEF f, g, n, d
  <2>7. SumFunctionOnSet(g, 1 .. n) = SumFunctionOnSet(f, 1 .. n) + (IF j \in 1 .. n THEN d ELSE 0)
    <3> DEFINE D == 1 .. n
    <3>1. IsFiniteSet(D)
      BY ONLY <2>4
    <3>2. \A i \in D : f[i] \in Nat /\ g[i] = IF i = j THEN f[i] + d ELSE f[i]
      BY ONLY <2>3
    <3> HIDE DEF D
    <3>3. SumFunctionOnSet(g, D) = SumFunctionOnSet(f, D) + (IF j \in D THEN d ELSE 0)
      BY ONLY <2>5, <3>1, <3>2, SumBump, ZenonT(40)
    <3> QED
      BY ONLY <3>3 DEF D
  <2>8. MergeEdges(u)[x] = MergeEdges(t)[x] + d
    BY ONLY <2>1, <2>2, <2>6, <2>7
  <2> QED
    BY ONLY <2>8 DEF d
<1> QED
  BY <1>5

(* A new batch changes nothing. *)
LEMMA MergeAppend ==
    ASSUME NEW E, NEW t \in Seq([E -> Nat]), t # <<>>
    PROVE  LET u == Append(t, EmptyTable(E))
           IN  /\ u \in Seq([E -> Nat]) /\ u # <<>>
               /\ \A x \in E : MergeEdges(u)[x] = MergeEdges(t)[x]
<1> DEFINE n == Len(t)
           u == Append(t, EmptyTable(E))
<1>1. EmptyTable(E) \in [E -> Nat] /\ \A x \in E : EmptyTable(E)[x] = 0
  BY DEF EmptyTable
<1>2. n \in Nat /\ u \in Seq([E -> Nat]) /\ u # <<>> /\ Len(u) = n + 1
      /\ u[n + 1] = EmptyTable(E) /\ \A i \in 1 .. n : u[i] = t[i]
  <2> DEFINE R == [E -> Nat]
             z == EmptyTable(E)
  <2>1. t \in Seq(R) /\ z \in R
    BY <1>1
  <2> HIDE DEF R, z
  <2>2. n \in Nat /\ Append(t, z) \in Seq(R) /\ Append(t, z) # <<>> /\ Len(Append(t, z)) = n + 1
        /\ Append(t, z)[n + 1] = z /\ \A i \in 1 .. n : Append(t, z)[i] = t[i]
    BY <2>1, SMTT(30)
  <2> QED
    BY <2>2 DEF R, z
<1> HIDE DEF u
<1>3. ASSUME NEW x \in E PROVE MergeEdges(u)[x] = MergeEdges(t)[x]
  <2> DEFINE f == [i \in 1 .. n |-> t[i][x]]
             g == [i \in 1 .. n + 1 |-> u[i][x]]
  <2>1. MergeEdges(t)[x] = SumFunctionOnSet(f, 1 .. n)
    BY MergeFacts
  <2>2. MergeEdges(u)[x] = SumFunctionOnSet(g, 1 .. n + 1)
    BY <1>2, MergeFacts
  <2>3. \A i \in 1 .. n : f[i] \in Nat /\ g[i] = f[i]
    BY <1>2
  <2>4. g[n + 1] = 0
    BY <1>1, <1>2
  <2>5. \A i \in 1 .. n + 1 : g[i] \in Nat
    BY <1>2, <2>3, <2>4
  <2>6. IsFiniteSet(1 .. n) /\ IsFiniteSet(1 .. n + 1)
    BY <1>2, FS_Interval
  <2>7. n + 1 \in 1 .. n + 1 /\ (1 .. n + 1) \ {n + 1} = 1 .. n
    BY <1>2
  <2> HIDE DEF f, g, n
  <2>8. SumFunctionOnSet(g, 1 .. n + 1) = g[n + 1] + SumFunctionOnSet(g, (1 .. n + 1) \ {n + 1})
    BY <2>5, <2>6, <2>7, SumRemove
  <2>9. SumFunctionOnSet(g, 1 .. n) = SumFunctionOnSet(f, 1 .. n)
    BY <2>3, <2>6, SumSame
  <2>10. SumFunctionOnSet(f, 1 .. n) \in Nat
    BY <2>3, <2>6, SumIsNat
  <2>11. SumFunctionOnSet(g, 1 .. n + 1) = 0 + SumFunctionOnSet(f, 1 .. n)
    BY <2>4, <2>7, <2>8, <2>9
  <2> QED
    BY <2>1, <2>2, <2>10, <2>11
<1> QED
  BY <1>2, <1>3 DEF u

(* The batches have every transfer that is no fall-through. *)
Counted ==
    work.tier >= 1 =>
        \A e \in Edges : MergeEdges(batches)[e] = Cardinality(Taken(e[1], e[2]))

(* How a new entry changes the transfers. *)
LEMMA TakenAppend ==
    ASSUME RunTyped, NEW x \in Entry, log' = Append(log, x), NEW e, NEW s
    PROVE  LET new == /\ x.from # <<>> /\ x.from[1].fall_through_addr # x.tb.start
                      /\ x.from[1].end = e /\ x.tb.start = s
           IN  /\ Cardinality(Taken(e, s)) \in Nat
               /\ Cardinality(Taken(e, s)') = Cardinality(Taken(e, s)) + (IF new THEN 1 ELSE 0)
<1> DEFINE n == Len(log)
           new == /\ x.from # <<>> /\ x.from[1].fall_through_addr # x.tb.start
                  /\ x.from[1].end = e /\ x.tb.start = s
           A == Taken(e, s)
           B == Taken(e, s)'
<1>1. n \in Nat /\ DOMAIN log = 1 .. n /\ DOMAIN log' = 1 .. n + 1 /\ log'[n + 1] = x
      /\ \A i \in 1 .. n : log'[i] = log[i]
  BY DEF RunTyped
<1>2. A \in SUBSET DOMAIN log /\ B \in SUBSET (1 .. n + 1)
  BY <1>1 DEF Taken, Branched
<1>3. \A i \in 1 .. n : i \in B <=> i \in A
  <2>1. \A i \in 1 .. n : i \in 1 .. n + 1
    BY <1>1
  <2> QED
    BY <1>1, <2>1 DEF Taken, Branched
<1>4. n + 1 \in B <=> new
  <2>1. n + 1 \in 1 .. n + 1
    BY <1>1
  <2> QED
    BY <1>1, <2>1 DEF Taken, Branched
<1>5. IsFiniteSet(A) /\ Cardinality(A) \in Nat
  <2>1. IsFiniteSet(DOMAIN log)
    BY LogFacts
  <2> HIDE DEF A
  <2>2. IsFiniteSet(A)
    BY <1>2, <2>1, FS_Subset
  <2> QED
    BY <2>2, FS_CardinalityType
<1>6. n + 1 \notin A /\ A \subseteq 1 .. n /\ \A i \in B : i \in 1 .. n \/ i = n + 1
  BY <1>1, <1>2
<1> DEFINE m == n + 1
           S == 1 .. n
<1>7. /\ m \notin A /\ A \subseteq S /\ \A i \in B : i \in S \/ i = m
      /\ \A i \in S : i \in B <=> i \in A
      /\ m \in B <=> new
  BY <1>3, <1>4, <1>6
<1> HIDE DEF A, B, new, m, S
<1>8. CASE new
  <2>1. B = A \cup {m}
    BY <1>7, <1>8
  <2>2. Cardinality(A \cup {m}) = Cardinality(A) + 1
    BY <1>5, <1>7, FS_AddElement
  <2>3. Cardinality(B) = Cardinality(A) + (IF new THEN 1 ELSE 0)
    BY <1>8, <2>1, <2>2
  <2> QED
    BY <1>5, <2>3 DEF A, B, new
<1>9. CASE ~new
  <2>1. B = A
    BY <1>7, <1>9
  <2>2. Cardinality(B) = Cardinality(A) + (IF new THEN 1 ELSE 0)
    BY <1>5, <1>9, <2>1
  <2> QED
    BY <1>5, <2>2 DEF A, B, new
<1> QED
  BY <1>8, <1>9

(* The number drawn is no part of the transfers. *)
LEMMA TakenRenumbered ==
    ASSUME RunTyped, NEW c, NEW q, log' = [log EXCEPT ![c].num = q]
    PROVE  /\ DOMAIN log' = DOMAIN log
           /\ \A i \in DOMAIN log : /\ log'[i].vcpu = log[i].vcpu /\ log'[i].tb = log[i].tb
                                     /\ log'[i].from = log[i].from
                                     /\ log'[i].num = IF i = c THEN q ELSE log[i].num
           /\ \A e, s : Taken(e, s)' = Taken(e, s)
<1>1. DOMAIN log' = DOMAIN log /\ \A i \in DOMAIN log : log'[i] = IF i = c THEN [log[i] EXCEPT !.num = q] ELSE log[i]
  OBVIOUS
<1>2. \A x \in Entry : /\ [x EXCEPT !.num = q].vcpu = x.vcpu /\ [x EXCEPT !.num = q].tb = x.tb
                        /\ [x EXCEPT !.num = q].from = x.from /\ [x EXCEPT !.num = q].num = q
  BY DEF Entry
<1>3. \A i \in DOMAIN log : log[i] \in Entry
  BY LogFacts
<1>4. \A i \in DOMAIN log : /\ log'[i].vcpu = log[i].vcpu /\ log'[i].tb = log[i].tb
                             /\ log'[i].from = log[i].from
                             /\ log'[i].num = IF i = c THEN q ELSE log[i].num
  BY <1>1, <1>2, <1>3
<1>5. \A e, s : Taken(e, s)' = Taken(e, s)
  BY <1>1, <1>4 DEF Taken, Branched
<1> QED
  BY <1>1, <1>4, <1>5

LEMMA RunInvariant == Spec => [](RunTyped /\ Counted)
<1>1. Init => RunTyped /\ Counted
  <2> SUFFICES ASSUME Init PROVE RunTyped /\ Counted
    OBVIOUS
  <2>1. /\ log = <<>> /\ batches = <<EmptyTable(Edges)>>
        /\ at = [v \in work.vcpus |-> <<>>] /\ call = [v \in work.vcpus |-> 0]
        /\ counter = 1 /\ seq = [b \in work.tbs |-> 0]
    BY DEF Init
  <2>3. EmptyTable(Edges) \in [Edges -> Nat] /\ \A e \in Edges : EmptyTable(Edges)[e] = 0
    BY DEF EmptyTable
  <2>2. RunTyped
    <3> DEFINE R == [Edges -> Nat]
               z == EmptyTable(Edges)
    <3>1. z \in R /\ batches = <<z>>
      BY <2>1, <2>3
    <3> HIDE DEF R, z
    <3>2. batches \in Seq(R) /\ batches # <<>>
      BY <3>1
    <3>3. at \in [work.vcpus -> Maybe] /\ call \in [work.vcpus -> 0 .. Len(log)]
      BY <2>1 DEF Maybe
    <3> QED
      BY <2>1, <3>2, <3>3 DEF RunTyped, R
  <2>4. ASSUME NEW e \in Edges PROVE MergeEdges(batches)[e] = Cardinality(Taken(e[1], e[2]))
    <3>1. Taken(e[1], e[2]) = {}
      BY <2>1 DEF Taken, Branched
    <3> DEFINE f == [i \in 1 .. Len(batches) |-> batches[i][e]]
    <3>2. MergeEdges(batches)[e] = SumFunctionOnSet(f, 1 .. Len(batches))
      BY <2>2, MergeFacts DEF RunTyped
    <3>3. Len(batches) = 1 /\ batches[1] = EmptyTable(Edges)
      BY <2>1
    <3>4. \A i \in 1 .. 1 : f[i] = IF i = 1 THEN 0 ELSE 0
      BY <2>3, <3>3
    <3>5. IsFiniteSet(1 .. 1)
      <4>1. 1 \in Int
        OBVIOUS
      <4> QED
        BY ONLY <4>1, FS_Interval
    <3> HIDE DEF f
    <3>6. SumFunctionOnSet(f, 1 .. 1) = 0
      BY <3>4, <3>5, SumPoint
    <3> QED
      BY <3>1, <3>2, <3>3, <3>6, FS_EmptySet
  <2> QED
    BY <2>2, <2>4 DEF Counted
<1>2. Reading /\ RunTyped /\ Counted /\ [Next]_vars => (RunTyped /\ Counted)'
  <2> SUFFICES ASSUME Reading, RunTyped, Counted, [Next]_vars PROVE RunTyped' /\ Counted'
    OBVIOUS
  <2>1. work.tier \in Nat
    BY WorkloadsAssumption DEF Reading
  <2>2. ASSUME work' = work
        PROVE  /\ Edges' = Edges /\ Maybe' = Maybe /\ Entry' = Entry
    BY <2>2 DEF Edges, Ends, Starts, Maybe, Entry
  <2>3. ASSUME UNCHANGED <<work, guest>> PROVE RunTyped' /\ Counted'
    <3>1. UNCHANGED <<work, log, at, call, counter, seq, batches>>
      BY <2>3 DEF guest
    <3>2. \A e, s : Taken(e, s)' = Taken(e, s)
      BY <3>1 DEF Taken, Branched
    <3> QED
      BY <2>2, <3>1, <3>2 DEF RunTyped, Counted
  <2>4. ASSUME NEW v \in work.vcpus, NEW b \in work.tbs, EnterBlock(v, b) PROVE RunTyped' /\ Counted'
    <3> DEFINE from == at[v]
               x == [vcpu |-> v, tb |-> b, from |-> from, num |-> 0]
               edge == <<from[1].end, b.start>>
               new == from # <<>> /\ work.tier >= 1 /\ from[1].fall_through_addr # b.start
    <3>1. /\ work' = work /\ log' = Append(log, x) /\ at' = [at EXCEPT ![v] = <<b>>]
          /\ \E c \in {0, Len(log) + 1} : call' = [call EXCEPT ![v] = c]
          /\ UNCHANGED <<counter, seq>>
          /\ IF new THEN \E i \in DOMAIN batches : batches' = [batches EXCEPT ![i] = Bump(batches[i], edge)]
             ELSE batches' = batches
      BY <2>4 DEF EnterBlock
    <3>2. from \in Maybe /\ x \in Entry /\ <<b>> \in Maybe /\ Len(log) \in Nat
      BY DEF RunTyped, Maybe, Entry
    <3>3. from # <<>> => edge \in Edges /\ edge[1] = from[1].end /\ edge[2] = b.start
      <4> HIDE DEF from
      <4>1. from # <<>> => from[1] \in work.tbs
        BY <3>2, MaybeFacts
      <4> QED
        BY <4>1 DEF Edges, Ends, Starts
    <3>4. x.from = from /\ x.tb = b
      OBVIOUS
    <3> HIDE DEF x, from
    <3>5. /\ log' \in Seq(Entry) /\ at' \in [work.vcpus -> Maybe] /\ call' \in [work.vcpus -> 0 .. Len(log')]
      <4>1. log' \in Seq(Entry)
        BY <3>1, <3>2 DEF RunTyped
      <4>2. at' \in [work.vcpus -> Maybe]
        BY <3>1, <3>2 DEF RunTyped
      <4>3. call' \in [work.vcpus -> 0 .. Len(log')]
        <5>1. Len(log') = Len(log) + 1 /\ Len(log) \in Nat
          BY <3>1, <3>2 DEF RunTyped
        <5>2. \A w \in work.vcpus : call[w] \in 0 .. Len(log')
          BY <5>1 DEF RunTyped
        <5>3. \A c \in {0, Len(log) + 1} : c \in 0 .. Len(log')
          BY <5>1
        <5> QED
          BY <3>1, <5>2, <5>3 DEF RunTyped
      <4> QED
        BY <4>1, <4>2, <4>3
    <3>6. /\ batches' \in Seq([Edges -> Nat]) /\ batches' # <<>>
          /\ \A y \in Edges : MergeEdges(batches')[y] = MergeEdges(batches)[y] + (IF new /\ y = edge THEN 1 ELSE 0)
      <4> HIDE DEF edge
      <4>1. CASE new
        <5> DEFINE R == [Edges -> Nat]
                   n == Len(batches)
        <5>1. edge \in Edges /\ batches \in Seq(R) /\ batches # <<>>
          BY <3>3, <4>1 DEF RunTyped
        <5>2. PICK i \in DOMAIN batches : batches' = [batches EXCEPT ![i] = Bump(batches[i], edge)]
          BY <3>1, <4>1
        <5> HIDE DEF R, new
        <5>3. i \in 1 .. n /\ batches[i] \in R
          BY <5>1
        <5>4. Bump(batches[i], edge) \in R
          BY <5>1, <5>3 DEF Bump, R
        <5>5. /\ batches' \in Seq(R) /\ Len(batches') = n /\ batches' # <<>>
              /\ \A j \in 1 .. n : batches'[j] = IF j = i THEN Bump(batches[j], edge) ELSE batches[j]
          BY <5>1, <5>2, <5>3, <5>4
        <5>6. \A y \in Edges : MergeEdges(batches')[y] = MergeEdges(batches)[y] + (IF y = edge THEN 1 ELSE 0)
          <6>1. /\ batches \in Seq([Edges -> Nat]) /\ batches # <<>> /\ edge \in Edges
                /\ i \in 1 .. Len(batches) /\ batches' \in Seq([Edges -> Nat])
                /\ Len(batches') = Len(batches)
                /\ \A j \in 1 .. Len(batches) :
                      batches'[j] = IF j = i THEN Bump(batches[j], edge) ELSE batches[j]
            BY <5>1, <5>3, <5>5 DEF R
          <6> QED
            BY ONLY <6>1, MergeBump, ZenonT(60)
        <5> QED
          BY <4>1, <5>5, <5>6 DEF R
      <4>2. CASE ~new
        <5>1. MergeEdges(batches) \in [Edges -> Nat]
          BY MergeFacts DEF RunTyped
        <5> QED
          BY <3>1, <4>2, <5>1 DEF RunTyped
      <4> QED
        BY <4>1, <4>2
    <3>7. ASSUME work.tier >= 1, NEW y \in Edges
          PROVE  MergeEdges(batches')[y] = Cardinality(Taken(y[1], y[2])')
      <4> DEFINE more == /\ x.from # <<>> /\ x.from[1].fall_through_addr # x.tb.start
                         /\ x.from[1].end = y[1] /\ x.tb.start = y[2]
      <4>1. y = <<y[1], y[2]>>
        BY DEF Edges
      <4>2. /\ Cardinality(Taken(y[1], y[2])) \in Nat
            /\ Cardinality(Taken(y[1], y[2])') = Cardinality(Taken(y[1], y[2])) + (IF more THEN 1 ELSE 0)
        BY <3>1, <3>2, TakenAppend
      <4>3. (new /\ y = edge) <=> more
        BY <3>4, <3>7, <4>1
      <4>4. MergeEdges(batches)[y] = Cardinality(Taken(y[1], y[2]))
        BY <3>7 DEF Counted
      <4> HIDE DEF new, edge, more
      <4> QED
        BY <3>6, <4>2, <4>3, <4>4
    <3>8. Counted'
      BY <2>2, <3>1, <3>7 DEF Counted
    <3> QED
      BY <2>2, <3>1, <3>5, <3>6, <3>8 DEF RunTyped
  <2>5. ASSUME NEW v \in work.vcpus, FetchSeq(v) PROVE RunTyped' /\ Counted'
    <3>1. /\ work' = work /\ log' = [log EXCEPT ![call[v]].num = counter] /\ counter' = counter + 1
          /\ UNCHANGED <<at, call, seq, batches>>
      BY <2>5 DEF FetchSeq
    <3>2. \A e, s : Taken(e, s)' = Taken(e, s)
      BY <3>1, TakenRenumbered
    <3>3. log' \in Seq(Entry)
      <4> DEFINE c == call[v]
                 y == [log[c] EXCEPT !.num = counter]
      <4>1. c \in DOMAIN log
        BY <2>5, LogFacts DEF RunTyped, FetchSeq
      <4>2. log[c] \in Entry
        BY <4>1, LogFacts
      <4>3. y \in Entry
        BY <4>2 DEF Entry, RunTyped
      <4>4. log' = [log EXCEPT ![c] = y]
        BY <3>1
      <4> HIDE DEF y, c
      <4> QED
        BY <4>1, <4>3, <4>4 DEF RunTyped
    <3>4. Len(log') = Len(log)
      BY <3>1 DEF RunTyped
    <3> QED
      BY <2>2, <3>1, <3>2, <3>3, <3>4 DEF RunTyped, Counted
  <2>6. ASSUME NEW v \in work.vcpus, StoreSeq(v) PROVE RunTyped' /\ Counted'
    <3>1. /\ seq' = [seq EXCEPT ![log[call[v]].tb] = log[call[v]].num] /\ call' = [call EXCEPT ![v] = 0]
          /\ UNCHANGED <<work, log, at, counter, batches>>
      BY <2>6 DEF StoreSeq
    <3>2. \A e, s : Taken(e, s)' = Taken(e, s)
      BY <3>1 DEF Taken, Branched
    <3>3. log[call[v]].num \in Nat
      <4>1. call[v] \in DOMAIN log
        BY <2>6, LogFacts DEF RunTyped, StoreSeq
      <4> QED
        BY <4>1, LogFacts
    <3>4. seq' \in [work.tbs -> Nat]
      BY <3>1, <3>3 DEF RunTyped
    <3>5. call' \in [work.vcpus -> 0 .. Len(log)]
      <4>1. 0 \in 0 .. Len(log)
        BY LogFacts
      <4> QED
        BY <3>1, <4>1 DEF RunTyped
    <3> QED
      BY <2>2, <3>1, <3>2, <3>4, <3>5 DEF RunTyped, Counted
  <2>7. CASE FlushEdges
    <3>1. /\ UNCHANGED <<work, log, at, call, counter, seq>>
          /\ batches' = Append(batches, EmptyTable(Edges))
      BY <2>7 DEF FlushEdges
    <3>2. \A e, s : Taken(e, s)' = Taken(e, s)
      BY <3>1 DEF Taken, Branched
    <3>3. /\ batches' \in Seq([Edges -> Nat]) /\ batches' # <<>>
          /\ \A x \in Edges : MergeEdges(batches')[x] = MergeEdges(batches)[x]
      <4>1. batches \in Seq([Edges -> Nat]) /\ batches # <<>>
        BY DEF RunTyped
      <4> QED
        BY <3>1, <4>1, MergeAppend
    <3> QED
      BY <2>2, <3>1, <3>2, <3>3 DEF RunTyped, Counted
  <2>8. ASSUME NEW b \in work.tbs, Retranslate(b) PROVE RunTyped' /\ Counted'
    <3>1. UNCHANGED <<work, log, at, call, counter, seq, batches>>
      BY <2>8 DEF Retranslate
    <3>2. \A e, s : Taken(e, s)' = Taken(e, s)
      BY <3>1 DEF Taken, Branched
    <3> QED
      BY <2>2, <3>1, <3>2 DEF RunTyped, Counted
  <2>9. ASSUME NEW f \in Formats, Start(f) PROVE RunTyped' /\ Counted'
    BY <2>3, <2>9 DEF Start
  <2>10. CASE Parse
    BY <2>3, <2>10 DEF Parse
  <2>11. CASE ParseFails \/ ElfFails \/ CreateFails
    BY <2>3, <2>11 DEF ParseFails, ElfFails, CreateFails, Fail
  <2>12. CASE RequireTier \/ OpenElf
    BY <2>3, <2>12 DEF RequireTier, OpenElf
  <2>13. CASE IndexSymbol \/ FinishIndex
    BY <2>3, <2>13 DEF IndexSymbol, FinishIndex
  <2>14. CASE Emit \/ WriteFails
    BY <2>3, <2>14 DEF Emit, WriteFails
  <2>15. CASE UNCHANGED vars
    BY <2>3, <2>15 DEF vars
  <2> QED
    BY <2>4, <2>5, <2>6, <2>7, <2>8, <2>9, <2>10, <2>11, <2>12, <2>13, <2>14, <2>15 DEF Next
<1> QED
  BY <1>1, <1>2, ReadingInvariant, PTL DEF Spec
-----------------------------------------------------------------------------
(* The profile as parsed, and an output that was written to its end. *)
Converted ==
    /\ phase \in {"tier", "elf", "symbols", "emit"} => format # "dump" /\ edges = MergeEdges(batches)
    /\ output.state = "complete" =>
          /\ phase = "done" /\ format # "dump"
          /\ edges = MergeEdges(batches)
          /\ output.content = Content

(* What is emitted depends on the workload, the run, the profile and the index. *)
LEMMA ContentSame ==
    ASSUME UNCHANGED <<work, log, seq, batches, format, edges, index>>
    PROVE  Content' = Content
<1>1. UNCHANGED <<Edges, Starts, Names>> /\ \A a : Offset(a)' = Offset(a)
  BY DEF Edges, Ends, Starts, Names, Offset, Base
<1>2. \A e, s : Taken(e, s)' = Taken(e, s)
  BY DEF Taken, Branched
<1>3. \A b : Executions(b)' = Executions(b) /\ ExecCount(b)' = ExecCount(b)
  BY DEF Executions, ExecCount
<1>4. \A b : FallThroughCount(b)' = FallThroughCount(b)
  BY <1>3 DEF FallThroughCount
<1>5. UNCHANGED FallThroughs
  BY <1>1, <1>4 DEF FallThroughs
<1>6. UNCHANGED <<RangeLines, EdgeLines(edges), EdgeLines(FallThroughs)>>
  BY <1>1, <1>3, <1>5 DEF RangeLines, EdgeLines
<1>7. UNCHANGED <<EmitBolt, EmitAutofdo, EmitGccAutofdo>>
  BY <1>6 DEF EmitBolt, EmitAutofdo, EmitGccAutofdo
<1>8. UNCHANGED EmitCgprof
  <2>1. UNCHANGED <<DirectCallRecords, IndirectCallRecords>>
    BY <1>1, <1>2, <1>3 DEF DirectCallRecords, IndirectCallRecords
  <2>2. \A f, g : CrossEdges(f, g)' = CrossEdges(f, g)
    BY <1>1 DEF CrossEdges
  <2> QED
    BY <1>1, <2>1, <2>2 DEF EmitCgprof, Between, Resolved, Total
<1>9. UNCHANGED EmitTemporal
  <2>1. \A n : Numbered(n)' = Numbered(n)
    BY <1>3 DEF Numbered
  <2>2. UNCHANGED Funcs
    BY <1>1, <2>1 DEF Funcs
  <2>3. \A n : FuncFirstSeen(n)' = FuncFirstSeen(n)
    BY <2>1 DEF FuncFirstSeen
  <2> QED
    BY <2>2, <2>3 DEF EmitTemporal
<1> QED
  BY <1>7, <1>8, <1>9 DEF Content

LEMMA ConvertedInvariant == Spec => []Converted
<1>1. Init => Converted
  BY DEF Init, Converted, OldOutput
<1>2. Reading /\ Converted /\ [Next]_vars => Converted'
  <2> SUFFICES ASSUME Reading, Converted, [Next]_vars PROVE Converted'
    OBVIOUS
  <2>1. CASE UNCHANGED vars
    BY <2>1, ContentSame DEF Converted, vars, guest
  <2>2. ASSUME phase # "done", UNCHANGED output, phase' \notin {"tier", "elf", "symbols", "emit"}
        PROVE  Converted'
    BY <2>2 DEF Converted
  <2>3. ASSUME phase # "done", UNCHANGED <<output, format, edges, batches>>,
               phase \in {"tier", "elf", "symbols", "emit"}
        PROVE  Converted'
    BY <2>3 DEF Converted
  <2>4. CASE GuestNext
    BY <2>2, <2>4, GuestSteps
  <2>5. ASSUME NEW f \in Formats, Start(f) PROVE Converted'
    BY <2>2, <2>5 DEF Start
  <2>6. CASE ParseFails \/ ElfFails \/ CreateFails
    BY <2>2, <2>6 DEF ParseFails, ElfFails, CreateFails, Fail
  <2>7. CASE Parse
    BY <2>7 DEF Parse, Converted, guest
  <2>8. CASE RequireTier \/ OpenElf \/ IndexSymbol \/ FinishIndex
    BY <2>3, <2>8 DEF RequireTier, OpenElf, IndexSymbol, FinishIndex, guest
  <2>9. CASE WriteFails
    BY <2>9 DEF WriteFails, Converted, guest
  <2>10. CASE Emit
    <3>1. /\ phase = "emit" /\ phase' = "done" /\ output' = [state |-> "complete", content |-> Content]
          /\ UNCHANGED <<work, log, seq, batches, format, edges, pos, index>>
      BY <2>10 DEF Emit, guest
    <3>2. Content' = Content
      BY <3>1, ContentSame
    <3> QED
      BY <3>1, <3>2 DEF Converted
  <2> QED
    BY <2>1, <2>4, <2>5, <2>6, <2>7, <2>8, <2>9, <2>10 DEF Next, GuestNext
<1> QED
  BY <1>1, <1>2, ReadingInvariant, PTL DEF Spec
-----------------------------------------------------------------------------
(* The base is a number, so subtracting it keeps addresses apart. *)
LEMMA OffsetInjective ==
    ASSUME Reading, NEW a \in 0 .. AddrSpace - 1, NEW b \in 0 .. AddrSpace - 1, Offset(a) = Offset(b)
    PROVE  a = b
<1>1. work.load_addr \in Nat /\ work.segments \in Seq([exec : BOOLEAN, vaddr : Nat])
  BY WorkloadsAssumption DEF Reading
<1>2. LoadAddr(work.segments) \in Nat
  <2> DEFINE segments == work.segments
             code == {i \in DOMAIN segments : segments[i].exec}
             first == CHOOSE i \in code : \A j \in code : i <= j
  <2>1. CASE code = {}
    BY <2>1 DEF LoadAddr
  <2>2. CASE code # {}
    <3>1. code \subseteq Nat
      BY <1>1
    <3>2. first \in code
      <4> HIDE DEF code
      <4>1. \E i \in code : \A j \in code : i <= j
        BY <2>2, <3>1, SmallestExists
      <4> QED
        BY <4>1
    <3>3. LoadAddr(segments) = segments[first].vaddr
      BY <2>2 DEF LoadAddr
    <3>4. segments[first].vaddr \in Nat
      <4> DEFINE R == [exec : BOOLEAN, vaddr : Nat]
      <4>1. segments \in Seq(R) /\ first \in DOMAIN segments
        BY <1>1, <3>2
      <4> HIDE DEF R, first, segments
      <4>2. segments[first] \in R
        BY <4>1
      <4> QED
        BY <4>2 DEF R
    <3> QED
      BY <3>3, <3>4
  <2> QED
    BY <2>1, <2>2
<1>3. Base \in Nat
  BY <1>1, <1>2 DEF Base
<1>4. AddrSpace \in Nat /\ AddrSpace > 0
  BY SizesAssumption
<1> DEFINE x == a - Base
           y == b - Base
<1>5. x \in Int /\ y \in Int /\ x - y < AddrSpace /\ y - x < AddrSpace /\ x % AddrSpace = y % AddrSpace
  BY <1>3, <1>4 DEF Offset
<1>6. x = y
  <2> HIDE DEF x, y
  <2> DEFINE p == x \div AddrSpace
             q == y \div AddrSpace
             r == x % AddrSpace
  <2>1. p \in Int /\ q \in Int /\ r \in Int /\ x = AddrSpace * p + r /\ y = AddrSpace * q + r
    BY <1>4, <1>5
  <2> HIDE DEF p, q, r
  <2>2. x - y = AddrSpace * (p - q)
    BY <1>4, <2>1
  <2>3. p - q \in Int /\ (p - q >= 1 => AddrSpace * (p - q) >= AddrSpace)
    BY <1>4, <2>1
  <2>4. q - p \in Int /\ (q - p >= 1 => AddrSpace * (q - p) >= AddrSpace)
    BY <1>4, <2>1
  <2>5. y - x = AddrSpace * (q - p)
    BY <1>4, <2>1
  <2>6. ~(p - q >= 1) /\ ~(q - p >= 1)
    BY <1>4, <1>5, <2>1, <2>2, <2>3, <2>4, <2>5
  <2>7. p = q
    BY <2>1, <2>6
  <2> QED
    BY <2>1, <2>7
<1> QED
  BY <1>3, <1>6

(* The lines into s of a table of edges add up to its entries into s. *)
LEMMA LinesInto ==
    ASSUME Reading, NEW t \in [Edges -> Nat], NEW s \in Starts
    PROVE  LET lines == EdgeLines(t)
           IN  Total(lines, {k \in DOMAIN lines : lines[k].to = Offset(s)}) = EntriesInto(t, s)
<1> DEFINE lines == EdgeLines(t)
           L == {k \in DOMAIN lines : lines[k].to = Offset(s)}
           K == {k \in Keys(t) : k[2] = s}
           E == {k \in Edges : k[2] = s}
           g == [k \in DOMAIN lines |-> lines[k].count]
<1>1. Keys(t) \subseteq Edges /\ \A k \in Edges : t[k] \in Nat /\ (k \notin Keys(t) => t[k] = 0)
  BY DEF Keys
<1>2. DOMAIN lines = Keys(t) /\ \A k \in Keys(t) : lines[k].to = Offset(k[2]) /\ lines[k].count = t[k]
  BY DEF EdgeLines
<1>3. \A k \in Edges : k[2] \in 0 .. AddrSpace - 1
  <2>1. \A k \in Edges : k[2] \in Starts
    BY DEF Edges
  <2>2. \A r \in Starts : r \in 0 .. AddrSpace - 1
    BY BlocksAssumption DEF Reading, Starts
  <2> QED
    BY <2>1, <2>2
<1>4. s \in 0 .. AddrSpace - 1
  BY BlocksAssumption DEF Reading, Starts
<1>5. L = K
  <2> HIDE DEF lines
  <2>1. \A k \in Keys(t) : Offset(k[2]) = Offset(s) <=> k[2] = s
    BY <1>1, <1>3, <1>4, OffsetInjective
  <2> QED
    BY <1>2, <2>1
<1>6. IsFiniteSet(E) /\ K \in SUBSET E
  BY <1>1, FiniteEdges, FS_Subset
<1>7. Total(lines, L) = SumFunctionOnSet(t, K)
  <2>1. Total(lines, L) = SumFunctionOnSet(g, K)
    <3> HIDE DEF lines, L, K
    <3> QED
      BY <1>5 DEF Total
  <2>2. \A k \in K : t[k] \in Nat /\ g[k] = t[k]
    <3> HIDE DEF lines
    <3> QED
      BY <1>1, <1>2
  <2>3. IsFiniteSet(K)
    BY <1>6, FS_Subset
  <2> HIDE DEF g, K
  <2>4. SumFunctionOnSet(g, K) = SumFunctionOnSet(t, K)
    BY <2>2, <2>3, SumSame
  <2> QED
    BY <2>1, <2>4
<1>8. SumFunctionOnSet(t, E) = SumFunctionOnSet(t, K)
  <2>1. \A k \in E : t[k] \in Nat /\ (k \notin K => t[k] = 0)
    BY <1>1
  <2> HIDE DEF E, K
  <2> QED
    BY <1>6, <2>1, SumSupport
<1> QED
  BY <1>7, <1>8 DEF EntriesInto

(* The edge of each entry that took one. *)
StepEdge == [i \in Branched |-> <<log[i].from[1].end, log[i].tb.start>>]

LEMMA StepFacts ==
    ASSUME Reading, RunTyped
    PROVE  /\ IsFiniteSet(Branched) /\ Branched \in SUBSET DOMAIN log
           /\ \A i \in Branched : StepEdge[i] \in Edges /\ StepEdge[i] = <<log[i].from[1].end, log[i].tb.start>>
           /\ \A e \in Edges : Taken(e[1], e[2]) = Class(Branched, StepEdge, e)
<1>1. Branched \in SUBSET DOMAIN log
  BY DEF Branched
<1>2. IsFiniteSet(Branched)
  <2>1. IsFiniteSet(DOMAIN log)
    BY LogFacts
  <2> QED
    BY <1>1, <2>1, FS_Subset
<1>3. ASSUME NEW i \in Branched
      PROVE  StepEdge[i] \in Edges /\ StepEdge[i] = <<log[i].from[1].end, log[i].tb.start>>
  <2>1. log[i].from[1] \in work.tbs /\ log[i].tb \in work.tbs
    BY LogFacts DEF Branched
  <2> QED
    BY <2>1 DEF StepEdge, Edges, Ends, Starts
<1>4. ASSUME NEW e \in Edges PROVE Taken(e[1], e[2]) = Class(Branched, StepEdge, e)
  <2>1. e = <<e[1], e[2]>>
    BY DEF Edges
  <2>2. \A i \in Branched : StepEdge[i] = e <=> log[i].from[1].end = e[1] /\ log[i].tb.start = e[2]
    BY <1>3, <2>1, SMTT(30)
  <2> QED
    BY <2>2 DEF Taken, Class
<1> QED
  BY <1>1, <1>2, <1>3, <1>4

(* The branch entries into s: the times it was branched to. *)
LEMMA BranchEntries ==
    ASSUME Reading, RunTyped, Counted, work.tier >= 1, NEW s
    PROVE  /\ MergeEdges(batches) \in [Edges -> Nat]
           /\ EntriesInto(MergeEdges(batches), s) = Cardinality({i \in Branched : log[i].tb.start = s})
<1> DEFINE t == MergeEdges(batches)
           E == {e \in Edges : e[2] = s}
<1>1. t \in [Edges -> Nat]
  <2>1. batches \in Seq([Edges -> Nat]) /\ batches # <<>>
    BY DEF RunTyped
  <2> QED
    BY <2>1, MergeFacts
<1>2. \A e \in E : t[e] = Cardinality(Class(Branched, StepEdge, e))
  <2>1. \A e \in Edges : t[e] = Cardinality(Taken(e[1], e[2]))
    BY DEF Counted
  <2> HIDE DEF t
  <2> QED
    BY <2>1, StepFacts
<1>3. IsFiniteSet(E) /\ IsFiniteSet(Branched)
  BY FiniteEdges, StepFacts, FS_Subset
<1>4. SumFunctionOnSet(t, E) = Cardinality(Classes(Branched, StepEdge, E))
  <2> HIDE DEF t, E
  <2> QED
    BY ONLY <1>2, <1>3, SumClasses
<1>5. Classes(Branched, StepEdge, E) = {i \in Branched : log[i].tb.start = s}
  BY StepFacts DEF Classes
<1>6. EntriesInto(t, s) = SumFunctionOnSet(t, E)
  <2>1. DOMAIN t = Edges
    BY <1>1
  <2> HIDE DEF t
  <2> QED
    BY <2>1 DEF EntriesInto
<1> QED
  BY <1>1, <1>4, <1>5, <1>6

(* The blocks at s share out the entries of s. *)
LEMMA ExecutionsAt ==
    ASSUME Reading, RunTyped, NEW s
    PROVE  /\ \A b : ExecCount(b) \in Nat
           /\ \A i \in DOMAIN log : ExecCount(log[i].tb) > 0
           /\ \A f : (\A b \in work.tbs : f[b] = ExecCount(b)) =>
                 SumFunctionOnSet(f, {b \in work.tbs : b.start = s})
                   = Cardinality({i \in DOMAIN log : log[i].tb.start = s})
<1> DEFINE S == {b \in work.tbs : b.start = s}
           P == DOMAIN log
           h == [i \in P |-> log[i].tb]
<1>1. IsFiniteSet(P) /\ IsFiniteSet(S) /\ \A i \in P : h[i] = log[i].tb /\ log[i].tb \in work.tbs
  <2>1. IsFiniteSet(P) /\ \A i \in P : log[i].tb \in work.tbs
    BY LogFacts
  <2> QED
    BY <2>1, FiniteEdges, FS_Subset
<1>2. \A b : IsFiniteSet(Executions(b)) /\ Executions(b) = Class(P, h, b)
  <2> SUFFICES ASSUME NEW b PROVE IsFiniteSet(Executions(b)) /\ Executions(b) = Class(P, h, b)
    OBVIOUS
  <2>1. Executions(b) \in SUBSET P /\ Executions(b) = Class(P, h, b)
    BY DEF Executions, Class
  <2> HIDE DEF P
  <2>2. IsFiniteSet(Executions(b))
    BY <1>1, <2>1, FS_Subset
  <2> QED
    BY <2>1, <2>2
<1>3. \A b : ExecCount(b) \in Nat
  BY <1>2, FS_CardinalityType DEF ExecCount
<1>4. ASSUME NEW i \in P PROVE ExecCount(log[i].tb) > 0
  <2>1. i \in Executions(log[i].tb)
    BY DEF Executions
  <2>2. ExecCount(log[i].tb) # 0
    BY <1>2, <2>1, FS_EmptySet DEF ExecCount
  <2> QED
    BY <1>3, <2>2
<1>5. ASSUME NEW f, \A b \in work.tbs : f[b] = ExecCount(b)
      PROVE  SumFunctionOnSet(f, S) = Cardinality({i \in P : log[i].tb.start = s})
  <2>1. \A b \in S : f[b] = Cardinality(Class(P, h, b))
    BY <1>2, <1>5 DEF ExecCount
  <2>2. Classes(P, h, S) = {i \in P : log[i].tb.start = s}
    BY <1>1 DEF Classes
  <2> HIDE DEF S, P, h
  <2>3. SumFunctionOnSet(f, S) = Cardinality(Classes(P, h, S))
    BY ONLY <1>1, <2>1, SumClasses
  <2> QED
    BY <2>2, <2>3
<1> QED
  BY <1>3, <1>4, <1>5

(* The lines of the range section of the blocks at s. *)
LEMMA RangesFrom ==
    ASSUME Reading, RunTyped, NEW s \in Starts
    PROVE  LET lines == RangeLines
           IN  Total(lines, {k \in DOMAIN lines : lines[k].from = Offset(s)})
                 = Cardinality({i \in DOMAIN log : log[i].tb.start = s})
<1> DEFINE lines == RangeLines
           L == {k \in DOMAIN lines : lines[k].from = Offset(s)}
           K == {b \in work.tbs : ExecCount(b) > 0 /\ b.start = s}
           S == {b \in work.tbs : b.start = s}
           g == [k \in DOMAIN lines |-> lines[k].count]
           exec == [b \in work.tbs |-> ExecCount(b)]
<1>1. /\ DOMAIN lines = {b \in work.tbs : ExecCount(b) > 0}
      /\ \A b \in DOMAIN lines : lines[b].from = Offset(b.start) /\ lines[b].count = ExecCount(b)
  BY DEF RangeLines
<1>2. \A b \in work.tbs : b.start \in 0 .. AddrSpace - 1
  BY BlocksAssumption DEF Reading
<1>3. s \in 0 .. AddrSpace - 1
  BY <1>2 DEF Starts
<1>4. L = K
  <2> HIDE DEF lines
  <2>1. \A b \in work.tbs : Offset(b.start) = Offset(s) <=> b.start = s
    BY <1>2, <1>3, OffsetInjective
  <2> QED
    BY <1>1, <2>1
<1>5. IsFiniteSet(S) /\ K \in SUBSET S /\ IsFiniteSet(K)
  BY FiniteEdges, FS_Subset
<1>6. \A b \in work.tbs : exec[b] = ExecCount(b) /\ exec[b] \in Nat
  BY ExecutionsAt
<1>7. Total(lines, L) = SumFunctionOnSet(g, K)
  <2> HIDE DEF lines, L, K
  <2> QED
    BY <1>4 DEF Total
<1>8. \A b \in K : exec[b] \in Nat /\ g[b] = exec[b]
  <2> HIDE DEF lines, exec
  <2> QED
    BY <1>1, <1>6
<1>9. \A b \in S : exec[b] \in Nat /\ (b \notin K => exec[b] = 0)
  <2> HIDE DEF exec
  <2> QED
    BY <1>6
<1>10. SumFunctionOnSet(g, K) = SumFunctionOnSet(exec, S)
  <2> HIDE DEF g, K, S, exec
  <2>1. SumFunctionOnSet(g, K) = SumFunctionOnSet(exec, K)
    BY <1>5, <1>8, SumSame
  <2>2. SumFunctionOnSet(exec, S) = SumFunctionOnSet(exec, K)
    BY <1>5, <1>9, SumSupport
  <2> QED
    BY <2>1, <2>2
<1>11. SumFunctionOnSet(exec, S) = Cardinality({i \in DOMAIN log : log[i].tb.start = s})
  <2> HIDE DEF exec
  <2> QED
    BY <1>6, ExecutionsAt
<1> QED
  BY <1>7, <1>10, <1>11

(***************************************************************************)
(* The fall-throughs into s: executions less branch entries, block by      *)
(* block, so that with one block at s that has a predecessor they are the  *)
(* entries without a branch, and otherwise no more.                        *)
(***************************************************************************)
LEMMA FallsInto ==
    ASSUME Reading, RunTyped, Counted, work.tier >= 1, NEW s \in Starts
    PROVE  LET entries == {i \in DOMAIN log : log[i].tb.start = s}
               blocks == {b \in work.tbs : b.start = s}
           IN  /\ FallThroughs \in [Edges -> Nat]
               /\ EntriesInto(FallThroughs, s) <= Cardinality(entries \ Branched)
               /\ Cardinality(blocks) = 1 /\ (\E b \in work.tbs : b.fall_through_addr = s) =>
                     EntriesInto(FallThroughs, s) = Cardinality(entries \ Branched)
<1> DEFINE entries == {i \in DOMAIN log : log[i].tb.start = s}
           blocks == {b \in work.tbs : b.start = s}
           count == [b \in work.tbs |-> FallThroughCount(b)]
           exec == [b \in work.tbs |-> ExecCount(b)]
           merged == MergeEdges(batches)
           branch == EntriesInto(merged, s)
           falls == SumFunctionOnSet(count, blocks)
           all == SumFunctionOnSet(exec, blocks)
           pred == work.pred
           E == {e \in Edges : e[2] = s}
           N == Cardinality(entries)
           M == Cardinality(entries \ Branched)
<1>1. merged \in [Edges -> Nat] /\ IsFiniteSet(Edges) /\ IsFiniteSet(work.tbs)
  BY BranchEntries, FiniteEdges
<1>2. \A a : EntriesInto(merged, a) \in Nat
  <2> HIDE DEF merged
  <2> QED
    BY <1>1, EntriesFacts
<1>3. \A b \in work.tbs : exec[b] = ExecCount(b) /\ exec[b] \in Nat
  BY ExecutionsAt
<1>4. \A b \in work.tbs :
         /\ count[b] = FallThroughCount(b) /\ count[b] \in Nat
         /\ count[b] = IF exec[b] > EntriesInto(merged, b.start) THEN exec[b] - EntriesInto(merged, b.start) ELSE 0
  <2> SUFFICES ASSUME NEW b \in work.tbs
               PROVE  /\ count[b] = FallThroughCount(b) /\ count[b] \in Nat
                      /\ count[b] = IF exec[b] > EntriesInto(merged, b.start)
                                    THEN exec[b] - EntriesInto(merged, b.start) ELSE 0
    OBVIOUS
  <2>1. FallThroughCount(b) = IF exec[b] > EntriesInto(merged, b.start)
                              THEN exec[b] - EntriesInto(merged, b.start) ELSE 0
    BY DEF FallThroughCount
  <2>2. count[b] = FallThroughCount(b)
    OBVIOUS
  <2>3. exec[b] \in Nat /\ EntriesInto(merged, b.start) \in Nat
    BY <1>2, <1>3
  <2> HIDE DEF exec, merged, count
  <2> QED
    BY <2>1, <2>2, <2>3
<1>5. pred \in Predecessors(work.tbs)
  BY BlocksAssumption DEF Reading
<1>6. /\ DOMAIN pred = {b.fall_through_addr : b \in work.tbs}
      /\ \A r \in DOMAIN pred : pred[r] \in Ends
  BY <1>5 DEF Predecessors, Ends
<1>7. IsFiniteSet(blocks) /\ falls \in Nat /\ all \in Nat
      /\ (falls = 0 \/ falls + branch <= all)
  <2>1. IsFiniteSet(blocks)
    BY <1>1, FS_Subset
  <2>2. \A b \in blocks : exec[b] \in Nat /\ count[b] = IF exec[b] > branch THEN exec[b] - branch ELSE 0
    BY <1>3, <1>4
  <2>3. branch \in Nat
    BY <1>2
  <2> HIDE DEF blocks, exec, count, branch
  <2> QED
    BY <2>1, <2>2, <2>3, SaturatingSum
<1>8. all = N
  <2> HIDE DEF exec
  <2> QED
    BY <1>3, ExecutionsAt
<1>9. N \in Nat /\ M \in Nat /\ branch \in Nat /\ M = N - branch
  <2>1. IsFiniteSet(DOMAIN log) /\ entries \in SUBSET DOMAIN log
    BY LogFacts
  <2>2. IsFiniteSet(entries)
    BY <2>1, FS_Subset
  <2>3. entries \cap Branched = {i \in Branched : log[i].tb.start = s}
    BY DEF Branched
  <2>4. branch = Cardinality(entries \cap Branched)
    BY <2>3, BranchEntries
  <2> HIDE DEF entries, branch
  <2>5. /\ IsFiniteSet(entries \ Branched)
        /\ Cardinality(entries \ Branched) = Cardinality(entries) - Cardinality(entries \cap Branched)
    BY <2>2, FS_Difference
  <2>6. IsFiniteSet(entries \cap Branched)
    BY <2>2, FS_Intersection
  <2> QED
    BY <2>2, <2>4, <2>5, <2>6, FS_CardinalityType
<1>10. ASSUME NEW e \in Edges
       PROVE  /\ FallThroughs[e] \in Nat
              /\ e[2] = s => FallThroughs[e] = IF s \in DOMAIN pred /\ pred[s] = e[1] THEN falls ELSE 0
  <2> DEFINE B == {b \in work.tbs : b.start = e[2]}
  <2>1. FallThroughs[e] = IF e[2] \in DOMAIN pred /\ pred[e[2]] = e[1]
                          THEN SumFunctionOnSet(count, B) ELSE 0
    BY DEF FallThroughs
  <2>2. IsFiniteSet(B) /\ \A b \in B : count[b] \in Nat
    BY <1>1, <1>4, FS_Subset
  <2>3. e[2] = s => B = blocks
    OBVIOUS
  <2> HIDE DEF B, count, blocks
  <2>4. SumFunctionOnSet(count, B) \in Nat
    BY <2>2, SumIsNat
  <2> QED
    BY <2>1, <2>3, <2>4
<1>11. FallThroughs \in [Edges -> Nat]
  <2>1. FallThroughs = [e \in Edges |-> FallThroughs[e]]
    BY DEF FallThroughs
  <2> QED
    BY <1>10, <2>1
<1>12. EntriesInto(FallThroughs, s) = SumFunctionOnSet(FallThroughs, E) /\ IsFiniteSet(E)
  <2>1. DOMAIN FallThroughs = Edges
    BY <1>11
  <2> QED
    BY <1>1, <2>1, FS_Subset DEF EntriesInto
<1>13. EntriesInto(FallThroughs, s) = IF s \in DOMAIN pred THEN falls ELSE 0
  <2> DEFINE y == <<pred[s], s>>
             n == IF s \in DOMAIN pred THEN falls ELSE 0
  <2>1. \A e \in E : e = <<e[1], s>> /\ e \in Edges /\ e[2] = s
    BY DEF Edges
  <2>2. \A e \in E : e = y <=> e[1] = pred[s]
    BY <2>1
  <2>3. s \in DOMAIN pred => y \in E
    BY <1>6 DEF Edges
  <2>4. n \in Nat
    BY <1>7
  <2> HIDE DEF y, E, falls
  <2>5. \A e \in E : FallThroughs[e] = IF e = y THEN n ELSE 0
    BY <1>10, <2>1, <2>2
  <2> HIDE DEF n
  <2>6. SumFunctionOnSet(FallThroughs, E) = IF y \in E THEN n ELSE 0
    BY <1>12, <2>4, <2>5, SumPoint
  <2> QED
    BY <1>12, <2>3, <2>6 DEF n
<1>14. ASSUME Cardinality(blocks) = 1 PROVE falls = M
  <2>1. PICK b : blocks = {b}
    <3> HIDE DEF blocks
    <3> QED
      BY <1>7, <1>14, FS_Singleton
  <2>2. b \in work.tbs /\ b.start = s
    BY <2>1
  <2>3. \A f : (f[b] \in Nat) => SumFunctionOnSet(f, blocks) = f[b]
    <3> SUFFICES ASSUME NEW f, f[b] \in Nat PROVE SumFunctionOnSet(f, blocks) = f[b]
      OBVIOUS
    <3>1. \A x \in {b} : f[x] = IF x = b THEN f[b] ELSE 0
      OBVIOUS
    <3>2. IsFiniteSet({b})
      BY FS_Singleton
    <3>3. SumFunctionOnSet(f, {b}) = IF b \in {b} THEN f[b] ELSE 0
      BY <3>1, <3>2, SumPoint
    <3> QED
      BY <2>1, <3>3
  <2>4. exec[b] \in Nat /\ count[b] \in Nat /\ count[b] = IF exec[b] > branch THEN exec[b] - branch ELSE 0
    BY <1>3, <1>4, <2>2
  <2> HIDE DEF exec, count, blocks, branch
  <2>5. all = exec[b] /\ falls = count[b]
    BY <2>3, <2>4
  <2> QED
    BY <1>8, <1>9, <2>4, <2>5
<1>15. (\E b \in work.tbs : b.fall_through_addr = s) => s \in DOMAIN pred
  BY <1>6
<1> HIDE DEF falls, all, branch, M, N, pred, entries, blocks
<1>16. EntriesInto(FallThroughs, s) <= M
  BY <1>7, <1>8, <1>9, <1>13
<1> QED
  BY <1>11, <1>13, <1>14, <1>15, <1>16 DEF M, entries, blocks

(***************************************************************************)
(* For every program, run, batching and base address: in the BOLT, AutoFDO *)
(* and GCC outputs the branch lines into a block add up to the times it    *)
(* was branched to and its range lines to its executions; fall-through     *)
(* lines add up to the other entries, or to fewer where blocks share the   *)
(* start or none precedes it.                                              *)
(***************************************************************************)
THEOREM FlowIsConserved == Spec => []FlowConserved
<1>1. Reading /\ RunTyped /\ Counted /\ Converted /\ OutputIntact => FlowConserved
  <2> SUFFICES ASSUME Reading, RunTyped, Counted, Converted, OutputIntact,
                      NEW f \in {"bolt", "autofdo", "gcc-autofdo"}, Written(f), NEW s \in Starts
               PROVE  LET entries == {i \in DOMAIN log : log[i].tb.start = s}
                          blocks == {b \in work.tbs : b.start = s}
                          into(lines) == Total(lines, {k \in DOMAIN lines : lines[k].to = Offset(s)})
                      IN  /\ into(output.content.branches) = Cardinality(entries \cap Branched)
                          /\ f = "bolt" =>
                                /\ into(output.content.falls) <= Cardinality(entries \ Branched)
                                /\ Cardinality(blocks) = 1 /\ (\E b \in work.tbs : b.fall_through_addr = s) =>
                                      into(output.content.falls) = Cardinality(entries \ Branched)
                          /\ f # "bolt" =>
                                LET ranges == output.content.ranges
                                IN  Total(ranges, {k \in DOMAIN ranges : ranges[k].from = Offset(s)})
                                      = Cardinality(entries)
    BY DEF FlowConserved
  <2> DEFINE entries == {i \in DOMAIN log : log[i].tb.start = s}
             into(lines) == Total(lines, {k \in DOMAIN lines : lines[k].to = Offset(s)})
  <2>1. output.state = "complete" /\ format = f /\ edges = MergeEdges(batches) /\ output.content = Content
    BY DEF Written, Converted
  <2>2. /\ output.content.branches = EdgeLines(edges)
        /\ f = "bolt" => output.content.falls = EdgeLines(FallThroughs)
        /\ f # "bolt" => output.content.ranges = RangeLines
    BY <2>1 DEF Content, EmitBolt, EmitAutofdo, EmitGccAutofdo
  <2>3. work.tier >= 1
    <3>1. output # OldOutput
      BY <2>1 DEF OldOutput
    <3> QED
      BY <2>1, <3>1 DEF OutputIntact, MinTier
  <2>4. into(EdgeLines(edges)) = Cardinality(entries \cap Branched)
    <3>1. edges \in [Edges -> Nat] /\ EntriesInto(edges, s) = Cardinality({i \in Branched : log[i].tb.start = s})
      BY <2>1, <2>3, BranchEntries
    <3>2. entries \cap Branched = {i \in Branched : log[i].tb.start = s}
      BY DEF Branched
    <3> QED
      BY <3>1, <3>2, LinesInto
  <2>5. into(EdgeLines(FallThroughs)) = EntriesInto(FallThroughs, s)
    BY <2>3, FallsInto, LinesInto
  <2>6. LET ranges == RangeLines
        IN  Total(ranges, {k \in DOMAIN ranges : ranges[k].from = Offset(s)}) = Cardinality(entries)
    BY RangesFrom
  <2>7. /\ into(EdgeLines(FallThroughs)) <= Cardinality(entries \ Branched)
        /\ (Cardinality({b \in work.tbs : b.start = s}) = 1 /\ \E b \in work.tbs : b.fall_through_addr = s) =>
               into(EdgeLines(FallThroughs)) = Cardinality(entries \ Branched)
    BY <2>3, <2>5, FallsInto
  <2> QED
    BY <2>2, <2>4, <2>6, <2>7
<1> QED
  BY <1>1, ReadingInvariant, RunInvariant, ConvertedInvariant, OutputKept, PTL
-----------------------------------------------------------------------------
(* The total of some records, each with the size of its class as its count. *)
LEMMA TotalClasses ==
    ASSUME NEW lines, NEW K, K \subseteq DOMAIN lines, IsFiniteSet(K), NEW P, IsFiniteSet(P), NEW h,
           \A k \in K : lines[k].count = Cardinality(Class(P, h, k))
    PROVE  Total(lines, K) = Cardinality(Classes(P, h, K))
<1> DEFINE g == [k \in DOMAIN lines |-> lines[k].count]
<1>1. \A k \in K : g[k] = Cardinality(Class(P, h, k))
  OBVIOUS
<1>2. IsFiniteSet(K) /\ IsFiniteSet(P)
  OBVIOUS
<1>3. SumFunctionOnSet(g, K) = Cardinality(Classes(P, h, K))
  <2> HIDE DEF g
  <2> QED
    BY ONLY <1>1, <1>2, SumClasses
<1> QED
  BY <1>3 DEF Total

(* A direct call that no other block reaches into has its own block's count. *)
LEMMA CallCountOwn ==
    ASSUME Reading, NEW exec, NEW b \in work.tbs, Unshadowed(work.tbs, b, b.end)
    PROVE  CallCount(work.last, exec, b.end) = exec[b]
<1> DEFINE last == work.last
<1>1. \A c \in work.tbs : c.start \in Nat /\ c.end \in Nat /\ c.start <= c.end
  BY BlocksAssumption, SizesAssumption DEF Reading
<1>2. /\ DOMAIN last = {c.start : c \in work.tbs}
      /\ \A s \in DOMAIN last : last[s] \in work.tbs /\ last[s].start = s
  BY BlocksAssumption DEF Reading, LastAtStart
<1>3. last[b.start] = b /\ b.start \in DOMAIN last
  BY <1>1, <1>2 DEF Unshadowed
<1>4. \A r \in DOMAIN last : r <= b.end => r <= b.start
  <2> SUFFICES ASSUME NEW c \in work.tbs, c.start <= b.end PROVE c.start <= b.start
    BY <1>2
  <2> QED
    BY <1>1 DEF Unshadowed
<1>5. IndexedStarts(last, b.end) = {b.start}
  <2>1. b.start \in IndexedStarts(last, b.end)
    BY <1>1, <1>3, <1>4 DEF IndexedStarts
  <2>2. ASSUME NEW s \in IndexedStarts(last, b.end) PROVE s = b.start
    <3>1. s \in DOMAIN last /\ s <= b.end /\ b.start <= s
      BY <1>1, <1>3 DEF IndexedStarts
    <3>2. s \in Nat /\ s <= b.start
      BY <1>1, <1>2, <1>4, <3>1
    <3> QED
      BY <1>1, <3>1, <3>2
  <2> QED
    BY <2>1, <2>2
<1> HIDE DEF last
<1>6. \E s \in IndexedStarts(last, b.end) : b.end <= last[s].end
  BY <1>1, <1>3, <1>5
<1>7. (CHOOSE s \in IndexedStarts(last, b.end) : TRUE) = b.start
  BY <1>5
<1> QED
  BY <1>3, <1>6, <1>7 DEF CallCount, last

(* No symbol is indexed at address 0. *)
LEMMA NoNameAtZero ==
    ASSUME Reading, Indexed
    PROVE  NameAt(index, 0) = Unknown
<1>1. \A a \in DOMAIN index : a \in Nat /\ a # 0
  BY FunctionFields DEF Indexed, ElfFunctions, Indexable
<1>2. SymbolAt(index, 0) = {}
  BY <1>1 DEF SymbolAt
<1> QED
  BY <1>2 DEF NameAt

(* Direct calls from f to g: their records add up to their executions. *)
LEMMA DirectTotal ==
    ASSUME Reading, RunTyped, work.tier >= 2, NEW f, NEW g,
           \A b \in work.tbs : b.kind = "direct" => Unshadowed(work.tbs, b, b.end)
    PROVE  Total(DirectCallRecords, Between(DirectCallRecords, f, g))
             = Cardinality(DirectCallsBetween(f, g))
<1> DEFINE calls == DirectCallRecords
           K == Between(calls, f, g)
           exec == [b \in work.tbs |-> ExecCount(b)]
           Sites == {<<b.end, b.target>> : b \in {b \in work.tbs : b.kind = "direct"}}
           P == {i \in DOMAIN log : log[i].tb.kind = "direct"}
           h == [i \in DOMAIN log |-> <<log[i].tb.end, log[i].tb.target>>]
<1>1. IsFiniteSet(DOMAIN log) /\ \A i \in DOMAIN log : log[i].tb \in work.tbs
  BY LogFacts
<1>2. IsFiniteSet(P)
  BY <1>1, FS_Subset
<1>3. calls = [c \in Sites |-> [callsite |-> c[1], target |-> c[2], count |-> CallCount(work.last, exec, c[1])]]
  <2>1. work.tier \in Nat
    BY WorkloadsAssumption, SMTT(30) DEF Reading
  <2> QED
    BY <2>1 DEF DirectCallRecords
<1>4. /\ DOMAIN calls = Sites
      /\ \A c \in Sites : calls[c].callsite = c[1] /\ calls[c].target = c[2]
                          /\ calls[c].count = CallCount(work.last, exec, c[1])
  BY <1>3
<1> HIDE DEF calls
<1>5. K = {c \in Sites : NameAt(index, c[1]) = f /\ NameAt(index, c[2]) = g}
  BY <1>4 DEF Between
<1>6. IsFiniteSet(K) /\ K \subseteq DOMAIN calls
  <2> DEFINE D == {b \in work.tbs : b.kind = "direct"}
             site == [b \in D |-> <<b.end, b.target>>]
  <2>1. IsFiniteSet(D)
    BY FiniteEdges, FS_Subset
  <2>2. Sites = {site[b] : b \in D}
    OBVIOUS
  <2>3. IsFiniteSet(Sites)
    <3> HIDE DEF site, D, Sites
    <3> QED
      BY <2>1, <2>2, FiniteImage
  <2>4. K \in SUBSET Sites
    BY <1>5
  <2> HIDE DEF Sites, K
  <2> QED
    BY <1>4, <2>3, <2>4, FS_Subset
<1>7. ASSUME NEW c \in Sites PROVE calls[c].count = Cardinality(Class(P, h, c))
  <2>1. PICK b \in work.tbs : b.kind = "direct" /\ c = <<b.end, b.target>>
    OBVIOUS
  <2>2. CallCount(work.last, exec, b.end) = exec[b]
    <3> HIDE DEF exec
    <3> QED
      BY <2>1, CallCountOwn
  <2>3. calls[c].count = ExecCount(b)
    BY <1>4, <2>1, <2>2
  <2>4. ASSUME NEW d \in work.tbs, d.kind = "direct", d.end = b.end PROVE d = b
    <3>1. b.start \in Nat /\ d.start \in Nat /\ b.start <= b.end /\ d.start <= d.end /\ b.end \in Nat
      BY BlocksAssumption, SizesAssumption DEF Reading
    <3>2. Unshadowed(work.tbs, b, b.end) /\ Unshadowed(work.tbs, d, d.end)
      BY <2>1, <2>4
    <3> QED
      BY <2>4, <3>1, <3>2 DEF Unshadowed
  <2>5. Class(P, h, c) = Executions(b)
    <3>1. \A i \in DOMAIN log : log[i].tb = b <=> i \in P /\ h[i] = c
      BY <1>1, <2>1, <2>4
    <3> QED
      BY <3>1 DEF Class, Executions
  <2> QED
    BY <2>3, <2>5 DEF ExecCount
<1>8. Total(calls, K) = Cardinality(Classes(P, h, K))
  <2>1. \A k \in K : calls[k].count = Cardinality(Class(P, h, k))
    BY <1>4, <1>6, <1>7
  <2> HIDE DEF K, P, h
  <2> QED
    BY ONLY <1>2, <1>6, <2>1, TotalClasses
<1>9. Classes(P, h, K) = DirectCallsBetween(f, g)
  BY <1>1, <1>5 DEF Classes, DirectCallsBetween
<1> QED
  BY <1>8, <1>9 DEF calls

(* Indirect calls from f to g, likewise. *)
LEMMA IndirectTotal ==
    ASSUME Reading, RunTyped, Indexed, work.tier >= 2, NEW f, NEW g, g # Unknown
    PROVE  Total(IndirectCallRecords,
                 Between(IndirectCallRecords, f, g) \cap Resolved(IndirectCallRecords))
             = Cardinality(IndirectCallsBetween(f, g))
<1> DEFINE calls == IndirectCallRecords
           K == Between(calls, f, g) \cap Resolved(calls)
           Sites == {b.end : b \in {b \in work.tbs : b.kind = "indirect"}} \X Starts
<1>1. calls = [e \in Sites |-> [callsite |-> e[1], target |-> e[2], count |-> Cardinality(Taken(e[1], e[2]))]]
  <2>1. work.tier \in Nat
    BY WorkloadsAssumption DEF Reading
  <2> QED
    BY <2>1 DEF IndirectCallRecords
<1>2. /\ DOMAIN calls = Sites
      /\ \A e \in Sites : calls[e].callsite = e[1] /\ calls[e].target = e[2]
                          /\ calls[e].count = Cardinality(Taken(e[1], e[2]))
  BY <1>1
<1> HIDE DEF calls
<1>3. K = {e \in Sites : NameAt(index, e[1]) = f /\ NameAt(index, e[2]) = g}
  BY <1>2, NoNameAtZero DEF Between, Resolved
<1>4. Sites \subseteq Edges
  BY DEF Edges, Ends
<1>5. IsFiniteSet(K) /\ K \subseteq DOMAIN calls /\ K \subseteq Edges
  <2>1. K \in SUBSET Edges /\ K \subseteq Sites
    BY <1>3, <1>4
  <2> HIDE DEF K
  <2> QED
    BY <1>2, <2>1, FiniteEdges, FS_Subset
<1>6. \A e \in K : calls[e].count = Cardinality(Class(Branched, StepEdge, e))
  <2> HIDE DEF K
  <2> QED
    BY <1>2, <1>5, StepFacts
<1>7. Total(calls, K) = Cardinality(Classes(Branched, StepEdge, K))
  <2>1. IsFiniteSet(Branched)
    BY StepFacts
  <2> HIDE DEF K
  <2> QED
    BY ONLY <1>5, <1>6, <2>1, TotalClasses
<1>8. Classes(Branched, StepEdge, K) = IndirectCallsBetween(f, g)
  <2>1. ASSUME NEW i \in Branched
        PROVE  /\ StepEdge[i] = <<log[i].from[1].end, log[i].tb.start>>
               /\ StepEdge[i] \in Sites <=> log[i].from[1].kind = "indirect"
    <3>1. /\ StepEdge[i] = <<log[i].from[1].end, log[i].tb.start>>
          /\ log[i].from[1] \in work.tbs /\ log[i].tb \in work.tbs
      BY StepFacts, LogFacts DEF Branched
    <3>2. \A b \in work.tbs : b.end = log[i].from[1].end => b.kind = log[i].from[1].kind
      BY <3>1, BlocksAssumption DEF Reading
    <3> QED
      BY <3>1, <3>2 DEF Starts
  <2>2. ASSUME NEW i \in Branched
        PROVE  StepEdge[i] \in K <=> /\ log[i].from[1].kind = "indirect"
                                     /\ NameAt(index, log[i].from[1].end) = f
                                     /\ NameAt(index, log[i].tb.start) = g
    <3> HIDE DEF Sites
    <3> QED
      BY <1>3, <2>1
  <2> HIDE DEF K
  <2> QED
    BY <2>2 DEF Classes, Moves, IndirectCallsBetween
<1> QED
  BY <1>7, <1>8 DEF calls

(* Edges between two functions, likewise. *)
LEMMA CrossTotal ==
    ASSUME Reading, RunTyped, Counted, work.tier >= 1, edges = MergeEdges(batches), NEW f, NEW g
    PROVE  SumFunctionOnSet(edges, CrossEdges(f, g)) = IF f # g THEN Cardinality(Moves(f, g)) ELSE 0
<1> DEFINE K == CrossEdges(f, g)
<1>1. K \in SUBSET Edges
  BY DEF CrossEdges
<1>2. IsFiniteSet(K) /\ IsFiniteSet(Branched)
  <2> HIDE DEF K
  <2> QED
    BY <1>1, FiniteEdges, StepFacts, FS_Subset
<1>3. \A e \in K : edges[e] = Cardinality(Class(Branched, StepEdge, e))
  <2> HIDE DEF K
  <2> QED
    BY <1>1, StepFacts DEF Counted
<1>4. SumFunctionOnSet(edges, K) = Cardinality(Classes(Branched, StepEdge, K))
  <2> HIDE DEF K
  <2> QED
    BY ONLY <1>2, <1>3, SumClasses
<1>5. CASE f # g
  <2>1. Classes(Branched, StepEdge, K) = Moves(f, g)
    BY <1>5, StepFacts DEF Classes, CrossEdges, Moves
  <2> QED
    BY <1>4, <1>5, <2>1
<1>6. CASE f = g
  <2>1. Classes(Branched, StepEdge, K) = {}
    BY <1>6 DEF Classes, CrossEdges
  <2> QED
    BY <1>4, <1>6, <2>1, FS_EmptySet
<1> QED
  BY <1>5, <1>6

(***************************************************************************)
(* For every program and run, however its edges were batched: the weight   *)
(* between two functions in the call graph is the number of transfers      *)
(* between them and, from tier 2 on, the number of calls again.            *)
(***************************************************************************)
THEOREM CallGraphIsWeighted == Spec => []CallGraphWeights
<1>1. Reading /\ RunTyped /\ Counted /\ Converted /\ IndexFinal /\ OutputIntact => CallGraphWeights
  <2> SUFFICES ASSUME Reading, RunTyped, Counted, Converted, IndexFinal, OutputIntact, Written("cgprof"),
                      \A b \in work.tbs : b.kind = "direct" => Unshadowed(work.tbs, b, b.end),
                      NEW f \in Names, NEW g \in Names
               PROVE  output.content[<<f, g>>] =
                        (IF f # g THEN Cardinality(Moves(f, g)) ELSE 0)
                        + (IF work.tier >= 2 THEN Cardinality(DirectCallsBetween(f, g)) + Cardinality(IndirectCallsBetween(f, g)) ELSE 0)
    BY DEF CallGraphWeights
  <2>1. /\ output.state = "complete" /\ format = "cgprof" /\ phase = "done"
        /\ edges = MergeEdges(batches) /\ output.content = EmitCgprof
    BY DEF Written, Converted, Content
  <2>2. work.tier >= 1 /\ work.tier \in Nat
    <3>1. output # OldOutput
      BY <2>1 DEF OldOutput
    <3>2. work.tier \in Nat
      BY WorkloadsAssumption, SMTT(30) DEF Reading
    <3> QED
      BY <2>1, <3>1, <3>2 DEF OutputIntact, MinTier
  <2>3. Indexed
    BY <2>1 DEF IndexFinal
  <2> DEFINE D == DirectCallsBetween(f, g)
             I == IndirectCallsBetween(f, g)
             direct == Total(DirectCallRecords, Between(DirectCallRecords, f, g))
             indirect == Total(IndirectCallRecords,
                               Between(IndirectCallRecords, f, g) \cap Resolved(IndirectCallRecords))
             cross == SumFunctionOnSet(edges, CrossEdges(f, g))
  <2>4. output.content[<<f, g>>] = direct + indirect + cross
    BY <2>1 DEF EmitCgprof
  <2>5. cross = IF f # g THEN Cardinality(Moves(f, g)) ELSE 0
    BY <2>1, <2>2, CrossTotal
  <2>6. D \in SUBSET DOMAIN log /\ I \in SUBSET DOMAIN log /\ Moves(f, g) \in SUBSET DOMAIN log
    BY DEF DirectCallsBetween, IndirectCallsBetween, Moves, Branched
  <2> HIDE DEF D, I, direct, indirect, cross
  <2>7. Cardinality(D) \in Nat /\ Cardinality(I) \in Nat /\ Cardinality(Moves(f, g)) \in Nat
    <3>1. IsFiniteSet(D) /\ IsFiniteSet(I) /\ IsFiniteSet(Moves(f, g))
      BY <2>6, LogFacts, FS_Subset
    <3> QED
      BY <3>1, FS_CardinalityType
  <2>8. CASE work.tier >= 2
    <3>1. direct = Cardinality(D)
      BY <2>8, DirectTotal DEF direct, D
    <3>2. g # Unknown
      BY DEF Names
    <3>3. indirect = Cardinality(I)
      BY <2>3, <2>8, <3>2, IndirectTotal DEF indirect, I
    <3>4. cross \in Nat
      BY <2>5, <2>7
    <3> QED
      BY <2>4, <2>5, <2>7, <2>8, <3>1, <3>3, <3>4 DEF D, I
  <2>9. CASE ~(work.tier >= 2)
    <3>1. DirectCallRecords = <<>> /\ IndirectCallRecords = <<>>
      BY <2>2, <2>9 DEF DirectCallRecords, IndirectCallRecords
    <3>2. \A K : K = {} => Total(<<>>, K) = 0
      BY SumUnfold, FS_EmptySet DEF Total
    <3>3. \A c : c = <<>> => Between(c, f, g) = {} /\ Between(c, f, g) \cap Resolved(c) = {}
      BY DEF Between
    <3>4. direct = 0 /\ indirect = 0
      BY <3>1, <3>2, <3>3 DEF direct, indirect
    <3>5. cross \in Nat
      BY <2>5, <2>7
    <3> QED
      BY <2>4, <2>5, <2>9, <3>4, <3>5
  <2> QED
    BY <2>8, <2>9
<1> QED
  BY <1>1, ReadingInvariant, RunInvariant, ConvertedInvariant, IndexFinalInvariant, OutputKept, PTL
-----------------------------------------------------------------------------
(***************************************************************************)
(* The numbers: drawn in order, none twice; a block's is one that was      *)
(* drawn on entering it; while a callback runs its vCPU enters no block,   *)
(* so what a vCPU enters later is numbered later, by whoever draws it; a   *)
(* vCPU draws at most one number for a block.                              *)
(***************************************************************************)
Drew(k) == k \in DOMAIN log /\ log[k].num # 0
Later(k, m) == \E r \in k + 1 .. m : log[r].vcpu = log[k].vcpu

NumbersDistinct ==
    \A k, m \in DOMAIN log : /\ log[k].num < counter
                             /\ Drew(k) /\ log[k].num = log[m].num => k = m
NumbersStored ==
    /\ \A b \in work.tbs : seq[b] # 0 => \E k \in DOMAIN log : log[k].tb = b /\ log[k].num = seq[b]
    /\ \A k \in DOMAIN log : Drew(k) /\ call[log[k].vcpu] # k => seq[log[k].tb] # 0
CallsCurrent ==
    \A v \in work.vcpus : call[v] # 0 =>
        /\ log[call[v]].vcpu = v
        /\ \A r \in DOMAIN log : log[r].vcpu = v => r <= call[v]
NumbersOrdered ==
    \A k, m \in DOMAIN log : Drew(k) /\ Drew(m) /\ Later(k, m) => log[k].num < log[m].num
NumbersOnce ==
    \A k, i \in DOMAIN log :
        (Drew(k) \/ call[log[k].vcpu] = k) /\ i < k => log[i].vcpu # log[k].vcpu \/ log[i].tb # log[k].tb

Numbers == NumbersDistinct /\ NumbersStored /\ CallsCurrent /\ NumbersOrdered /\ NumbersOnce

(* A vCPU enters a block. *)
LEMMA NumbersEnter ==
    ASSUME RunTyped, Numbers, NEW v \in work.vcpus, NEW b \in work.tbs, EnterBlock(v, b)
    PROVE  Numbers'
<1> DEFINE n == Len(log)
           m == n + 1
           x == [vcpu |-> v, tb |-> b, from |-> at[v], num |-> 0]
<1>1. /\ n \in Nat /\ DOMAIN log = 1 .. n
      /\ \A k \in DOMAIN log : k \in Nat /\ log[k].num \in Nat /\ log[k].vcpu \in work.vcpus
                              /\ log[k].tb \in work.tbs
      /\ call \in [work.vcpus -> 0 .. n] /\ counter \in Nat
  BY LogFacts DEF RunTyped
<1>2. /\ log' = Append(log, x) /\ call[v] = 0
      /\ \/ call' = [call EXCEPT ![v] = 0]
         \/ call' = [call EXCEPT ![v] = m] /\ OwnFirst(v, b)
      /\ UNCHANGED <<work, counter, seq>>
  BY DEF EnterBlock
<1>3. x.vcpu = v /\ x.tb = b /\ x.num = 0
  OBVIOUS
<1> HIDE DEF x
<1>4. /\ DOMAIN log' = 1 .. m /\ log'[m] = x /\ \A k \in DOMAIN log : log'[k] = log[k]
  BY <1>1, <1>2 DEF RunTyped
<1>5. /\ m \in Nat /\ m \in DOMAIN log' /\ \A k \in DOMAIN log : k \in DOMAIN log' /\ k < m /\ k \in Nat
      /\ \A k \in DOMAIN log' : k \in DOMAIN log \/ k = m
      /\ \A w \in work.vcpus : call[w] # m /\ (call[w] # 0 => call[w] \in DOMAIN log)
  <2>1. m \in Nat /\ n < m
    BY <1>1
  <2> QED
    BY <1>1, <1>4, <2>1
<1>6. \A k : Drew(k)' <=> Drew(k)
  <2>1. log'[m].num = 0 /\ m \notin DOMAIN log
    BY <1>3, <1>4, <1>5
  <2> QED
    BY <1>4, <1>5, <2>1 DEF Drew
<1>7. /\ call' \in [work.vcpus -> 0 .. m] /\ (call'[v] = 0 \/ (call'[v] = m /\ OwnFirst(v, b)))
      /\ \A w \in work.vcpus \ {v} : call'[w] = call[w]
  <2>1. \A w \in work.vcpus : call[w] \in 0 .. m
    BY <1>1
  <2>2. 0 \in 0 .. m /\ m \in 0 .. m
    BY <1>1
  <2> QED
    BY <1>1, <1>2, <2>1, <2>2
<1>8. NumbersDistinct'
  <2>1. counter > 0
    BY DEF RunTyped
  <2>2. \A k \in DOMAIN log' : log'[k].num < counter'
    BY <1>1, <1>2, <1>3, <1>4, <1>5, <2>1 DEF Numbers, NumbersDistinct
  <2>3. ASSUME NEW k \in DOMAIN log', NEW i \in DOMAIN log', Drew(k)', log'[k].num = log'[i].num
        PROVE  k = i
    <3>1. Drew(k) /\ k \in DOMAIN log /\ log'[k] = log[k]
      BY <1>4, <1>6, <2>3 DEF Drew
    <3>2. i # m
      BY <1>3, <1>4, <2>3, <3>1 DEF Drew
    <3>3. i \in DOMAIN log /\ log'[i] = log[i]
      BY <1>4, <1>5, <3>2
    <3> QED
      BY <2>3, <3>1, <3>3 DEF Numbers, NumbersDistinct
  <2> QED
    BY <2>2, <2>3 DEF NumbersDistinct
<1>9. NumbersStored'
  <2>1. ASSUME NEW c \in work.tbs, seq[c] # 0
        PROVE  \E k \in DOMAIN log' : log'[k].tb = c /\ log'[k].num = seq[c]
    <3>1. PICK k \in DOMAIN log : log[k].tb = c /\ log[k].num = seq[c]
      BY <2>1 DEF Numbers, NumbersStored
    <3>2. k \in DOMAIN log' /\ log'[k] = log[k]
      BY <1>4, <1>5
    <3> QED
      BY <3>1, <3>2
  <2>2. ASSUME NEW k \in DOMAIN log', Drew(k)', call'[log'[k].vcpu] # k
        PROVE  seq[log'[k].tb] # 0
    <3>1. Drew(k) /\ k \in DOMAIN log /\ log'[k] = log[k]
      BY <1>4, <1>6, <2>2 DEF Drew
    <3>2. call[log[k].vcpu] # k
      BY <1>1, <1>2, <1>5, <1>7, <2>2, <3>1
    <3> QED
      BY <3>1, <3>2 DEF Numbers, NumbersStored
  <2> QED
    BY <1>2, <2>1, <2>2 DEF NumbersStored
<1>10. CallsCurrent'
  <2> SUFFICES ASSUME NEW w \in work.vcpus, call'[w] # 0
               PROVE  log'[call'[w]].vcpu = w /\ \A r \in DOMAIN log' : log'[r].vcpu = w => r <= call'[w]
    BY <1>2 DEF CallsCurrent
  <2>1. CASE w = v
    <3>1. call'[w] = m
      BY <1>7, <2>1
    <3>2. \A r \in DOMAIN log' : r <= m
      BY <1>5
    <3> QED
      BY <1>3, <1>4, <2>1, <3>1, <3>2
  <2>2. CASE w # v
    <3>1. call'[w] = call[w] /\ call[w] # 0 /\ call[w] \in DOMAIN log
      BY <1>5, <1>7, <2>2
    <3>2. log[call[w]].vcpu = w /\ \A r \in DOMAIN log : log[r].vcpu = w => r <= call[w]
      BY <3>1 DEF Numbers, CallsCurrent
    <3>3. log'[m].vcpu # w
      BY <1>3, <1>4, <2>2
    <3> QED
      BY <1>4, <1>5, <3>1, <3>2, <3>3
  <2> QED
    BY <2>1, <2>2
<1>11. NumbersOrdered'
  <2> SUFFICES ASSUME NEW k \in DOMAIN log', NEW i \in DOMAIN log', Drew(k)', Drew(i)', Later(k, i)'
               PROVE  log'[k].num < log'[i].num
    BY DEF NumbersOrdered
  <2>1. Drew(k) /\ Drew(i) /\ k \in DOMAIN log /\ i \in DOMAIN log /\ log'[k] = log[k] /\ log'[i] = log[i]
    BY <1>4, <1>6 DEF Drew
  <2>2. ASSUME NEW r \in k + 1 .. i PROVE r \in DOMAIN log /\ log'[r] = log[r]
    <3>1. k \in 1 .. n /\ i \in 1 .. n /\ n \in Nat
      BY ONLY <1>1, <2>1
    <3>2. r \in 1 .. n
      BY ONLY <3>1, r \in k + 1 .. i
    <3> QED
      BY ONLY <1>1, <1>4, <3>2
  <2>3. Later(k, i)
    BY <2>1, <2>2 DEF Later
  <2> QED
    BY <2>1, <2>3 DEF Numbers, NumbersOrdered
<1>12. NumbersOnce'
  <2> SUFFICES ASSUME NEW k \in DOMAIN log', NEW i \in DOMAIN log', i < k,
                      Drew(k)' \/ call'[log'[k].vcpu] = k
               PROVE  log'[i].vcpu # log'[k].vcpu \/ log'[i].tb # log'[k].tb
    BY DEF NumbersOnce
  <2>1. CASE k = m
    <3>1. log'[k].vcpu = v /\ log'[k].tb = b /\ i \in DOMAIN log /\ log'[i] = log[i]
      BY <1>3, <1>4, <1>5, <2>1
    <3>2. ~Drew(k)
      BY <1>5, <2>1 DEF Drew
    <3>3. OwnFirst(v, b)
      BY <1>5, <1>6, <1>7, <2>1, <3>1, <3>2
    <3> QED
      BY <3>1, <3>3 DEF OwnFirst
  <2>2. CASE k # m
    <3>1. k \in DOMAIN log /\ i \in DOMAIN log /\ log'[k] = log[k] /\ log'[i] = log[i]
      BY <1>4, <1>5, <2>2
    <3>2. Drew(k) \/ call[log[k].vcpu] = k
      BY <1>1, <1>5, <1>6, <1>7, <2>2, <3>1
    <3> QED
      BY <3>1, <3>2 DEF Numbers, NumbersOnce
  <2> QED
    BY <2>1, <2>2
<1> QED
  BY <1>8, <1>9, <1>10, <1>11, <1>12 DEF Numbers

(* A callback draws a number. *)
LEMMA NumbersFetch ==
    ASSUME RunTyped, Numbers, NEW v \in work.vcpus, FetchSeq(v)
    PROVE  Numbers'
<1> DEFINE c == call[v]
<1>1. /\ DOMAIN log = 1 .. Len(log) /\ Len(log) \in Nat
      /\ \A k \in DOMAIN log : k \in Nat /\ log[k].num \in Nat /\ log[k].vcpu \in work.vcpus
      /\ counter \in Nat /\ counter # 0 /\ c \in 0 .. Len(log)
  BY LogFacts DEF RunTyped
<1>2. /\ c # 0 /\ log[c].num = 0 /\ log' = [log EXCEPT ![c].num = counter] /\ counter' = counter + 1
      /\ UNCHANGED <<work, call, seq>>
  BY DEF FetchSeq
<1>3. c \in DOMAIN log
  BY <1>1, <1>2
<1>4. log[c].vcpu = v /\ \A r \in DOMAIN log : log[r].vcpu = v => r <= c
  BY <1>2 DEF Numbers, CallsCurrent
<1>5. /\ DOMAIN log' = DOMAIN log
      /\ \A i \in DOMAIN log : /\ log'[i].vcpu = log[i].vcpu /\ log'[i].tb = log[i].tb
                                /\ log'[i].num = IF i = c THEN counter ELSE log[i].num
  <2> HIDE DEF c
  <2> QED
    BY <1>2, TakenRenumbered
<1> HIDE DEF c
<1>6. /\ \A k : Drew(k)' <=> Drew(k) \/ k = c
      /\ ~Drew(c) /\ \A k : Drew(k) => k # c /\ log'[k].num = log[k].num
  BY <1>1, <1>2, <1>3, <1>5 DEF Drew
<1>7. NumbersDistinct'
  <2> SUFFICES ASSUME NEW k \in DOMAIN log, NEW m \in DOMAIN log
               PROVE  /\ log'[k].num < counter'
                      /\ Drew(k)' /\ log'[k].num = log'[m].num => k = m
    BY <1>5 DEF NumbersDistinct
  <2>1. log[k].num < counter /\ log[m].num < counter /\ log[k].num \in Nat /\ log[m].num \in Nat
    BY <1>1 DEF Numbers, NumbersDistinct
  <2>2. log'[k].num < counter'
    BY <1>1, <1>2, <1>5, <2>1
  <2>3. Drew(k) /\ log[k].num = log[m].num => k = m
    BY DEF Numbers, NumbersDistinct
  <2> QED
    BY <1>1, <1>5, <1>6, <2>1, <2>2, <2>3
<1>8. NumbersStored'
  <2>1. ASSUME NEW b \in work.tbs, seq[b] # 0
        PROVE  \E k \in DOMAIN log' : log'[k].tb = b /\ log'[k].num = seq[b]
    <3>1. PICK k \in DOMAIN log : log[k].tb = b /\ log[k].num = seq[b]
      BY <2>1 DEF Numbers, NumbersStored
    <3>2. k # c
      BY <1>2, <2>1, <3>1
    <3> QED
      BY <1>5, <3>1, <3>2
  <2>2. ASSUME NEW k \in DOMAIN log', Drew(k)', call'[log'[k].vcpu] # k
        PROVE  seq[log'[k].tb] # 0
    <3>1. k \in DOMAIN log /\ call[log[k].vcpu] # k /\ log'[k].tb = log[k].tb
      BY <1>2, <1>5, <2>2
    <3>2. k # c
      BY <1>4, <3>1 DEF c
    <3> QED
      BY <1>6, <2>2, <3>1, <3>2 DEF Numbers, NumbersStored
  <2> QED
    BY <1>2, <2>1, <2>2 DEF NumbersStored
<1>9. CallsCurrent'
  <2> SUFFICES ASSUME NEW w \in work.vcpus, call[w] # 0
               PROVE  log'[call[w]].vcpu = w /\ \A r \in DOMAIN log : log'[r].vcpu = w => r <= call[w]
    BY <1>2, <1>5 DEF CallsCurrent
  <2>1. log[call[w]].vcpu = w /\ \A r \in DOMAIN log : log[r].vcpu = w => r <= call[w]
    BY DEF Numbers, CallsCurrent
  <2>2. call[w] \in DOMAIN log
    BY <1>1 DEF RunTyped
  <2> QED
    BY <1>5, <2>1, <2>2
<1>10. NumbersOrdered'
  <2> SUFFICES ASSUME NEW k \in DOMAIN log, NEW m \in DOMAIN log, Drew(k)', Drew(m)', Later(k, m)'
               PROVE  log'[k].num < log'[m].num
    BY <1>5 DEF NumbersOrdered
  <2>1. PICK r \in k + 1 .. m : log'[r].vcpu = log'[k].vcpu
    BY DEF Later
  <2>2. r \in DOMAIN log /\ r > k /\ r <= m /\ log[r].vcpu = log[k].vcpu
    BY <1>1, <1>5, <2>1
  <2>3. Later(k, m)
    BY <2>1, <2>2 DEF Later
  <2>4. k # c
    BY <1>1, <1>4, <2>2
  <2>5. log'[k].num = log[k].num /\ Drew(k) /\ log[k].num \in Nat /\ log[k].num < counter
    BY <1>1, <1>5, <1>6, <2>4 DEF Numbers, NumbersDistinct
  <2>6. CASE m = c
    BY <1>5, <2>5, <2>6
  <2>7. CASE m # c
    <3>1. Drew(m) /\ log'[m].num = log[m].num
      BY <1>5, <1>6, <2>7
    <3> QED
      BY <2>3, <2>5, <3>1 DEF Numbers, NumbersOrdered
  <2> QED
    BY <2>6, <2>7
<1>11. NumbersOnce'
  <2> SUFFICES ASSUME NEW k \in DOMAIN log, NEW i \in DOMAIN log, i < k,
                      Drew(k)' \/ call'[log'[k].vcpu] = k
               PROVE  log'[i].vcpu # log'[k].vcpu \/ log'[i].tb # log'[k].tb
    BY <1>5 DEF NumbersOnce
  <2>1. Drew(k) \/ call[log[k].vcpu] = k
    BY <1>2, <1>4, <1>5, <1>6 DEF c
  <2> QED
    BY <1>5, <2>1 DEF Numbers, NumbersOnce
<1> QED
  BY <1>7, <1>8, <1>9, <1>10, <1>11 DEF Numbers

(* A callback stores its number, over that of another vCPU. *)
LEMMA NumbersStore ==
    ASSUME RunTyped, Numbers, NEW v \in work.vcpus, StoreSeq(v)
    PROVE  Numbers'
<1> DEFINE c == call[v]
<1>1. /\ DOMAIN log = 1 .. Len(log) /\ Len(log) \in Nat
      /\ \A k \in DOMAIN log : k \in Nat /\ log[k].num \in Nat /\ log[k].vcpu \in work.vcpus
                              /\ log[k].tb \in work.tbs
      /\ c \in 0 .. Len(log) /\ call \in [work.vcpus -> 0 .. Len(log)] /\ seq \in [work.tbs -> Nat]
  BY LogFacts DEF RunTyped
<1>2. /\ c # 0 /\ log[c].num # 0 /\ seq' = [seq EXCEPT ![log[c].tb] = log[c].num]
      /\ call' = [call EXCEPT ![v] = 0] /\ UNCHANGED <<work, log, counter>>
  BY DEF StoreSeq
<1>3. c \in DOMAIN log /\ log[c].tb \in work.tbs
  BY <1>1, <1>2
<1>4. /\ \A b \in work.tbs : seq'[b] = IF b = log[c].tb THEN log[c].num ELSE seq[b]
      /\ \A w \in work.vcpus : call'[w] = IF w = v THEN 0 ELSE call[w]
  BY <1>1, <1>2
<1>5. \A k : Drew(k)' <=> Drew(k)
  BY <1>2 DEF Drew
<1>6. NumbersDistinct' /\ NumbersOrdered'
  BY <1>2 DEF Numbers, NumbersDistinct, NumbersOrdered, Later, Drew
<1>7. CallsCurrent'
  BY <1>2, <1>4 DEF Numbers, CallsCurrent
<1>8. NumbersStored'
  <2>1. ASSUME NEW b \in work.tbs, seq'[b] # 0
        PROVE  \E k \in DOMAIN log : log[k].tb = b /\ log[k].num = seq'[b]
    BY <1>3, <1>4, <2>1 DEF Numbers, NumbersStored
  <2>2. ASSUME NEW k \in DOMAIN log, Drew(k), call'[log[k].vcpu] # k PROVE seq'[log[k].tb] # 0
    <3>1. CASE k = c
      BY <1>2, <1>3, <1>4, <3>1
    <3>2. CASE k # c
      <4>1. call[log[k].vcpu] # k
        BY <1>1, <1>4, <2>2, <3>2 DEF c
      <4>2. seq[log[k].tb] # 0
        BY <2>2, <4>1 DEF Numbers, NumbersStored
      <4> QED
        BY <1>1, <1>2, <1>4, <4>2
    <3> QED
      BY <3>1, <3>2
  <2> QED
    BY <1>2, <1>5, <2>1, <2>2 DEF NumbersStored
<1>9. NumbersOnce'
  <2> SUFFICES ASSUME NEW k \in DOMAIN log, NEW i \in DOMAIN log, i < k, Drew(k) \/ call'[log[k].vcpu] = k
               PROVE  log[i].vcpu # log[k].vcpu \/ log[i].tb # log[k].tb
    BY <1>2, <1>5 DEF NumbersOnce
  <2>1. Drew(k) \/ call[log[k].vcpu] = k
    BY <1>1, <1>4
  <2> QED
    BY <2>1 DEF Numbers, NumbersOnce
<1> QED
  BY <1>6, <1>7, <1>8, <1>9 DEF Numbers

LEMMA NumbersInvariant == Spec => []Numbers
<1>1. Init => Numbers
  BY DEF Init, Numbers, NumbersDistinct, NumbersStored, CallsCurrent, NumbersOrdered, NumbersOnce
<1>2. RunTyped /\ Numbers /\ [Next]_vars => Numbers'
  <2> SUFFICES ASSUME RunTyped, Numbers, [Next]_vars PROVE Numbers'
    OBVIOUS
  <2>1. ASSUME UNCHANGED <<work, log, call, counter, seq>> PROVE Numbers'
    BY <2>1 DEF Numbers, NumbersDistinct, NumbersStored, CallsCurrent, NumbersOrdered, NumbersOnce,
                Drew, Later
  <2>2. ASSUME NEW v \in work.vcpus, NEW b \in work.tbs, EnterBlock(v, b) PROVE Numbers'
    BY <2>2, NumbersEnter
  <2>3. ASSUME NEW v \in work.vcpus, FetchSeq(v) PROVE Numbers'
    BY <2>3, NumbersFetch
  <2>4. ASSUME NEW v \in work.vcpus, StoreSeq(v) PROVE Numbers'
    BY <2>4, NumbersStore
  <2>5. CASE FlushEdges
    BY <2>1, <2>5 DEF FlushEdges
  <2>6. ASSUME NEW b \in work.tbs, Retranslate(b) PROVE Numbers'
    BY <2>1, <2>6 DEF Retranslate
  <2>7. ASSUME NEW f \in Formats, Start(f) PROVE Numbers'
    BY <2>1, <2>7 DEF Start, guest
  <2>8. CASE Parse \/ ParseFails \/ ElfFails \/ CreateFails
    BY <2>1, <2>8 DEF Parse, ParseFails, ElfFails, CreateFails, Fail, guest
  <2>9. CASE RequireTier \/ OpenElf \/ IndexSymbol \/ FinishIndex \/ Emit \/ WriteFails
    BY <2>1, <2>9 DEF RequireTier, OpenElf, IndexSymbol, FinishIndex, Emit, WriteFails, guest
  <2>10. CASE UNCHANGED vars
    BY <2>1, <2>10 DEF vars, guest
  <2> QED
    BY <2>2, <2>3, <2>4, <2>5, <2>6, <2>7, <2>8, <2>9, <2>10 DEF Next
<1> QED
  BY <1>1, <1>2, RunInvariant, PTL DEF Spec

(* The guest has stopped. *)
Quiet == \A v \in work.vcpus : call[v] = 0

(* The blocks with a number are those for which one was drawn. *)
LEMMA StoredFacts ==
    ASSUME RunTyped, Numbers, Quiet, NEW b \in work.tbs
    PROVE  /\ seq[b] \in Nat
           /\ seq[b] # 0 => \E k : Drew(k) /\ log[k].tb = b /\ log[k].num = seq[b]
           /\ \A k : Drew(k) /\ log[k].tb = b => seq[b] # 0
<1>1. seq[b] \in Nat
  BY DEF RunTyped
<1>2. seq[b] # 0 => \E k : Drew(k) /\ log[k].tb = b /\ log[k].num = seq[b]
  BY DEF Numbers, NumbersStored, Drew
<1>3. ASSUME NEW k, Drew(k), log[k].tb = b PROVE seq[b] # 0
  <2>1. k \in DOMAIN log /\ call[log[k].vcpu] = 0 /\ k # 0
    BY <1>3, LogFacts DEF Drew, Quiet
  <2> QED
    BY <1>3, <2>1 DEF Numbers, NumbersStored
<1> QED
  BY <1>1, <1>2, <1>3

(* The number of a function of the trace is one drawn on entering it, and *)
(* no larger than that of any of its blocks.                              *)
LEMMA FuncFacts ==
    ASSUME Reading, RunTyped, Numbers, Quiet, NEW n \in Funcs
    PROVE  /\ FuncFirstSeen(n) \in Nat
           /\ \E k : Drew(k) /\ log[k].num = FuncFirstSeen(n) /\ NameAt(index, log[k].tb.start) = n
           /\ \A k : Drew(k) /\ NameAt(index, log[k].tb.start) = n => FuncFirstSeen(n) <= seq[log[k].tb]
<1> DEFINE Q == {seq[b] : b \in Numbered(n)}
           q == FuncFirstSeen(n)
<1>1. \A b \in Numbered(n) : b \in work.tbs /\ seq[b] # 0 /\ NameAt(index, b.start) = n
  BY DEF Numbered
<1>2. Q \subseteq Nat /\ Q # {}
  BY <1>1, StoredFacts DEF Funcs
<1>3. \E p \in Q : \A r \in Q : p <= r
  <2> HIDE DEF Q
  <2> QED
    BY <1>2, SmallestExists
<1>4. \E p \in Q : \A b \in Numbered(n) : p <= seq[b]
  BY <1>3
<1>5. q = CHOOSE p \in Q : \A b \in Numbered(n) : p <= seq[b]
  BY DEF FuncFirstSeen
<1>6. q \in Q /\ \A b \in Numbered(n) : q <= seq[b]
  <2> HIDE DEF Q, q
  <2> QED
    BY <1>4, <1>5
<1>7. PICK b \in Numbered(n) : q = seq[b]
  BY <1>6
<1>8. PICK k : Drew(k) /\ log[k].tb = b /\ log[k].num = seq[b]
  BY <1>1, StoredFacts
<1>9. ASSUME NEW m, Drew(m), NameAt(index, log[m].tb.start) = n PROVE q <= seq[log[m].tb]
  <2>1. m \in DOMAIN log /\ log[m].tb \in work.tbs
    BY <1>9, LogFacts DEF Drew
  <2>2. seq[log[m].tb] # 0 /\ ExecCount(log[m].tb) > 0
    BY <1>9, <2>1, StoredFacts, ExecutionsAt
  <2>3. log[m].tb \in Numbered(n)
    BY <1>9, <2>1, <2>2 DEF Numbered
  <2> QED
    BY <1>6, <2>3
<1>10. q \in Nat
  BY <1>2, <1>6
<1> QED
  BY <1>1, <1>7, <1>8, <1>9, <1>10

(* The functions of the trace are those of which an entry drew a number. *)
LEMMA FuncsEntered ==
    ASSUME Reading, RunTyped, Numbers, Quiet
    PROVE  Funcs = {NameAt(index, log[k].tb.start) : k \in {k \in DOMAIN log : log[k].num # 0}} \ {Unknown}
<1>1. ASSUME NEW n \in Funcs
      PROVE  n # Unknown /\ \E k \in DOMAIN log : log[k].num # 0 /\ n = NameAt(index, log[k].tb.start)
  <2>1. n # Unknown
    BY DEF Funcs, Names
  <2> QED
    BY <2>1, FuncFacts DEF Drew
<1>2. ASSUME NEW k \in DOMAIN log, log[k].num # 0, NameAt(index, log[k].tb.start) # Unknown
      PROVE  NameAt(index, log[k].tb.start) \in Funcs
  <2> DEFINE b == log[k].tb
             n == NameAt(index, b.start)
  <2>1. b \in work.tbs
    BY LogFacts
  <2>2. seq[b] # 0 /\ ExecCount(b) > 0
    BY <1>2, <2>1, StoredFacts, ExecutionsAt DEF Drew
  <2>3. b \in Numbered(n)
    BY <2>1, <2>2 DEF Numbered
  <2>4. n \in Names
    <3> HIDE DEF b
    <3>1. SymbolAt(index, b.start) # {} /\ n = (CHOOSE s \in SymbolAt(index, b.start) : TRUE).name
      BY <1>2 DEF NameAt, b
    <3>2. PICK s \in SymbolAt(index, b.start) : n = s.name
      BY <3>1
    <3>3. \E a \in DOMAIN index : s = index[a]
      BY <3>2 DEF SymbolAt
    <3> QED
      BY <1>2, <3>2, <3>3 DEF Names, b
  <2> QED
    BY <2>3, <2>4 DEF Funcs
<1> QED
  BY <1>1, <1>2

(* There is an order to sort them into, as no two have the same number. *)
LEMMA TraceFacts ==
    ASSUME Reading, RunTyped, Numbers, Quiet
    PROVE  /\ DOMAIN EmitTemporal = 1 .. Cardinality(Funcs) /\ Cardinality(Funcs) \in Nat
           /\ ToSet(EmitTemporal) = Funcs
           /\ \A i \in DOMAIN EmitTemporal : EmitTemporal[i] \in Funcs
           /\ \A i, j \in DOMAIN EmitTemporal :
                 i < j => FuncFirstSeen(EmitTemporal[i]) < FuncFirstSeen(EmitTemporal[j])
<1> DEFINE key == [n \in Funcs |-> FuncFirstSeen(n)]
           N == Cardinality(Funcs)
           Sorted(t) == \A i, j \in DOMAIN t : i < j => FuncFirstSeen(t[i]) < FuncFirstSeen(t[j])
<1>1. /\ \A n \in Funcs : key[n] \in Nat
      /\ \A m, n \in Funcs : key[m] = key[n] => m = n
  <2>1. \A n \in Funcs : key[n] = FuncFirstSeen(n) /\ key[n] \in Nat
    BY FuncFacts
  <2>2. ASSUME NEW m \in Funcs, NEW n \in Funcs, key[m] = key[n] PROVE m = n
    <3>1. PICK k : Drew(k) /\ log[k].num = key[m] /\ NameAt(index, log[k].tb.start) = m
      BY <2>1, FuncFacts
    <3>2. PICK l : Drew(l) /\ log[l].num = key[n] /\ NameAt(index, log[l].tb.start) = n
      BY <2>1, FuncFacts
    <3>3. k = l
      BY <2>2, <3>1, <3>2 DEF Numbers, NumbersDistinct, Drew
    <3> QED
      BY <3>1, <3>2, <3>3
  <2> QED
    BY <2>1, <2>2
<1>2. IsFiniteSet(Funcs) /\ N \in Nat
  <2> DEFINE S == DOMAIN log
             nm == [i \in S |-> NameAt(index, log[i].tb.start)]
             T == {nm[i] : i \in S}
  <2>2. IsFiniteSet(S)
    BY LogFacts
  <2>3. Funcs \subseteq T
    BY FuncFacts DEF Drew
  <2>4. IsFiniteSet(T)
    <3> HIDE DEF nm, S
    <3> QED
      BY <2>2, FiniteImage
  <2> HIDE DEF T
  <2>5. IsFiniteSet(Funcs)
    BY <2>3, <2>4, FS_Subset
  <2> QED
    BY <2>5, FS_CardinalityType
<1>3. \A n \in Funcs : key[n] = FuncFirstSeen(n)
  OBVIOUS
<1>4. \E t \in [1 .. N -> Funcs] : Sorted(t)
  <2> HIDE DEF key
  <2>1. N = Cardinality(Funcs)
    OBVIOUS
  <2> HIDE DEF N
  <2>2. \E t \in [1 .. N -> Funcs] : \A i, j \in 1 .. N : i < j => key[t[i]] < key[t[j]]
    BY ONLY <1>1, <1>2, <2>1, SortedListing
  <2>3. PICK t \in [1 .. N -> Funcs] : \A i, j \in 1 .. N : i < j => key[t[i]] < key[t[j]]
    BY <2>2
  <2>4. DOMAIN t = 1 .. N /\ \A i \in 1 .. N : key[t[i]] = FuncFirstSeen(t[i])
    BY <1>3, <2>3
  <2>5. Sorted(t)
    BY <2>3, <2>4
  <2> QED
    BY <2>3, <2>5
<1>5. EmitTemporal \in [1 .. N -> Funcs] /\ Sorted(EmitTemporal)
  <2>1. EmitTemporal = CHOOSE t \in [1 .. N -> Funcs] : Sorted(t)
    BY DEF EmitTemporal
  <2> HIDE DEF Sorted, N
  <2> QED
    BY <1>4, <2>1
<1> DEFINE t == EmitTemporal
<1>6. \A n \in Funcs : \E i \in 1 .. N : t[i] = n
  <2>1. N = Cardinality(Funcs) /\ t \in [1 .. N -> Funcs]
    BY <1>5
  <2>2. \A i, j \in 1 .. N : i < j => key[t[i]] < key[t[j]]
    <3> HIDE DEF key, t, N
    <3>1. \A i \in 1 .. N : t[i] \in Funcs
      BY <2>1
    <3> QED
      BY <1>3, <1>5, <2>1, <3>1 DEF t
  <2> HIDE DEF key, t, N
  <2> QED
    BY ONLY <1>1, <1>2, <2>1, <2>2, ListingCovers
<1> QED
  BY <1>2, <1>5, <1>6 DEF ToSet

(***************************************************************************)
(* For every program and run, on any number of vCPUs, and every moment of  *)
(* retranslation: the trace names the functions of which an entry drew a   *)
(* number, each once, and inverts the order of two first entries only      *)
(* where the earlier drew none, or another vCPU overwrote its number or    *)
(* drew one ahead of it.                                                   *)
(***************************************************************************)
THEOREM TraceIsTemporal == Spec => []TemporalTrace
<1>1. Reading /\ RunTyped /\ Numbers /\ Converted => TemporalTrace
  <2> SUFFICES ASSUME Reading, RunTyped, Numbers, Converted, Written("temporal") PROVE TemporalTrace
    BY DEF TemporalTrace
  <2> DEFINE t == EmitTemporal
             drew == {k \in DOMAIN log : log[k].num # 0}
  <2>1. output.content = t /\ Quiet
    BY DEF Written, Converted, Content, Reading, Quiet
  <2>2. /\ ToSet(t) = Funcs /\ \A i \in DOMAIN t : t[i] \in Funcs
        /\ \A i, j \in DOMAIN t : i < j => FuncFirstSeen(t[i]) < FuncFirstSeen(t[j])
    BY <2>1, TraceFacts
  <2> HIDE DEF t
  <2>3. ASSUME NEW i \in DOMAIN t, NEW j \in DOMAIN t, i < j
        PROVE  LET f == t[i]
                   p == FirstEntry(t[j])
               IN  /\ f # t[j]
                   /\ p < FirstEntry(f) /\ p \in drew =>
                         \E k \in drew :
                             /\ log[k].vcpu # log[p].vcpu
                             /\ \/ log[k].tb = log[p].tb
                                \/ k \in Entered(f) /\ \A r \in p + 1 .. k : log[r].vcpu # log[p].vcpu
    <3> DEFINE f == t[i]
               g == t[j]
               p == FirstEntry(g)
    <3>1. f \in Funcs /\ g \in Funcs /\ FuncFirstSeen(f) < FuncFirstSeen(g)
          /\ FuncFirstSeen(f) \in Nat /\ FuncFirstSeen(g) \in Nat
      BY <2>1, <2>2, <2>3, FuncFacts
    <3> HIDE DEF f, g
    <3>2. DOMAIN log \subseteq Nat /\ \A k \in DOMAIN log : log[k].tb \in work.tbs /\ log[k].num \in Nat
      BY LogFacts
    <3>3. ASSUME NEW n \in Funcs
          PROVE  FirstEntry(n) \in Entered(n) /\ \A k \in Entered(n) : FirstEntry(n) <= k
      <4>1. Entered(n) # {} /\ Entered(n) \subseteq Nat
        BY <2>1, <3>2, FuncFacts DEF Entered, Drew
      <4>2. \E k \in Entered(n) : \A l \in Entered(n) : k <= l
        BY <4>1, SmallestExists
      <4> QED
        BY <4>2 DEF FirstEntry
    <3>4. f # g
      BY <3>1
    <3>5. ASSUME p < FirstEntry(f), p \in drew
          PROVE  \E k \in drew :
                    /\ log[k].vcpu # log[p].vcpu
                    /\ \/ log[k].tb = log[p].tb
                       \/ k \in Entered(f) /\ \A r \in p + 1 .. k : log[r].vcpu # log[p].vcpu
      <4>1. p \in DOMAIN log /\ Drew(p) /\ NameAt(index, log[p].tb.start) = g /\ p \in Nat
        BY <3>1, <3>2, <3>3, <3>5 DEF Entered, Drew
      <4>2. FuncFirstSeen(g) <= seq[log[p].tb] /\ seq[log[p].tb] # 0 /\ seq[log[p].tb] \in Nat
        BY <2>1, <3>1, <3>2, <4>1, FuncFacts, StoredFacts
      <4>3. PICK k : Drew(k) /\ log[k].num = FuncFirstSeen(f) /\ NameAt(index, log[k].tb.start) = f
        BY <2>1, <3>1, FuncFacts
      <4>4. k \in drew /\ k \in Entered(f) /\ k \in Nat /\ p < k
        <5>1. k \in drew /\ k \in Entered(f) /\ k \in Nat
          BY <3>2, <4>3 DEF Drew, Entered
        <5>2. FirstEntry(f) <= k /\ FirstEntry(f) \in Nat
          BY <3>1, <3>2, <3>3, <5>1 DEF Entered
        <5> HIDE DEF p
        <5> QED
          BY <3>5, <4>1, <5>1, <5>2
      <4>5. CASE seq[log[p].tb] = log[p].num
        <5>1. ~Later(p, k)
          <6>1. log[k].num < log[p].num /\ log[k].num \in Nat /\ log[p].num \in Nat
            BY <3>1, <3>2, <4>1, <4>2, <4>3, <4>5 DEF Drew
          <6>2. Later(p, k) => log[p].num < log[k].num
            BY <4>1, <4>3 DEF Numbers, NumbersOrdered, Drew
          <6> HIDE DEF p
          <6> QED
            BY <6>1, <6>2
        <5>2. \A r \in p + 1 .. k : log[r].vcpu # log[p].vcpu
          BY <5>1 DEF Later
        <5>3. k \in p + 1 .. k
          <6> HIDE DEF p
          <6> QED
            BY <4>1, <4>4
        <5> QED
          BY <4>4, <5>2, <5>3
      <4>6. CASE seq[log[p].tb] # log[p].num
        <5>1. PICK m : Drew(m) /\ log[m].tb = log[p].tb /\ log[m].num = seq[log[p].tb]
          BY <2>1, <3>2, <4>1, <4>2, StoredFacts
        <5>2. m # p /\ m \in drew /\ m \in Nat
          BY <3>2, <4>6, <5>1 DEF Drew
        <5>3. log[m].vcpu # log[p].vcpu
          <6> HIDE DEF p
          <6>1. m < p => log[m].vcpu # log[p].vcpu
            BY <4>1, <5>1, <5>2 DEF Numbers, NumbersOnce, Drew
          <6>2. p < m => log[m].vcpu # log[p].vcpu
            BY <4>1, <5>1, <5>2 DEF Numbers, NumbersOnce, Drew
          <6> QED
            BY <4>1, <5>2, <6>1, <6>2
        <5> QED
          BY <5>1, <5>2, <5>3
      <4> QED
        BY <4>5, <4>6
    <3> QED
      BY <3>4, <3>5 DEF f, g
  <2> QED
    BY <2>1, <2>2, <2>3, FuncsEntered DEF TemporalTrace
<1> QED
  BY <1>1, ReadingInvariant, RunInvariant, NumbersInvariant, ConvertedInvariant, PTL
=============================================================================
