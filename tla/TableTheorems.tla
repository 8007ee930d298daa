---------------------------- MODULE TableTheorems ----------------------------
(***************************************************************************)
(* Facts about finite tables of counts, for every component that keeps     *)
(* them.  First sums: SumFunctionOnSet of the module Functions picks       *)
(* elements in an unspecified order, by recursion over subsets.  Induction *)
(* takes the form of a least counterexample: among the sets that violate a *)
(* claim there is one whose proper subsets satisfy it.  Then the operators *)
(* of EdgeTables: recording and pruning.                                   *)
(***************************************************************************)
EXTENDS EdgeTables, FiniteSetTheorems, WellFoundedInduction, TLAPS

Pick(s) == CHOOSE x \in s : TRUE
Rest(s) == s \ {Pick(s)}

(* g is the recursive function of SumFunctionOnSet over the subsets of S. *)
IsPartialSum(f, S, g) ==
    g = [s \in SUBSET S |-> IF s = {} THEN 0 ELSE f[Pick(s)] + g[Rest(s)]]

(* A collection of subsets of a finite set has a minimal element. *)
LEMMA MinimalSubset ==
    ASSUME NEW S, IsFiniteSet(S), NEW C \in SUBSET (SUBSET S), C # {}
    PROVE  \E T \in C : \A U \in SUBSET T : U # T => U \notin C
<1>1. IsWellFoundedOn(StrictSubsetOrdering(S), FiniteSubsetsOf(S))
  BY FS_StrictSubsetOrderingWellFounded
<1>2. FiniteSubsetsOf(S) = SUBSET S
  BY FS_FiniteSubsetsOfFinite
<1>3. \E T \in C : \A U \in C : <<U, T>> \notin StrictSubsetOrdering(S)
  BY <1>1, <1>2, WFMin
<1> QED
  BY <1>3 DEF StrictSubsetOrdering

(* Partial sums over different sets agree where both are defined. *)
LEMMA PartialSumsAgree ==
    ASSUME NEW S, IsFiniteSet(S), NEW f, NEW T \in SUBSET S, NEW U \in SUBSET S,
           NEW g, IsPartialSum(f, T, g), NEW h, IsPartialSum(f, U, h)
    PROVE  \A s \in SUBSET (T \cap U) : g[s] = h[s]
<1> DEFINE C == {s \in SUBSET (T \cap U) : g[s] # h[s]}
<1> SUFFICES ASSUME C # {} PROVE FALSE
  OBVIOUS
<1>1. PICK s \in C : \A u \in SUBSET s : u # s => u \notin C
  <2>1. C \in SUBSET (SUBSET S)
    OBVIOUS
  <2> HIDE DEF C
  <2> QED
    BY <2>1, MinimalSubset
<1>2. /\ g[s] = IF s = {} THEN 0 ELSE f[Pick(s)] + g[Rest(s)]
      /\ h[s] = IF s = {} THEN 0 ELSE f[Pick(s)] + h[Rest(s)]
  BY DEF IsPartialSum
<1>3. s # {}
  BY <1>2
<1>4. Pick(s) \in s
  BY <1>3 DEF Pick
<1>5. Rest(s) \in SUBSET s /\ Rest(s) # s
  BY <1>4 DEF Rest
<1>6. g[Rest(s)] = h[Rest(s)]
  BY <1>1, <1>5
<1> QED
  BY <1>2, <1>6

(* They exist. *)
LEMMA PartialSumExists ==
    ASSUME NEW S, IsFiniteSet(S), NEW f
    PROVE  \E g : IsPartialSum(f, S, g)
<1> DEFINE C == {T \in SUBSET S : ~ \E g : IsPartialSum(f, T, g)}
           H(T) == CHOOSE g : IsPartialSum(f, T, g)
<1> SUFFICES ASSUME C # {} PROVE FALSE
  OBVIOUS
<1>1. PICK T \in C : \A U \in SUBSET T : U # T => U \notin C
  <2>1. C \in SUBSET (SUBSET S)
    OBVIOUS
  <2> HIDE DEF C
  <2> QED
    BY <2>1, MinimalSubset
<1>2. \A U \in SUBSET T : U # T => IsPartialSum(f, U, H(U))
  <2> SUFFICES ASSUME NEW U \in SUBSET T, U # T PROVE IsPartialSum(f, U, H(U))
    OBVIOUS
  <2>1. \E g : IsPartialSum(f, U, g)
    BY <1>1
  <2> QED
    BY <2>1
<1> DEFINE G == [s \in SUBSET T |-> IF s = {} THEN 0 ELSE f[Pick(s)] + H(Rest(s))[Rest(s)]]
<1>3. \A s \in SUBSET T : s # {} => Rest(s) \in SUBSET T /\ Rest(s) # T
  BY DEF Rest, Pick
<1>4. ASSUME NEW s \in SUBSET T, s # {} PROVE G[Rest(s)] = H(Rest(s))[Rest(s)]
  <2> DEFINE u == Rest(s)
  <2>1. u \in SUBSET T /\ u # T /\ IsPartialSum(f, u, H(u))
    BY <1>2, <1>3, <1>4
  <2> HIDE DEF u, H
  <2>2. H(u)[u] = IF u = {} THEN 0 ELSE f[Pick(u)] + H(u)[Rest(u)]
    BY <2>1 DEF IsPartialSum
  <2>3. G[u] = IF u = {} THEN 0 ELSE f[Pick(u)] + H(Rest(u))[Rest(u)]
    BY <2>1
  <2>4. CASE u = {}
    BY <2>2, <2>3, <2>4 DEF u
  <2>5. CASE u # {}
    <3>1. Rest(u) \in SUBSET u /\ IsPartialSum(f, Rest(u), H(Rest(u)))
      BY <1>2, <1>3, <2>1, <2>5 DEF Rest
    <3>2. u \in SUBSET S /\ Rest(u) \in SUBSET S /\ Rest(u) \in SUBSET (u \cap Rest(u))
      BY <2>1, <3>1
    <3>3. H(u)[Rest(u)] = H(Rest(u))[Rest(u)]
      BY <2>1, <3>1, <3>2, PartialSumsAgree
    <3> QED
      BY <2>2, <2>3, <2>5, <3>3 DEF u
  <2> QED
    BY <2>4, <2>5
<1>5. IsPartialSum(f, T, G)
  <2> HIDE DEF H
  <2>1. \A s \in SUBSET T :
           (IF s = {} THEN 0 ELSE f[Pick(s)] + H(Rest(s))[Rest(s)])
           = (IF s = {} THEN 0 ELSE f[Pick(s)] + G[Rest(s)])
    BY <1>4
  <2> QED
    BY <2>1 DEF IsPartialSum
<1> QED
  BY <1>5

(* How a sum unfolds: it is 0 over the empty set, else an element and the rest. *)
LEMMA SumUnfold ==
    ASSUME NEW S, IsFiniteSet(S), NEW f
    PROVE  SumFunctionOnSet(f, S) =
              IF S = {} THEN 0 ELSE f[Pick(S)] + SumFunctionOnSet(f, Rest(S))
<1> DEFINE H(T) == CHOOSE g : IsPartialSum(f, T, g)
<1>1. \A T : SumFunctionOnSet(f, T) = H(T)[T]
  BY DEF SumFunctionOnSet, FoldFunctionOnSet, MapThenFoldSet, IsPartialSum, Pick, Rest
<1>2. \A T \in SUBSET S : IsPartialSum(f, T, H(T))
  <2> SUFFICES ASSUME NEW T \in SUBSET S PROVE IsPartialSum(f, T, H(T))
    OBVIOUS
  <2>1. IsFiniteSet(T)
    BY FS_Subset
  <2> QED
    BY <2>1, PartialSumExists
<1> HIDE DEF H
<1>3. H(S)[S] = IF S = {} THEN 0 ELSE f[Pick(S)] + H(S)[Rest(S)]
  BY <1>2 DEF IsPartialSum
<1>4. S # {} => H(S)[Rest(S)] = H(Rest(S))[Rest(S)]
  <2>1. Rest(S) \in SUBSET S /\ Rest(S) \in SUBSET (S \cap Rest(S))
    BY DEF Rest
  <2>2. IsPartialSum(f, S, H(S)) /\ IsPartialSum(f, Rest(S), H(Rest(S)))
    BY <1>2, <2>1
  <2>3. \A s \in SUBSET (S \cap Rest(S)) : H(S)[s] = H(Rest(S))[s]
    BY <2>1, <2>2, PartialSumsAgree
  <2> QED
    BY <2>1, <2>3
<1> QED
  BY <1>1, <1>3, <1>4

(* A sum of natural numbers is one. *)
LEMMA SumIsNat ==
    ASSUME NEW S, IsFiniteSet(S), NEW f, \A x \in S : f[x] \in Nat
    PROVE  SumFunctionOnSet(f, S) \in Nat
<1> DEFINE C == {T \in SUBSET S : ~(SumFunctionOnSet(f, T) \in Nat)}
<1> SUFFICES ASSUME C # {} PROVE FALSE
  OBVIOUS
<1>1. PICK T \in C : \A U \in SUBSET T : U # T => U \notin C
  <2>1. C \in SUBSET (SUBSET S)
    OBVIOUS
  <2> HIDE DEF C
  <2> QED
    BY <2>1, MinimalSubset
<1>2. IsFiniteSet(T)
  BY FS_Subset
<1>3. T # {}
  BY <1>2, SumUnfold
<1>4. Pick(T) \in T /\ Rest(T) \in SUBSET T /\ Rest(T) # T
  BY <1>3 DEF Pick, Rest
<1>5. SumFunctionOnSet(f, Rest(T)) \in Nat /\ f[Pick(T)] \in Nat
  BY <1>1, <1>4
<1>6. SumFunctionOnSet(f, T) = f[Pick(T)] + SumFunctionOnSet(f, Rest(T))
  BY <1>2, <1>3, SumUnfold
<1> QED
  BY <1>5, <1>6

(* Sums add up pointwise. *)
LEMMA SumAdd ==
    ASSUME NEW S, IsFiniteSet(S), NEW f, NEW g, NEW h,
           \A x \in S : f[x] \in Nat /\ g[x] \in Nat /\ h[x] = f[x] + g[x]
    PROVE  SumFunctionOnSet(h, S) = SumFunctionOnSet(f, S) + SumFunctionOnSet(g, S)
<1> DEFINE C == {T \in SUBSET S : ~(SumFunctionOnSet(h, T) = SumFunctionOnSet(f, T) + SumFunctionOnSet(g, T))}
<1> SUFFICES ASSUME C # {} PROVE FALSE
  OBVIOUS
<1>1. PICK T \in C : \A U \in SUBSET T : U # T => U \notin C
  <2>1. C \in SUBSET (SUBSET S)
    OBVIOUS
  <2> HIDE DEF C
  <2> QED
    BY <2>1, MinimalSubset
<1>2. IsFiniteSet(T)
  BY FS_Subset
<1>3. T # {}
  BY <1>2, SumUnfold
<1>4. Pick(T) \in T /\ Rest(T) \in SUBSET T /\ Rest(T) # T /\ IsFiniteSet(Rest(T))
  BY <1>2, <1>3, FS_Subset DEF Pick, Rest
<1>5. SumFunctionOnSet(h, Rest(T)) = SumFunctionOnSet(f, Rest(T)) + SumFunctionOnSet(g, Rest(T))
  BY <1>1, <1>4
<1>6. SumFunctionOnSet(f, Rest(T)) \in Nat /\ SumFunctionOnSet(g, Rest(T)) \in Nat
  BY <1>4, SumIsNat
<1>7. /\ SumFunctionOnSet(f, T) = f[Pick(T)] + SumFunctionOnSet(f, Rest(T))
      /\ SumFunctionOnSet(g, T) = g[Pick(T)] + SumFunctionOnSet(g, Rest(T))
      /\ SumFunctionOnSet(h, T) = h[Pick(T)] + SumFunctionOnSet(h, Rest(T))
  BY <1>2, <1>3, SumUnfold
<1>8. f[Pick(T)] \in Nat /\ g[Pick(T)] \in Nat /\ h[Pick(T)] = f[Pick(T)] + g[Pick(T)]
  BY <1>4
<1> QED
  BY <1>5, <1>6, <1>7, <1>8

(* A function that is 0 except at y sums up to its value there. *)
LEMMA SumPoint ==
    ASSUME NEW S, IsFiniteSet(S), NEW f, NEW y, NEW n \in Nat,
           \A x \in S : f[x] = IF x = y THEN n ELSE 0
    PROVE  SumFunctionOnSet(f, S) = IF y \in S THEN n ELSE 0
<1> DEFINE C == {T \in SUBSET S : ~(SumFunctionOnSet(f, T) = IF y \in T THEN n ELSE 0)}
<1> SUFFICES ASSUME C # {} PROVE FALSE
  OBVIOUS
<1>1. PICK T \in C : \A U \in SUBSET T : U # T => U \notin C
  <2>1. C \in SUBSET (SUBSET S)
    OBVIOUS
  <2> HIDE DEF C
  <2> QED
    BY <2>1, MinimalSubset
<1>2. IsFiniteSet(T)
  BY FS_Subset
<1>3. T # {}
  BY <1>2, SumUnfold
<1>4. Pick(T) \in T /\ Rest(T) \in SUBSET T /\ Rest(T) # T
  BY <1>3 DEF Pick, Rest
<1>5. SumFunctionOnSet(f, Rest(T)) = IF y \in Rest(T) THEN n ELSE 0
  BY <1>1, <1>4
<1>6. SumFunctionOnSet(f, T) = f[Pick(T)] + SumFunctionOnSet(f, Rest(T))
  BY <1>2, <1>3, SumUnfold
<1>7. f[Pick(T)] = IF Pick(T) = y THEN n ELSE 0
  BY <1>4
<1>8. y \in Rest(T) <=> y \in T /\ y # Pick(T)
  BY DEF Rest
<1> QED
  BY <1>4, <1>5, <1>6, <1>7, <1>8

(* Adding n at y adds n to the sum over a set with y, and nothing to others. *)
LEMMA SumBump ==
    ASSUME NEW S, IsFiniteSet(S), NEW f, NEW g, NEW y, NEW n \in Nat,
           \A x \in S : f[x] \in Nat /\ g[x] = IF x = y THEN f[x] + n ELSE f[x]
    PROVE  SumFunctionOnSet(g, S) = SumFunctionOnSet(f, S) + (IF y \in S THEN n ELSE 0)
<1> DEFINE p == [x \in S |-> IF x = y THEN n ELSE 0]
<1>1. SumFunctionOnSet(p, S) = IF y \in S THEN n ELSE 0
  <2>1. \A x \in S : p[x] = IF x = y THEN n ELSE 0
    OBVIOUS
  <2> HIDE DEF p
  <2> QED
    BY <2>1, SumPoint
<1>2. \A x \in S : f[x] \in Nat /\ p[x] \in Nat /\ g[x] = f[x] + p[x]
  OBVIOUS
<1> HIDE DEF p
<1>3. SumFunctionOnSet(g, S) = SumFunctionOnSet(f, S) + SumFunctionOnSet(p, S)
  BY <1>2, SumAdd
<1> QED
  BY <1>1, <1>3

(* Only the values on the set matter. *)
LEMMA SumSame ==
    ASSUME NEW S, IsFiniteSet(S), NEW f, NEW g, \A x \in S : f[x] \in Nat /\ g[x] = f[x]
    PROVE  SumFunctionOnSet(g, S) = SumFunctionOnSet(f, S)
<1>1. \A x \in S : f[x] \in Nat /\ g[x] = IF x = S THEN f[x] + 0 ELSE f[x]
  OBVIOUS
<1>2. SumFunctionOnSet(g, S) = SumFunctionOnSet(f, S) + (IF S \in S THEN 0 ELSE 0)
  BY <1>1, SumBump
<1> QED
  BY <1>2, SumIsNat

(* A pointwise smaller function has the smaller sum, and one value is at most the sum. *)
LEMMA SumMonotonic ==
    ASSUME NEW S, IsFiniteSet(S), NEW f, NEW g,
           \A x \in S : f[x] \in Nat /\ g[x] \in Nat /\ f[x] <= g[x]
    PROVE  /\ SumFunctionOnSet(f, S) <= SumFunctionOnSet(g, S)
           /\ \A y \in S : f[y] <= SumFunctionOnSet(f, S)
<1> DEFINE d == [x \in S |-> g[x] - f[x]]
<1>1. \A x \in S : f[x] \in Nat /\ d[x] \in Nat /\ g[x] = f[x] + d[x]
  OBVIOUS
<1>2. SumFunctionOnSet(f, S) <= SumFunctionOnSet(g, S)
  <2> HIDE DEF d
  <2>1. SumFunctionOnSet(f, S) \in Nat /\ SumFunctionOnSet(d, S) \in Nat
    BY <1>1, SumIsNat
  <2>2. SumFunctionOnSet(g, S) = SumFunctionOnSet(f, S) + SumFunctionOnSet(d, S)
    BY <1>1, SumAdd
  <2> QED
    BY <2>1, <2>2
<1>3. ASSUME NEW y \in S PROVE f[y] <= SumFunctionOnSet(f, S)
  <2> DEFINE z == [x \in S |-> IF x = y THEN 0 ELSE f[x]]
  <2>1. \A x \in S : z[x] \in Nat /\ f[x] = IF x = y THEN z[x] + f[y] ELSE z[x]
    OBVIOUS
  <2>2. f[y] \in Nat
    OBVIOUS
  <2> HIDE DEF z
  <2>3. SumFunctionOnSet(f, S) = SumFunctionOnSet(z, S) + f[y]
    BY <2>1, <2>2, SumBump
  <2>4. SumFunctionOnSet(z, S) \in Nat
    BY <2>1, SumIsNat
  <2> QED
    BY <2>2, <2>3, <2>4
<1> QED
  BY <1>2, <1>3
(* The total of a function: SumFunction, when only the value at y changes. *)
LEMMA TotalBump ==
    ASSUME NEW S, IsFiniteSet(S), NEW f, NEW g, DOMAIN f = S, DOMAIN g = S, NEW y \in S, NEW n \in Nat,
           \A x \in S : f[x] \in Nat /\ g[x] = IF x = y THEN f[x] + n ELSE f[x]
    PROVE  SumFunction(f) \in Nat /\ SumFunction(g) \in Nat /\ SumFunction(g) = SumFunction(f) + n
<1>1. SumFunctionOnSet(g, S) = SumFunctionOnSet(f, S) + (IF y \in S THEN n ELSE 0)
  BY SumBump
<1>2. SumFunctionOnSet(f, S) \in Nat
  BY SumIsNat
<1>3. SumFunction(f) = SumFunctionOnSet(f, S) /\ SumFunction(g) = SumFunctionOnSet(g, S)
  BY DEF SumFunction
<1> QED
  BY <1>1, <1>2, <1>3

(* Totals of functions that differ at y only. *)
LEMMA TotalReplace ==
    ASSUME NEW S, IsFiniteSet(S), NEW f \in [S -> Nat], NEW g \in [S -> Nat], NEW y \in S,
           \A x \in S \ {y} : g[x] = f[x]
    PROVE  /\ SumFunction(f) \in Nat /\ SumFunction(g) \in Nat
           /\ SumFunction(g) + f[y] = SumFunction(f) + g[y]
<1> DEFINE z == [x \in S |-> IF x = y THEN 0 ELSE f[x]]
           a == f[y]
           b == g[y]
<1>1. DOMAIN z = S /\ a \in Nat /\ b \in Nat
  OBVIOUS
<1>2. \A x \in S : z[x] \in Nat /\ f[x] = IF x = y THEN z[x] + a ELSE z[x]
  OBVIOUS
<1>3. \A x \in S : z[x] \in Nat /\ g[x] = IF x = y THEN z[x] + b ELSE z[x]
  OBVIOUS
<1> HIDE DEF z, a, b
<1>4. SumFunctionOnSet(f, S) = SumFunctionOnSet(z, S) + (IF y \in S THEN a ELSE 0)
  BY <1>1, <1>2, SumBump
<1>5. SumFunctionOnSet(g, S) = SumFunctionOnSet(z, S) + (IF y \in S THEN b ELSE 0)
  BY <1>1, <1>3, SumBump
<1>6. SumFunctionOnSet(z, S) \in Nat
  BY <1>2, SumIsNat
<1>7. SumFunction(f) = SumFunctionOnSet(f, S) /\ SumFunction(g) = SumFunctionOnSet(g, S)
  BY DEF SumFunction
<1> QED
  BY <1>1, <1>4, <1>5, <1>6, <1>7 DEF a, b

(* Any element can be split off a sum, not only the one that is picked. *)
LEMMA SumRemove ==
    ASSUME NEW S, IsFiniteSet(S), NEW f, \A x \in S : f[x] \in Nat
    PROVE  \A y \in S : SumFunctionOnSet(f, S) = f[y] + SumFunctionOnSet(f, S \ {y})
<1> DEFINE C == {T \in SUBSET S :
                   ~ \A y \in T : SumFunctionOnSet(f, T) = f[y] + SumFunctionOnSet(f, T \ {y})}
<1> SUFFICES ASSUME C # {} PROVE FALSE
  OBVIOUS
<1>1. PICK T \in C : \A U \in SUBSET T : U # T => U \notin C
  <2>1. C \in SUBSET (SUBSET S)
    OBVIOUS
  <2> HIDE DEF C
  <2> QED
    BY <2>1, MinimalSubset
<1>2. PICK y \in T : ~(SumFunctionOnSet(f, T) = f[y] + SumFunctionOnSet(f, T \ {y}))
  OBVIOUS
<1> DEFINE p == Pick(T)
           R == T \ {p}
           Q == T \ {y}
           B == R \ {y}
<1>3. SumFunctionOnSet(f, T) = f[p] + SumFunctionOnSet(f, R) /\ p \in T
  <2>1. IsFiniteSet(T) /\ T # {}
    BY <1>2, FS_Subset
  <2> QED
    BY <2>1, SumUnfold DEF Pick, Rest
<1> HIDE DEF p
<1>4. p # y
  BY <1>2, <1>3
<1>5. /\ y \in R /\ R \in SUBSET T /\ R # T
      /\ p \in Q /\ Q \in SUBSET T /\ Q # T /\ Q \ {p} = B
  BY <1>2, <1>3, <1>4
<1>6. SumFunctionOnSet(f, R) = f[y] + SumFunctionOnSet(f, B)
  BY <1>1, <1>5
<1>7. SumFunctionOnSet(f, Q) = f[p] + SumFunctionOnSet(f, B)
  <2>1. Q \notin C /\ Q \in SUBSET S
    BY <1>1, <1>5
  <2>2. SumFunctionOnSet(f, Q) = f[p] + SumFunctionOnSet(f, Q \ {p})
    BY <1>5, <2>1
  <2> QED
    BY <1>5, <2>2
<1>8. SumFunctionOnSet(f, B) \in Nat /\ f[p] \in Nat /\ f[y] \in Nat
  <2>1. B \in SUBSET S /\ p \in S /\ y \in S
    BY <1>3
  <2>2. IsFiniteSet(B) /\ \A x \in B : f[x] \in Nat
    BY <2>1, FS_Subset
  <2> HIDE DEF B
  <2> QED
    BY <2>1, <2>2, SumIsNat
<1> QED
  BY <1>2, <1>3, <1>6, <1>7, <1>8

(* A subset has the smaller sum. *)
LEMMA SumSubset ==
    ASSUME NEW S, IsFiniteSet(S), NEW f, \A x \in S : f[x] \in Nat, NEW T \in SUBSET S
    PROVE  SumFunctionOnSet(f, T) <= SumFunctionOnSet(f, S)
<1> DEFINE C == {U \in SUBSET S : T \in SUBSET U /\ ~(SumFunctionOnSet(f, T) <= SumFunctionOnSet(f, U))}
<1> SUFFICES ASSUME C # {} PROVE FALSE
  OBVIOUS
<1>1. PICK U \in C : \A V \in SUBSET U : V # U => V \notin C
  <2>1. C \in SUBSET (SUBSET S)
    OBVIOUS
  <2> HIDE DEF C
  <2> QED
    BY <2>1, MinimalSubset
<1>2. /\ IsFiniteSet(U) /\ IsFiniteSet(T) /\ T \in SUBSET U
      /\ \A x \in U : f[x] \in Nat
  BY FS_Subset
<1>3. SumFunctionOnSet(f, T) \in Nat
  BY <1>2, SumIsNat
<1>4. PICK y \in U : y \notin T
  <2>1. U # T
    BY <1>3
  <2> QED
    BY <1>2, <2>1
<1>5. SumFunctionOnSet(f, U) = f[y] + SumFunctionOnSet(f, U \ {y})
  BY <1>2, SumRemove
<1>6. U \ {y} \in SUBSET U /\ U \ {y} # U /\ T \in SUBSET (U \ {y}) /\ U \ {y} \in SUBSET S
  BY <1>2, <1>4
<1>7. SumFunctionOnSet(f, T) <= SumFunctionOnSet(f, U \ {y})
  BY <1>1, <1>6
<1>8. SumFunctionOnSet(f, U \ {y}) \in Nat
  <2>1. IsFiniteSet(U \ {y}) /\ \A x \in U \ {y} : f[x] \in Nat
    BY <1>2, <1>6, FS_Subset
  <2> QED
    BY <2>1, SumIsNat
<1> QED
  BY <1>1, <1>2, <1>3, <1>5, <1>7, <1>8

(* Where a function is 0 it adds nothing. *)
LEMMA SumSupport ==
    ASSUME NEW S, IsFiniteSet(S), NEW f, NEW T \in SUBSET S,
           \A x \in S : f[x] \in Nat /\ (x \notin T => f[x] = 0)
    PROVE  SumFunctionOnSet(f, S) = SumFunctionOnSet(f, T)
<1> DEFINE C == {U \in SUBSET S : T \in SUBSET U /\ ~(SumFunctionOnSet(f, U) = SumFunctionOnSet(f, T))}
<1> SUFFICES ASSUME C # {} PROVE FALSE
  OBVIOUS
<1>1. PICK U \in C : \A V \in SUBSET U : V # U => V \notin C
  <2>1. C \in SUBSET (SUBSET S)
    OBVIOUS
  <2> HIDE DEF C
  <2> QED
    BY <2>1, MinimalSubset
<1>2. /\ IsFiniteSet(U) /\ T \in SUBSET U
      /\ \A x \in U : f[x] \in Nat
  BY FS_Subset
<1>3. PICK y \in U : y \notin T
  <2>1. U # T
    OBVIOUS
  <2> QED
    BY <1>2, <2>1
<1>4. SumFunctionOnSet(f, U) = f[y] + SumFunctionOnSet(f, U \ {y}) /\ f[y] = 0
  BY <1>2, <1>3, SumRemove
<1>5. U \ {y} \in SUBSET U /\ U \ {y} # U /\ T \in SUBSET (U \ {y}) /\ U \ {y} \in SUBSET S
  BY <1>2, <1>3
<1>6. SumFunctionOnSet(f, U \ {y}) = SumFunctionOnSet(f, T)
  BY <1>1, <1>5
<1>7. SumFunctionOnSet(f, U \ {y}) \in Nat
  <2>1. IsFiniteSet(U \ {y}) /\ \A x \in U \ {y} : f[x] \in Nat
    BY <1>2, <1>5, FS_Subset
  <2> QED
    BY <2>1, SumIsNat
<1> QED
  BY <1>1, <1>4, <1>6, <1>7

(* The image of a finite set is finite. *)
LEMMA FiniteImage ==
    ASSUME NEW S, IsFiniteSet(S), NEW f
    PROVE  IsFiniteSet({f[x] : x \in S})
<1> DEFINE T == {f[x] : x \in S}
           g == [x \in S |-> f[x]]
<1>1. g \in Surjection(S, T)
  BY DEF Surjection
<1> HIDE DEF g, T
<1>2. IsFiniteSet(T)
  BY <1>1, FS_Surjection
<1> QED
  BY <1>2 DEF T

(* Sets with a one-to-one correspondence have the same number of elements. *)
LEMMA SameCount ==
    ASSUME NEW S, IsFiniteSet(S), NEW T, NEW f,
           \A x \in S : f[x] \in T,
           \A x, y \in S : f[x] = f[y] => x = y,
           \A z \in T : \E x \in S : f[x] = z
    PROVE  Cardinality(S) = Cardinality(T)
<1> DEFINE g == [x \in S |-> f[x]]
<1>1. g \in Bijection(S, T)
  <2>1. g \in [S -> T]
    OBVIOUS
  <2>2. IsInjective(g)
    BY DEF IsInjective
  <2>3. \A z \in T : \E x \in S : g[x] = z
    OBVIOUS
  <2> QED
    BY <2>1, <2>2, <2>3 DEF Bijection, Injection, Surjection
<1>2. ExistsBijection(S, T)
  BY <1>1 DEF ExistsBijection
<1>3. IsFiniteSet(S) /\ ExistsBijection(S, T)
  BY <1>2
<1> QED
  BY ONLY <1>3, FS_Bijection

(* The elements of P that h puts in class x, and in one of the classes S. *)
Class(P, h, x) == {p \in P : h[p] = x}
Classes(P, h, S) == {p \in P : h[p] \in S}

(***************************************************************************)
(* Counting by classes: if f[x] is the number of elements in class x, the  *)
(* sum over some classes counts the elements in them.                      *)
(***************************************************************************)
LEMMA SumClasses ==
    ASSUME NEW S, IsFiniteSet(S), NEW P, IsFiniteSet(P), NEW h, NEW f,
           \A x \in S : f[x] = Cardinality(Class(P, h, x))
    PROVE  SumFunctionOnSet(f, S) = Cardinality(Classes(P, h, S))
<1> DEFINE In(T) == Classes(P, h, T)
           C == {T \in SUBSET S : ~(SumFunctionOnSet(f, T) = Cardinality(In(T)))}
<1> SUFFICES ASSUME C # {} PROVE FALSE
  OBVIOUS
<1>1. PICK T \in C : \A U \in SUBSET T : U # T => U \notin C
  <2>1. C \in SUBSET (SUBSET S)
    OBVIOUS
  <2> HIDE DEF C
  <2> QED
    BY <2>1, MinimalSubset
<1>2. IsFiniteSet(T)
  BY FS_Subset
<1>3. T # {}
  <2> SUFFICES ASSUME T = {} PROVE FALSE
    OBVIOUS
  <2>1. SumFunctionOnSet(f, T) = 0
    BY <1>2, SumUnfold
  <2>2. In(T) = {}
    BY DEF Classes
  <2> QED
    BY <1>1, <2>1, <2>2, FS_EmptySet
<1> DEFINE x == Pick(T)
           A == Class(P, h, x)
           B == In(Rest(T))
<1>4. x \in T /\ Rest(T) \in SUBSET T /\ Rest(T) # T /\ x \notin Rest(T) /\ T = Rest(T) \cup {x}
  BY <1>3 DEF Pick, Rest
<1>5. SumFunctionOnSet(f, Rest(T)) = Cardinality(B)
  BY <1>1, <1>4
<1>6. SumFunctionOnSet(f, T) = f[x] + SumFunctionOnSet(f, Rest(T)) /\ f[x] = Cardinality(A)
  BY <1>2, <1>3, <1>4, SumUnfold
<1>7. In(T) = A \cup B /\ A \cap B = {}
  BY <1>4 DEF Class, Classes
<1>8. IsFiniteSet(A) /\ IsFiniteSet(B) /\ A \in SUBSET P /\ B \in SUBSET P
  <2>1. A \in SUBSET P /\ B \in SUBSET P
    BY DEF Class, Classes
  <2> HIDE DEF A, B
  <2> QED
    BY <2>1, FS_Subset
<1> HIDE DEF A, B, x, In
<1>9. Cardinality(A) \in Nat /\ Cardinality(B) \in Nat
  BY <1>8, FS_CardinalityType
<1>10. Cardinality(A \cup B) = Cardinality(A) + Cardinality(B) - Cardinality(A \cap B)
  BY <1>8, FS_Union
<1>11. Cardinality(A \cap B) = 0
  BY <1>7, FS_EmptySet
<1>12. SumFunctionOnSet(f, T) = Cardinality(In(T))
  BY <1>5, <1>6, <1>7, <1>9, <1>10, <1>11
<1> QED
  BY <1>1, <1>12

(* Subtracting B from every value, down to 0, takes at least B off a sum that stays positive. *)
LEMMA SaturatingSum ==
    ASSUME NEW S, IsFiniteSet(S), NEW f, NEW g, NEW B \in Nat,
           \A x \in S : f[x] \in Nat /\ g[x] = IF f[x] > B THEN f[x] - B ELSE 0
    PROVE  /\ SumFunctionOnSet(g, S) \in Nat /\ SumFunctionOnSet(f, S) \in Nat
           /\ SumFunctionOnSet(g, S) = 0 \/ SumFunctionOnSet(g, S) + B <= SumFunctionOnSet(f, S)
<1>1. SumFunctionOnSet(g, S) \in Nat /\ SumFunctionOnSet(f, S) \in Nat
  <2>1. \A x \in S : f[x] \in Nat
    OBVIOUS
  <2>2. \A x \in S : g[x] \in Nat
    OBVIOUS
  <2> QED
    BY <2>1, <2>2, SumIsNat
<1>2. ASSUME NEW y \in S, f[y] > B
      PROVE  SumFunctionOnSet(g, S) + B <= SumFunctionOnSet(f, S)
  <2> DEFINE h == [x \in S |-> IF x = y THEN f[x] - B ELSE f[x]]
  <2>1. \A x \in S : h[x] \in Nat /\ f[x] = IF x = y THEN h[x] + B ELSE h[x]
    BY <1>2
  <2>2. \A x \in S : g[x] \in Nat /\ h[x] \in Nat /\ g[x] <= h[x]
    BY <1>2
  <2> HIDE DEF h
  <2>3. SumFunctionOnSet(f, S) = SumFunctionOnSet(h, S) + B
    BY <2>1, SumBump
  <2>4. SumFunctionOnSet(g, S) <= SumFunctionOnSet(h, S)
    BY <2>2, SumMonotonic
  <2>5. SumFunctionOnSet(h, S) \in Nat
    BY <2>1, SumIsNat
  <2> QED
    BY <1>1, <2>3, <2>4, <2>5
<1>3. ASSUME \A y \in S : ~(f[y] > B) PROVE SumFunctionOnSet(g, S) = 0
  <2>1. \A x \in S : g[x] = IF x = B THEN 0 ELSE 0
    BY <1>3
  <2>2. SumFunctionOnSet(g, S) = IF B \in S THEN 0 ELSE 0
    BY <2>1, SumPoint
  <2> QED
    BY <2>2
<1> QED
  BY <1>1, <1>2, <1>3
-----------------------------------------------------------------------------
(* A set of numbers has a smallest element. *)
LEMMA SmallestExists ==
    ASSUME NEW S, S \subseteq Nat, S # {}
    PROVE  \E x \in S : \A y \in S : x <= y
<1>1. \E x \in S : \A y \in S : <<y, x>> \notin OpToRel(<, Nat)
  BY NatLessThanWellFounded, WFMin
<1>2. PICK x \in S : \A y \in S : <<y, x>> \notin OpToRel(<, Nat)
  BY <1>1
<1>3. ASSUME NEW y \in S PROVE x <= y
  <2>1. x \in Nat /\ y \in Nat /\ ~(y < x)
    BY <1>2 DEF OpToRel
  <2> QED
    BY <2>1
<1> QED
  BY <1>3

(* A finite set of numbers has a largest element. *)
LEMMA LargestExists ==
    ASSUME NEW S, IsFiniteSet(S), S \subseteq Nat, S # {}
    PROVE  \E x \in S : \A y \in S : x >= y
<1> DEFINE C == {T \in SUBSET S : T # {} /\ ~ \E x \in T : \A y \in T : x >= y}
<1> SUFFICES ASSUME C # {} PROVE FALSE
  OBVIOUS
<1>1. PICK T \in C : \A U \in SUBSET T : U # T => U \notin C
  <2>1. C \in SUBSET (SUBSET S)
    OBVIOUS
  <2> HIDE DEF C
  <2> QED
    BY <2>1, MinimalSubset
<1>2. PICK z \in T : TRUE
  OBVIOUS
<1>3. T \ {z} # {}
  <2> SUFFICES ASSUME T = {z} PROVE FALSE
    OBVIOUS
  <2>1. z \in Nat
    OBVIOUS
  <2> QED
    BY <2>1
<1>4. PICK m \in T \ {z} : \A y \in T \ {z} : m >= y
  <2>1. T \ {z} \in SUBSET T /\ T \ {z} # T
    OBVIOUS
  <2>2. T \ {z} \notin C
    BY <1>1, <2>1
  <2> QED
    BY <1>3, <2>2
<1>5. m \in Nat /\ z \in Nat /\ m \in T
  OBVIOUS
<1>6. CASE m >= z
  BY <1>4, <1>5, <1>6
<1>7. CASE z >= m
  <2>1. \A y \in T : z >= y
    <3> TAKE y \in T
    <3>1. y \in Nat /\ (y = z \/ m >= y)
      BY <1>4
    <3> QED
      BY <1>5, <1>7, <3>1
  <2> QED
    BY <2>1
<1> QED
  BY <1>5, <1>6, <1>7

(* The keys of a table over a finite set, before and after an edge is counted. *)
LEMMA BumpFacts ==
    ASSUME NEW E, IsFiniteSet(E), NEW t \in [E -> Nat], NEW e \in E
    PROVE  /\ Bump(t, e) \in [E -> Nat]
           /\ \A f \in E : Bump(t, e)[f] = IF f = e THEN t[f] + 1 ELSE t[f]
           /\ IsFiniteSet(Keys(t)) /\ Keys(t) \in SUBSET E /\ Cardinality(Keys(t)) \in Nat
           /\ Keys(Bump(t, e)) = Keys(t) \cup {e}
           /\ Cardinality(Keys(Bump(t, e))) <= Cardinality(Keys(t)) + 1
<1>1. /\ Bump(t, e) \in [E -> Nat]
      /\ \A f \in E : Bump(t, e)[f] = IF f = e THEN t[f] + 1 ELSE t[f]
  BY DEF Bump
<1>2. Keys(t) \in SUBSET E
  BY DEF Keys
<1>3. IsFiniteSet(Keys(t)) /\ Cardinality(Keys(t)) \in Nat
  BY <1>2, FS_Subset, FS_CardinalityType
<1>4. Keys(Bump(t, e)) = Keys(t) \cup {e}
  <2>1. \A f \in E : f \in Keys(Bump(t, e)) <=> f \in Keys(t) \/ f = e
    BY <1>1 DEF Keys
  <2>2. Keys(Bump(t, e)) \in SUBSET E
    BY <1>1 DEF Keys
  <2> QED
    BY <1>2, <2>1, <2>2
<1>5. Cardinality(Keys(t) \cup {e}) <= Cardinality(Keys(t)) + 1
  <2> DEFINE K == Keys(t)
  <2>1. IsFiniteSet(K) /\ Cardinality(K) \in Nat
    BY <1>3
  <2> HIDE DEF K
  <2>2. Cardinality(K \cup {e}) = IF e \in K THEN Cardinality(K) ELSE Cardinality(K) + 1
    BY <2>1, FS_AddElement
  <2>3. Cardinality(K \cup {e}) <= Cardinality(K) + 1
    BY <2>1, <2>2
  <2> QED
    BY <2>3 DEF K
<1> QED
  BY <1>1, <1>2, <1>3, <1>4, <1>5

(***************************************************************************)
(* What sorting and truncating leaves: some of the entries, unchanged; no  *)
(* more of them than the capacity; and, if any were dropped, exactly as    *)
(* many, none of them smaller than a dropped one.                          *)
(***************************************************************************)
LEMMA PruneFacts ==
    ASSUME NEW E, IsFiniteSet(E), NEW t \in [E -> Nat], NEW c \in Nat, NEW u \in Prune(t, c)
    PROVE  /\ u \in [E -> Nat]
           /\ \A f \in E : u[f] = 0 \/ u[f] = t[f]
           /\ Cardinality(Keys(u)) <= c
           /\ \/ u = t
              \/ /\ Cardinality(Keys(u)) = c
                 /\ \A a \in Keys(u), b \in Keys(t) \ Keys(u) : t[a] >= t[b]
<1>1. CASE Cardinality(Keys(t)) <= c
  BY <1>1 DEF Prune
<1>2. CASE ~(Cardinality(Keys(t)) <= c)
  <2>1. PICK K \in SUBSET Keys(t) :
          /\ Cardinality(K) = c
          /\ \A a \in K, b \in Keys(t) \ K : t[a] >= t[b]
          /\ u = Keep(t, K)
    BY <1>2 DEF Prune
  <2>2. u \in [E -> Nat] /\ \A f \in E : u[f] = IF f \in K THEN t[f] ELSE 0
    BY <2>1 DEF Keep
  <2>3. Keys(u) = K
    <3>1. \A f \in E : f \in Keys(u) <=> f \in K
      BY <2>1, <2>2 DEF Keys
    <3>2. Keys(u) \in SUBSET E /\ K \in SUBSET E
      BY <2>1, <2>2 DEF Keys
    <3> QED
      BY <3>1, <3>2
  <2> QED
    BY <2>1, <2>2, <2>3
<1> QED
  BY <1>1, <1>2

(***************************************************************************)
(* Recording an edge: the streaming map counts it; the top-N table counts  *)
(* it, then keeps everything while there are at most 2c keys and prunes to *)
(* c keys beyond that.                                                     *)
(***************************************************************************)
LEMMA RecordFacts ==
    ASSUME NEW E, IsFiniteSet(E), NEW t \in [E -> Nat], NEW e \in E, NEW s \in BOOLEAN,
           NEW c \in Nat, NEW u \in AccRecord(t, e, s, c)
    PROVE  /\ u \in [E -> Nat]
           /\ \A f \in E : u[f] = 0 \/ u[f] = Bump(t, e)[f]
           /\ s => u = Bump(t, e)
           /\ ~s => Cardinality(Keys(u)) <= 2 * c
           /\ \/ u = Bump(t, e)
              \/ /\ Cardinality(Keys(u)) = c
                 /\ \A a \in Keys(u), b \in Keys(Bump(t, e)) \ Keys(u) :
                       Bump(t, e)[a] >= Bump(t, e)[b]
<1> DEFINE b == Bump(t, e)
<1>1. b \in [E -> Nat] /\ Cardinality(Keys(b)) \in Nat
  <2>1. b \in [E -> Nat]
    BY BumpFacts
  <2> HIDE DEF b
  <2> QED
    BY <2>1, BumpFacts
<1>2. CASE s \/ ~(Cardinality(Keys(b)) > c * 2)
  <2>1. u = b
    BY <1>2 DEF AccRecord, TopNRecord
  <2> HIDE DEF b
  <2> QED
    BY <1>1, <1>2, <2>1 DEF b
<1>3. CASE ~s /\ Cardinality(Keys(b)) > c * 2
  <2>1. u \in Prune(b, c)
    BY <1>3 DEF AccRecord, TopNRecord
  <2>2. /\ u \in [E -> Nat]
        /\ \A f \in E : u[f] = 0 \/ u[f] = b[f]
        /\ Cardinality(Keys(u)) <= c
        /\ \/ u = b
           \/ /\ Cardinality(Keys(u)) = c
              /\ \A a \in Keys(u), d \in Keys(b) \ Keys(u) : b[a] >= b[d]
    <3> HIDE DEF b
    <3> QED
      BY <1>1, <2>1, PruneFacts
  <2>3. IsFiniteSet(Keys(u)) /\ Cardinality(Keys(u)) \in Nat
    BY <2>2, BumpFacts
  <2> QED
    BY <1>3, <2>2, <2>3
<1> QED
  BY <1>2, <1>3

(* Branch entries: none in an empty table, and they follow the table's changes. *)
LEMMA EntriesFacts ==
    ASSUME NEW E, IsFiniteSet(E), NEW t \in [E -> Nat], NEW a
    PROVE  /\ EntriesInto(t, a) \in Nat
           /\ EntriesInto(EmptyTable(E), a) = 0
           /\ \A e \in E : EntriesInto(Bump(t, e), a)
                             = EntriesInto(t, a) + (IF e[2] = a THEN 1 ELSE 0)
           /\ \A u \in [E -> Nat] : EntriesInto(Merge(t, u), a)
                                      = EntriesInto(t, a) + EntriesInto(u, a)
<1> DEFINE S == {e \in E : e[2] = a}
<1>1. IsFiniteSet(S) /\ \A u : DOMAIN u = E => EntriesInto(u, a) = SumFunctionOnSet(u, S)
  BY FS_Subset DEF EntriesInto
<1>2. \A e \in E : e \in S <=> e[2] = a
  OBVIOUS
<1>3. S \subseteq E
  OBVIOUS
<1> HIDE DEF S
<1>4. EntriesInto(t, a) \in Nat
  BY <1>1, <1>3, SumIsNat
<1>5. EntriesInto(EmptyTable(E), a) = 0
  <2>1. DOMAIN EmptyTable(E) = E /\ \A x \in S : EmptyTable(E)[x] = IF x = a THEN 0 ELSE 0
    BY <1>3 DEF EmptyTable
  <2>2. SumFunctionOnSet(EmptyTable(E), S) = IF a \in S THEN 0 ELSE 0
    BY <1>1, <2>1, SumPoint
  <2> QED
    BY <1>1, <2>1, <2>2
<1>6. ASSUME NEW e \in E
      PROVE  EntriesInto(Bump(t, e), a) = EntriesInto(t, a) + (IF e[2] = a THEN 1 ELSE 0)
  <2>1. /\ DOMAIN Bump(t, e) = E
        /\ \A x \in S : t[x] \in Nat /\ Bump(t, e)[x] = IF x = e THEN t[x] + 1 ELSE t[x]
    BY <1>3 DEF Bump
  <2>2. SumFunctionOnSet(Bump(t, e), S) = SumFunctionOnSet(t, S) + (IF e \in S THEN 1 ELSE 0)
    BY <1>1, <2>1, SumBump
  <2> QED
    BY <1>1, <1>2, <2>1, <2>2
<1>7. ASSUME NEW u \in [E -> Nat]
      PROVE  EntriesInto(Merge(t, u), a) = EntriesInto(t, a) + EntriesInto(u, a)
  <2>1. /\ DOMAIN Merge(t, u) = E
        /\ \A x \in S : t[x] \in Nat /\ u[x] \in Nat /\ Merge(t, u)[x] = t[x] + u[x]
    BY <1>3 DEF Merge
  <2>2. SumFunctionOnSet(Merge(t, u), S) = SumFunctionOnSet(t, S) + SumFunctionOnSet(u, S)
    BY <1>1, <2>1, SumAdd
  <2> QED
    BY <1>1, <2>1, <2>2
<1> QED
  BY <1>4, <1>5, <1>6, <1>7

(* A finite set with distinct keys can be listed in the order of the keys. *)
LEMMA SortedListing ==
    ASSUME NEW S, IsFiniteSet(S), NEW n \in Nat, n = Cardinality(S), NEW key,
           \A x \in S : key[x] \in Nat, \A x, y \in S : key[x] = key[y] => x = y
    PROVE  \E t \in [1 .. n -> S] : \A i, j \in 1 .. n : i < j => key[t[i]] < key[t[j]]
<1> DEFINE Below(x) == {y \in S : key[y] < key[x]}
           rank == [x \in S |-> Cardinality(Below(x)) + 1]
           t == [i \in 1 .. n |-> CHOOSE x \in S : rank[x] = i]
<1>1. \A x \in S : IsFiniteSet(Below(x)) /\ Cardinality(Below(x)) \in Nat
  BY FS_Subset, FS_CardinalityType
<1>2. ASSUME NEW x \in S PROVE rank[x] \in 1 .. n
  <2> DEFINE B == Below(x)
  <2>1. B \in SUBSET S /\ x \notin B
    OBVIOUS
  <2>2. rank[x] = Cardinality(B) + 1 /\ Cardinality(B) \in Nat
    BY <1>1
  <2> HIDE DEF B, rank
  <2>3. B # S
    BY <2>1
  <2>4. Cardinality(B) < Cardinality(S)
    BY ONLY <2>1, <2>2, <2>3, n \in Nat, n = Cardinality(S), IsFiniteSet(S), FS_Subset
  <2> QED
    BY <2>2, <2>4
<1>3. ASSUME NEW x \in S, NEW y \in S, key[x] < key[y] PROVE rank[x] < rank[y]
  <2> DEFINE A == Below(x)
             B == Below(y)
  <2>1. A \in SUBSET B /\ A # B
    <3>1. x \in B /\ x \notin A
      BY <1>3
    <3> QED
      BY <1>3, <3>1
  <2>2. IsFiniteSet(B) /\ Cardinality(A) \in Nat /\ Cardinality(B) \in Nat
    BY <1>1
  <2>3. rank[x] = Cardinality(A) + 1 /\ rank[y] = Cardinality(B) + 1
    OBVIOUS
  <2> HIDE DEF A, B, rank
  <2>4. Cardinality(A) < Cardinality(B)
    BY ONLY <2>1, <2>2, FS_Subset
  <2> QED
    BY <2>2, <2>3, <2>4
<1>4. DOMAIN rank = S
  OBVIOUS
<1> HIDE DEF rank, Below
<1>5. \A x, y \in S : rank[x] = rank[y] => x = y
  <2> SUFFICES ASSUME NEW x \in S, NEW y \in S, rank[x] = rank[y], x # y PROVE FALSE
    OBVIOUS
  <2>1. key[x] < key[y] \/ key[y] < key[x]
    OBVIOUS
  <2> QED
    BY <1>2, <1>3, <2>1
<1>6. \A i \in 1 .. n : \E x \in S : rank[x] = i
  <2> DEFINE I == 1 .. n
             r == [x \in S |-> rank[x]]
  <2>1. IsFiniteSet(I) /\ Cardinality(I) = n
    <3>1. 1 \in Int /\ n \in Int
      OBVIOUS
    <3>2. IsFiniteSet(1 .. n) /\ Cardinality(1 .. n) = IF 1 > n THEN 0 ELSE n - 1 + 1
      BY ONLY <3>1, FS_Interval
    <3> QED
      BY <3>2
  <2>2. r \in Injection(S, I)
    <3>1. r \in [S -> I]
      BY <1>2
    <3>2. \A x, y \in S : r[x] = r[y] => x = y
      BY <1>5
    <3> HIDE DEF r, I
    <3> QED
      BY <3>1, <3>2 DEF Injection, IsInjective
  <2> HIDE DEF I, r
  <2>3. r \in Surjection(S, I)
    BY ONLY <2>1, <2>2, n = Cardinality(S), FS_Injection
  <2>4. \A i \in I : \E x \in S : r[x] = i
    BY <2>3 DEF Surjection
  <2> QED
    BY <2>4 DEF I, r
<1>7. \A i \in 1 .. n : t[i] \in S /\ rank[t[i]] = i
  BY <1>6
<1>8. t \in [1 .. n -> S]
  BY <1>7
<1>9. ASSUME NEW i \in 1 .. n, NEW j \in 1 .. n, i < j PROVE key[t[i]] < key[t[j]]
  <2> DEFINE x == t[i]
             y == t[j]
  <2>1. x \in S /\ y \in S /\ rank[x] = i /\ rank[y] = j
    BY <1>7
  <2> HIDE DEF x, y, t
  <2>2. ~(key[x] = key[y]) /\ ~(key[y] < key[x])
    BY <1>3, <1>9, <2>1
  <2>3. key[x] < key[y]
    BY <2>1, <2>2
  <2> QED
    BY <2>3 DEF x, y
<1> QED
  BY <1>8, <1>9

(* Such a listing leaves nothing out. *)
LEMMA ListingCovers ==
    ASSUME NEW S, IsFiniteSet(S), NEW n \in Nat, n = Cardinality(S), NEW key,
           \A x \in S : key[x] \in Nat,
           NEW t \in [1 .. n -> S], \A i, j \in 1 .. n : i < j => key[t[i]] < key[t[j]]
    PROVE  \A x \in S : \E i \in 1 .. n : t[i] = x
<1> DEFINE I == 1 .. n
<1>1. IsFiniteSet(I) /\ Cardinality(I) = n
  <2>1. 1 \in Int /\ n \in Int
    OBVIOUS
  <2>2. IsFiniteSet(1 .. n) /\ Cardinality(1 .. n) = IF 1 > n THEN 0 ELSE n - 1 + 1
    BY ONLY <2>1, FS_Interval
  <2> QED
    BY <2>2
<1>2. \A i, j \in I : t[i] = t[j] => i = j
  <2> SUFFICES ASSUME NEW i \in I, NEW j \in I, t[i] = t[j], i # j PROVE FALSE
    OBVIOUS
  <2>1. i < j \/ j < i
    OBVIOUS
  <2>2. key[t[i]] \in Nat
    OBVIOUS
  <2> QED
    BY <2>1, <2>2
<1>3. t \in Injection(I, S)
  BY <1>2 DEF Injection, IsInjective
<1> HIDE DEF I
<1>4. t \in Surjection(I, S)
  BY ONLY <1>1, <1>3, n = Cardinality(S), IsFiniteSet(S), FS_Injection
<1> QED
  BY <1>4 DEF Surjection, I
=============================================================================
