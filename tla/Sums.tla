-------------------------------- MODULE Sums --------------------------------
(****************************************************************************)
(* Induction on a rank, functions defined by recursion, and sums over        *)
(* finite sets.                                                              *)
(*****************************************************************************)
EXTENDS Laws, FiniteSetTheorems, WellFoundedInduction, TLAPS

(* Enough time for a step on a busy machine.                                *)
USE ZenonT(60)

(* Induction on a rank: a set that takes in every element whose elements of *)
(* lower rank it has takes in everything.                                   *)
LEMMA RankInduction ==
  ASSUME NEW S, NEW rank \in [S -> Nat], NEW Q,
         \A x \in S : (\A y \in S : rank[y] < rank[x] => y \in Q) => x \in Q
  PROVE  S \subseteq Q
<1> SUFFICES ASSUME NEW z \in S, z \notin Q PROVE FALSE
  OBVIOUS
<1> DEFINE R == OpToRel(<, Nat)
           T == {rank[x] : x \in S \ Q}
<1>1. IsWellFoundedOn(R, Nat)
  BY NatLessThanWellFounded
<1>2. \A m, n \in Nat : m < n => <<m, n>> \in R
  BY DEF OpToRel
<1> HIDE DEF R
<1>3. T \subseteq Nat /\ T # {}
  BY SMTT(60)
<1>4. PICK n \in T : \A m \in T : <<m, n>> \notin R
  BY <1>1, <1>3, WFMin
<1>5. PICK x \in S \ Q : rank[x] = n
  OBVIOUS
<1>6. ASSUME NEW y \in S, rank[y] < rank[x], y \notin Q PROVE FALSE
  <2>1. rank[y] \in T /\ rank[y] \in Nat /\ rank[x] \in Nat
    BY <1>6
  <2> QED BY <1>2, <1>4, <1>5, <1>6, <2>1
<1> QED BY <1>5, <1>6

(* f follows the recursion D below rank n, and D reads f at lower ranks     *)
(* only.                                                                    *)
Follows(f, D, S, rank, n) == \A x \in S : rank[x] < n => f[x] = D[<<x, f>>]

(* Two functions that follow a recursion up to a rank agree up to it.       *)
LEMMA RecursionAgrees ==
  ASSUME NEW S, NEW V, NEW rank \in [S -> Nat], NEW D, LooksBack(D, S, V, rank),
         NEW f \in [S -> V], NEW g \in [S -> V], NEW n \in Nat,
         Follows(f, D, S, rank, n), Follows(g, D, S, rank, n)
  PROVE  \A x \in S : rank[x] < n => f[x] = g[x]
<1> DEFINE Q == {x \in S : rank[x] < n => f[x] = g[x]}
<1>1. ASSUME NEW x \in S, \A y \in S : rank[y] < rank[x] => y \in Q
      PROVE  x \in Q
  <2> SUFFICES ASSUME rank[x] < n PROVE f[x] = g[x]
    OBVIOUS
  <2>1. \A y \in S : rank[y] < rank[x] => f[y] = g[y]
    BY SMTT(60), <1>1
  <2> QED BY <2>1 DEF LooksBack, Follows
<1>2. S \subseteq Q
  <2> HIDE DEF Q
  <2> QED BY <1>1, RankInduction
<1> QED BY <1>2

(* A recursion can be followed up to any rank.                              *)
LEMMA RecursionPartial ==
  ASSUME NEW S, NEW V, V # {}, NEW rank \in [S -> Nat], NEW D \in [S \X [S -> V] -> V],
         LooksBack(D, S, V, rank)
  PROVE  \A n \in Nat : \E f \in [S -> V] : Follows(f, D, S, rank, n)
<1> DEFINE Q == {n \in Nat : \E f \in [S -> V] : Follows(f, D, S, rank, n)}
           id == [n \in Nat |-> n]
<1>1. ASSUME NEW n \in Nat, \A m \in Nat : m < n => m \in Q
      PROVE  n \in Q
  <2>1. CASE n = 0
    <3>1. PICK v \in V : TRUE
      OBVIOUS
    <3>2. [x \in S |-> v] \in [S -> V] /\ Follows([x \in S |-> v], D, S, rank, 0)
      BY SMTT(60) DEF Follows
    <3> QED BY <2>1, <3>2
  <2>2. CASE n # 0
    <3>1. n - 1 \in Q
      BY SMTT(60), <1>1, <2>2
    <3>2. PICK f \in [S -> V] : Follows(f, D, S, rank, n - 1)
      BY <3>1
    <3> DEFINE g == [x \in S |-> IF rank[x] < n - 1 THEN f[x] ELSE D[<<x, f>>]]
    <3>3. g \in [S -> V]
      OBVIOUS
    <3>4. Follows(g, D, S, rank, n)
      <4> SUFFICES ASSUME NEW x \in S, rank[x] < n PROVE g[x] = D[<<x, g>>]
        BY DEF Follows
      <4>1. \A y \in S : rank[y] < rank[x] => g[y] = f[y]
        BY SMTT(60)
      <4>2. D[<<x, g>>] = D[<<x, f>>]
        BY <3>3, <4>1 DEF LooksBack
      <4>3. g[x] = D[<<x, f>>]
        BY <3>2 DEF Follows
      <4> QED BY <4>2, <4>3
    <3> QED BY <3>3, <3>4
  <2> QED BY <2>1, <2>2
<1>2. Nat \subseteq Q
  <2>1. id \in [Nat -> Nat] /\ \A n \in Nat : id[n] = n
    OBVIOUS
  <2> HIDE DEF id, Q
  <2> QED BY SMTT(60), <1>1, <2>1, RankInduction
<1> QED BY <1>2

(* A recursion that descends in rank defines a function.                    *)
LEMMA RecursionExists ==
  ASSUME NEW S, NEW V, V # {}, NEW rank \in [S -> Nat], NEW D \in [S \X [S -> V] -> V],
         LooksBack(D, S, V, rank)
  PROVE  \E f : Recurses(f, D, S, V)
<1> DEFINE piece(n) == CHOOSE f \in [S -> V] : Follows(f, D, S, rank, n)
           g == [x \in S |-> piece(rank[x] + 1)[x]]
<1>1. \A n \in Nat : piece(n) \in [S -> V] /\ Follows(piece(n), D, S, rank, n)
  BY RecursionPartial
<1> HIDE DEF piece
<1>2. g \in [S -> V]
  BY SMTT(60), <1>1
<1>3. ASSUME NEW x \in S PROVE g[x] = D[<<x, g>>]
  <2> DEFINE f == piece(rank[x] + 1)
  <2>1. rank[x] \in Nat /\ rank[x] + 1 \in Nat
    BY SMTT(60)
  <2>2. f \in [S -> V] /\ Follows(f, D, S, rank, rank[x] + 1)
    BY <1>1, <2>1
  <2> HIDE DEF f
  <2>3. \A y \in S : rank[y] < rank[x] => g[y] = f[y]
    <3> SUFFICES ASSUME NEW y \in S, rank[y] < rank[x] PROVE g[y] = f[y]
      OBVIOUS
    <3> DEFINE h == piece(rank[y] + 1)
    <3>1. rank[y] \in Nat /\ rank[y] + 1 \in Nat /\ g[y] = h[y]
      BY SMTT(60)
    <3>2. h \in [S -> V] /\ Follows(h, D, S, rank, rank[y] + 1)
      BY <1>1, <3>1
    <3>3. Follows(f, D, S, rank, rank[y] + 1)
      BY SMTT(60), <2>1, <2>2, <3>1 DEF Follows
    <3> HIDE DEF h, g
    <3>4. \A z \in S : rank[z] < rank[y] + 1 => f[z] = h[z]
      BY SMTT(60), <2>2, <3>1, <3>2, <3>3, RecursionAgrees
    <3> QED BY SMTT(60), <3>1, <3>4
  <2>4. D[<<x, g>>] = D[<<x, f>>]
    BY <1>2, <2>2, <2>3 DEF LooksBack
  <2>5. f[x] = D[<<x, f>>]
    BY SMTT(60), <2>1, <2>2 DEF Follows
  <2>6. g[x] = f[x]
    BY DEF f
  <2> QED BY <2>4, <2>5, <2>6
<1>4. Recurses(g, D, S, V)
  <2> HIDE DEF g
  <2> QED BY <1>2, <1>3 DEF Recurses
<1> QED BY <1>4

-----------------------------------------------------------------------------
(* f adds up the values on the way down from each element to e.             *)
Walks(f, P, e, val, less) == f = [s \in P |-> IF s = e THEN 0 ELSE val[s] + f[less[s]]]

(* Such a walk exists when each step descends in rank.                      *)
LEMMA WalkExists ==
  ASSUME NEW P, NEW e, NEW rank \in [P -> Nat], NEW val \in [P -> Int], NEW less \in [P -> P],
         \A s \in P : s # e => rank[less[s]] < rank[s]
  PROVE  /\ \E f : Walks(f, P, e, val, less)
         /\ \A f : Walks(f, P, e, val, less) => f \in [P -> Int]
<1> DEFINE D == [p \in P \X [P -> Int] |-> IF p[1] = e THEN 0 ELSE val[p[1]] + p[2][less[p[1]]]]
<1>1. D \in [P \X [P -> Int] -> Int]
  <2>1. ASSUME NEW s \in P, NEW f \in [P -> Int]
        PROVE  (IF s = e THEN 0 ELSE val[s] + f[less[s]]) \in Int
    <3>1. val[s] \in Int /\ f[less[s]] \in Int
      OBVIOUS
    <3> QED BY SMTT(60), <3>1
  <2> QED BY <2>1
<1>2. \A s \in P : \A f \in [P -> Int] :
        D[<<s, f>>] = IF s = e THEN 0 ELSE val[s] + f[less[s]]
  OBVIOUS
<1> HIDE DEF D
<1>3. LooksBack(D, P, Int, rank)
  BY SMTT(60), <1>2 DEF LooksBack
<1>4. PICK f \in [P -> Int] : \A s \in P : f[s] = D[<<s, f>>]
  <2>1. PICK V : V = Int
    OBVIOUS
  <2>2. V # {} /\ D \in [P \X [P -> V] -> V] /\ LooksBack(D, P, V, rank)
    BY SMTT(60), <1>1, <1>3, <2>1
  <2>3. \E f : Recurses(f, D, P, V)
    BY <2>2, RecursionExists
  <2> QED BY <2>1, <2>3 DEF Recurses
<1>5. f = [s \in P |-> IF s = e THEN 0 ELSE val[s] + f[less[s]]]
  BY <1>2, <1>4
<1>6. ASSUME NEW g, g = [s \in P |-> IF s = e THEN 0 ELSE val[s] + g[less[s]]]
      PROVE  g \in [P -> Int]
  <2> DEFINE Q == {s \in P : g[s] \in Int}
  <2>1. \A s \in P : g[s] = IF s = e THEN 0 ELSE val[s] + g[less[s]]
    BY <1>6
  <2>2. ASSUME NEW s \in P, \A t \in P : rank[t] < rank[s] => t \in Q PROVE s \in Q
    <3>1. CASE s = e
      BY SMTT(60), <2>1, <3>1
    <3>2. CASE s # e
      <4>1. g[less[s]] \in Int
        BY <2>2, <3>2
      <4> QED BY SMTT(60), <2>1, <3>2, <4>1
    <3> QED BY <3>1, <3>2
  <2>3. P \subseteq Q
    <3> HIDE DEF Q
    <3> QED BY <2>2, RankInduction
  <2> QED BY <1>6, <2>3
<1> QED BY <1>5, <1>6 DEF Walks

(* The element a sum takes next, and the function it is read from.          *)
pick(s) == CHOOSE x \in s : TRUE
iteration(fun, S) ==
  CHOOSE g : g = [s \in SUBSET S |->
                    IF s = {} THEN 0 ELSE fun[pick(s)] + g[s \ {pick(s)}]]

(* The library's sum over a set is that function at the set.                *)
LEMMA SumIterates ==
  ASSUME NEW fun, NEW S
  PROVE  SumFunctionOnSet(fun, S) = iteration(fun, S)[S]
BY DEF SumFunctionOnSet, FoldFunctionOnSet, MapThenFoldSet, iteration, pick

(* Picking an element out of a finite set leaves a smaller one.             *)
LEMMA Picked ==
  ASSUME NEW s, IsFiniteSet(s), s # {}
  PROVE  /\ pick(s) \in s
         /\ \A x \in s : Cardinality(s \ {x}) < Cardinality(s)
<1>1. pick(s) \in s
  BY DEF pick
<1>2. ASSUME NEW x \in s PROVE Cardinality(s \ {x}) < Cardinality(s)
  <2>1. Cardinality(s \ {x}) = Cardinality(s) - 1 /\ Cardinality(s) \in Nat
    BY FS_RemoveElement, FS_CardinalityType
  <2> QED BY SMTT(60), <2>1
<1> QED BY <1>1, <1>2

(* g walks down a finite set of integers, one picked element at a time.     *)
Iterates(g, fun, S) ==
  /\ g \in [SUBSET S -> Int]
  /\ g[{}] = 0
  /\ \A s \in SUBSET S : s # {} => g[s] = fun[pick(s)] + g[s \ {pick(s)}]

(* What the sum over a set is made of.                                      *)
LEMMA SumRecursion ==
  ASSUME NEW fun, NEW S, IsFiniteSet(S), \A x \in S : fun[x] \in Int
  PROVE  Iterates(iteration(fun, S), fun, S)
<1> DEFINE P == SUBSET S
           rank == [s \in P |-> Cardinality(s)]
           val == [s \in P |-> IF s = {} THEN 0 ELSE fun[pick(s)]]
           less == [s \in P |-> s \ {pick(s)}]
           good(h) == Walks(h, P, {}, val, less)
           g == iteration(fun, S)
<1>1. \A s \in P : IsFiniteSet(s) /\ Cardinality(s) \in Nat
  BY FS_Subset, FS_CardinalityType
<1>2. \A s \in P : s # {} => pick(s) \in s /\ Cardinality(s \ {pick(s)}) < Cardinality(s)
  BY <1>1, Picked
<1>3. rank \in [P -> Nat] /\ val \in [P -> Int] /\ less \in [P -> P]
  BY SMTT(60), <1>1, <1>2
<1>4. \A s \in P : s # {} => rank[less[s]] < rank[s]
  BY <1>2, <1>3
<1>5. \A h : good(h) <=> h = [s \in SUBSET S |->
                          IF s = {} THEN 0 ELSE fun[pick(s)] + h[s \ {pick(s)}]]
  BY DEF Walks
<1> HIDE DEF rank, val, less, P
<1>6. (\E h : good(h)) /\ (\A h : good(h) => h \in [P -> Int])
  BY <1>3, <1>4, WalkExists
<1>7. good(g) /\ g \in [P -> Int]
  <2> HIDE DEF good
  <2>1. g = [s \in SUBSET S |->
               IF s = {} THEN 0 ELSE fun[pick(s)] + g[s \ {pick(s)}]]
    BY <1>5, <1>6 DEF iteration
  <2> HIDE DEF g
  <2> QED BY <1>5, <1>6, <2>1
<1> HIDE DEF g
<1>8. \A s \in P : g[s] = IF s = {} THEN 0 ELSE val[s] + g[less[s]]
  BY <1>7 DEF Walks
<1>9. Iterates(g, fun, S)
  BY <1>7, <1>8 DEF P, val, less, Iterates
<1> QED BY <1>9 DEF g

(* The order in which the elements are taken does not matter.               *)
LEMMA SumAnyOrder ==
  ASSUME NEW fun, NEW S, IsFiniteSet(S), \A x \in S : fun[x] \in Int
  PROVE  \A s \in SUBSET S : \A x \in s :
           iteration(fun, S)[s] = fun[x] + iteration(fun, S)[s \ {x}]
<1> DEFINE P == SUBSET S
           rank == [s \in P |-> Cardinality(s)]
           g == iteration(fun, S)
           Q == {s \in P : \A x \in s : g[s] = fun[x] + g[s \ {x}]}
<1>0. Iterates(g, fun, S)
  BY SumRecursion
<1>1. /\ g \in [P -> Int]
      /\ \A s \in P : s # {} => g[s] = fun[pick(s)] + g[s \ {pick(s)}]
  <2> HIDE DEF g
  <2> QED BY <1>0 DEF Iterates
<1>2. rank \in [P -> Nat] /\ \A s \in P : rank[s] = Cardinality(s)
  BY FS_Subset, FS_CardinalityType
<1>3. \A s \in P : s # {} =>
        pick(s) \in s /\ \A x \in s : Cardinality(s \ {x}) < Cardinality(s)
  BY FS_Subset, Picked
<1> HIDE DEF g, rank
<1>4. ASSUME NEW s \in P, \A t \in P : rank[t] < rank[s] => t \in Q
      PROVE  s \in Q
  <2> SUFFICES ASSUME NEW x \in s PROVE g[s] = fun[x] + g[s \ {x}]
    OBVIOUS
  <2> DEFINE y == pick(s)
  <2>1. y \in s /\ g[s] = fun[y] + g[s \ {y}]
    BY <1>1, <1>3
  <2> HIDE DEF y
  <2>2. CASE x = y
    BY <2>1, <2>2
  <2>3. CASE x # y
    <3> DEFINE t == s \ {x}
               u == s \ {y}
               w == u \ {x}
    <3>1. t \in P /\ u \in P /\ w \in P /\ y \in t /\ x \in u /\ w = t \ {y}
      BY <2>1, <2>3
    <3>2. rank[t] < rank[s] /\ rank[u] < rank[s]
      BY <1>2, <1>3, <2>1, <3>1
    <3>3. g[t] = fun[y] + g[w] /\ g[u] = fun[x] + g[w]
      BY SMTT(60), <1>4, <3>1, <3>2
    <3>4. fun[x] \in Int /\ fun[y] \in Int /\ g[w] \in Int
      BY <1>1, <2>1, <3>1
    <3> HIDE DEF w
    <3> QED BY SMTT(60), <2>1, <3>3, <3>4
  <2> QED BY <2>2, <2>3
<1>5. P \subseteq Q
  <2> HIDE DEF Q, P
  <2> QED BY <1>2, <1>4, RankInduction
<1> QED BY <1>5 DEF g

(* The sum over a set depends on the values at its elements alone.          *)
LEMMA SumAgrees ==
  ASSUME NEW f, NEW h, NEW S, NEW T, IsFiniteSet(S), IsFiniteSet(T), T \subseteq S,
         \A x \in S : f[x] \in Int,  \A x \in T : h[x] = f[x]
  PROVE  \A s \in SUBSET T : iteration(f, S)[s] = iteration(h, T)[s]
<1> DEFINE P == SUBSET T
           rank == [s \in P |-> Cardinality(s)]
           F == iteration(f, S)
           H == iteration(h, T)
           Q == {s \in P : F[s] = H[s]}
<1>1. Iterates(F, f, S)
  BY SumRecursion
<1>2. Iterates(H, h, T)
  <2>1. \A x \in T : h[x] \in Int
    OBVIOUS
  <2> QED BY <2>1, SumRecursion
<1>3. rank \in [P -> Nat] /\ \A s \in P : rank[s] = Cardinality(s)
  BY FS_Subset, FS_CardinalityType
<1>4. \A s \in P : s # {} =>
        pick(s) \in s /\ Cardinality(s \ {pick(s)}) < Cardinality(s)
  BY FS_Subset, Picked
<1> HIDE DEF F, H, rank
<1>5. ASSUME NEW s \in P, \A t \in P : rank[t] < rank[s] => t \in Q
      PROVE  s \in Q
  <2>1. CASE s = {}
    BY <1>1, <1>2, <2>1 DEF Iterates
  <2>2. CASE s # {}
    <3> DEFINE y == pick(s)
               t == s \ {y}
    <3>1. y \in s /\ t \in P /\ rank[t] < rank[s]
      BY <1>3, <1>4, <2>2
    <3>2. F[t] = H[t] /\ h[y] = f[y]
      BY <1>5, <3>1
    <3>3. F[s] = f[y] + F[t] /\ H[s] = h[y] + H[t]
      BY <1>1, <1>2, <2>2 DEF Iterates
    <3> QED BY <3>2, <3>3
  <2> QED BY <2>1, <2>2
<1>6. P \subseteq Q
  <2> HIDE DEF Q, P
  <2> QED BY <1>3, <1>5, RankInduction
<1> QED BY <1>6 DEF F, H

(* The sum over the empty set.                                              *)
LEMMA SumEmpty ==
  ASSUME NEW f
  PROVE  SumFunctionOnSet(f, {}) = 0
<1>1. IsFiniteSet({}) /\ \A x \in {} : f[x] \in Int
  BY FS_EmptySet
<1>2. iteration(f, {})[{}] = 0
  BY <1>1, SumRecursion DEF Iterates
<1> QED BY <1>2, SumIterates

(* The sum over a finite set of integers is an integer.                     *)
LEMMA SumType ==
  ASSUME NEW f, NEW S, IsFiniteSet(S), \A x \in S : f[x] \in Int
  PROVE  SumFunctionOnSet(f, S) \in Int
<1>1. iteration(f, S) \in [SUBSET S -> Int]
  BY SumRecursion DEF Iterates
<1>2. iteration(f, S)[S] \in Int
  BY <1>1
<1> QED BY <1>2, SumIterates

(* Functions with the same values on a set have the same sum over it.       *)
LEMMA SumSame ==
  ASSUME NEW f, NEW h, NEW S, IsFiniteSet(S), \A x \in S : f[x] \in Int,
         \A x \in S : h[x] = f[x]
  PROVE  SumFunctionOnSet(f, S) = SumFunctionOnSet(h, S)
<1>1. iteration(f, S)[S] = iteration(h, S)[S]
  BY SMTT(60), SumAgrees
<1> QED BY <1>1, SumIterates

(* Any element may be taken out of a sum.                                   *)
LEMMA SumTake ==
  ASSUME NEW f, NEW S, IsFiniteSet(S), \A x \in S : f[x] \in Int, NEW a \in S
  PROVE  /\ IsFiniteSet(S \ {a})
         /\ SumFunctionOnSet(f, S) = f[a] + SumFunctionOnSet(f, S \ {a})
<1> DEFINE T == S \ {a}
<1>1. IsFiniteSet(T) /\ T \subseteq S /\ \A x \in T : f[x] = f[x]
  BY FS_Subset
<1>2. iteration(f, S)[S] = f[a] + iteration(f, S)[T]
  BY SMTT(60), SumAnyOrder
<1>3. iteration(f, S)[T] = iteration(f, T)[T]
  <2> HIDE DEF T
  <2> QED BY SMTT(60), <1>1, SumAgrees
<1> QED BY <1>1, <1>2, <1>3, SumIterates

(* A sum of natural numbers is one.                                         *)
LEMMA SumNat ==
  ASSUME NEW f, NEW S, IsFiniteSet(S), \A x \in S : f[x] \in Nat
  PROVE  SumFunctionOnSet(f, S) \in Nat
<1> DEFINE P == SUBSET S
           rank == [s \in P |-> Cardinality(s)]
           F == iteration(f, S)
           Q == {s \in P : F[s] \in Nat}
<1>1. Iterates(F, f, S)
  BY SMTT(60), SumRecursion
<1>2. rank \in [P -> Nat] /\ \A s \in P : rank[s] = Cardinality(s)
  BY FS_Subset, FS_CardinalityType
<1>3. \A s \in P : s # {} =>
        pick(s) \in s /\ Cardinality(s \ {pick(s)}) < Cardinality(s)
  BY FS_Subset, Picked
<1> HIDE DEF F, rank
<1>4. ASSUME NEW s \in P, \A t \in P : rank[t] < rank[s] => t \in Q
      PROVE  s \in Q
  <2>1. CASE s = {}
    BY SMTT(60), <1>1, <2>1 DEF Iterates
  <2>2. CASE s # {}
    <3> DEFINE t == s \ {pick(s)}
    <3>1. pick(s) \in S /\ t \in P /\ rank[t] < rank[s]
      BY <1>2, <1>3, <2>2
    <3>2. F[t] \in Nat /\ f[pick(s)] \in Nat
      BY <1>4, <3>1
    <3>3. F[s] = f[pick(s)] + F[t]
      BY <1>1, <2>2 DEF Iterates
    <3> QED BY SMTT(60), <3>2, <3>3
  <2> QED BY <2>1, <2>2
<1>5. P \subseteq Q
  <2> HIDE DEF Q, P
  <2> QED BY <1>2, <1>4, RankInduction
<1>6. F[S] \in Nat
  BY <1>5
<1> QED BY <1>6, SumIterates DEF F

(* The sum splits into one part and the rest.                               *)
LEMMA SumPart ==
  ASSUME NEW f, Summable(f), NEW a
  PROVE  /\ SumFunction(f) = part(f, a) + SumFunctionOnSet(f, DOMAIN f \ {a})
         /\ SumFunction(f) \in Int /\ part(f, a) \in Int
         /\ SumFunctionOnSet(f, DOMAIN f \ {a}) \in Int
<1> DEFINE S == DOMAIN f
<1>1. IsFiniteSet(S) /\ \A x \in S : f[x] \in Int
  BY DEF Summable
<1>2. SumFunction(f) = SumFunctionOnSet(f, S)
  BY DEF SumFunction
<1> HIDE DEF S
<1>3. SumFunctionOnSet(f, S) \in Int
  BY <1>1, SumType
<1>4. CASE a \in S
  <2>1. /\ IsFiniteSet(S \ {a})
        /\ SumFunctionOnSet(f, S) = f[a] + SumFunctionOnSet(f, S \ {a})
    BY SMTT(60), <1>1, <1>4, SumTake
  <2>2. SumFunctionOnSet(f, S \ {a}) \in Int
    <3>1. \A x \in S \ {a} : f[x] \in Int
      BY <1>1
    <3> QED BY <2>1, <3>1, SumType
  <2> QED BY <1>1, <1>2, <1>3, <1>4, <2>1, <2>2 DEF part, S
<1>5. CASE a \notin S
  <2>1. S \ {a} = S /\ part(f, a) = 0
    BY <1>5 DEF part, S
  <2> QED BY SMTT(60), <1>2, <1>3, <2>1 DEF S
<1> QED BY <1>4, <1>5

(* Changing one key changes the sum by what is there.                       *)
LEMMA SumDiffer ==
  ASSUME NEW f, NEW g, Summable(f), Summable(g), NEW a, Differ(f, g, a)
  PROVE  /\ SumFunction(g) = SumFunction(f) - part(f, a) + part(g, a)
         /\ SumFunction(f) \in Int /\ part(f, a) \in Int /\ part(g, a) \in Int
<1> DEFINE T == DOMAIN f \ {a}
<1>1. DOMAIN g \ {a} = T /\ \A x \in T : g[x] = f[x]
  BY DEF Differ
<1>2. IsFiniteSet(T) /\ \A x \in T : f[x] \in Int
  BY FS_Subset DEF Summable
<1>3. /\ SumFunction(f) = part(f, a) + SumFunctionOnSet(f, T)
      /\ SumFunction(f) \in Int /\ part(f, a) \in Int /\ SumFunctionOnSet(f, T) \in Int
  BY SumPart
<1> HIDE DEF T
<1>4. /\ SumFunction(g) = part(g, a) + SumFunctionOnSet(g, T)
      /\ SumFunction(g) \in Int /\ part(g, a) \in Int
  BY <1>1, SumPart
<1>5. SumFunctionOnSet(f, T) = SumFunctionOnSet(g, T)
  BY <1>1, <1>2, SumSame
<1> QED BY SMTT(60), <1>3, <1>4, <1>5

(* No part of a sum of natural numbers is above it.                         *)
LEMMA SumAbove ==
  ASSUME NEW f, IsFiniteSet(DOMAIN f), \A x \in DOMAIN f : f[x] \in Nat, NEW a
  PROVE  /\ Summable(f) /\ SumFunction(f) \in Nat
         /\ part(f, a) \in Nat /\ part(f, a) <= SumFunction(f)
<1>1. Summable(f)
  BY SMTT(60) DEF Summable
<1>2. SumFunctionOnSet(f, DOMAIN f \ {a}) \in Nat /\ SumFunctionOnSet(f, DOMAIN f) \in Nat
  BY FS_Subset, SumNat
<1>3. SumFunction(f) = part(f, a) + SumFunctionOnSet(f, DOMAIN f \ {a})
  BY <1>1, SumPart
<1>4. part(f, a) \in Nat
  BY DEF part
<1> QED BY SMTT(60), <1>1, <1>2, <1>3, <1>4 DEF SumFunction

(* A sum of natural numbers is at most one of numbers that are not smaller. *)
LEMMA SumBelow ==
  ASSUME NEW f, NEW h, IsFiniteSet(DOMAIN f), DOMAIN h = DOMAIN f,
         \A x \in DOMAIN f : f[x] \in Nat /\ h[x] \in Nat /\ f[x] <= h[x]
  PROVE  SumFunction(f) <= SumFunction(h)
<1> DEFINE S == DOMAIN f
           P == SUBSET S
           rank == [s \in P |-> Cardinality(s)]
           F == iteration(f, S)
           H == iteration(h, S)
           Q == {s \in P : F[s] <= H[s]}
<1>0. IsFiniteSet(S) /\ \A x \in S : f[x] \in Nat /\ h[x] \in Nat /\ f[x] <= h[x]
  OBVIOUS
<1>1. Iterates(F, f, S) /\ Iterates(H, h, S)
  <2>1. (\A x \in S : f[x] \in Int) /\ (\A x \in S : h[x] \in Int)
    BY SMTT(60), <1>0
  <2> HIDE DEF S
  <2> QED BY <1>0, <2>1, SumRecursion
<1>2. SumFunction(f) = F[S] /\ SumFunction(h) = H[S]
  BY SumIterates DEF SumFunction
<1> HIDE DEF S
<1>3. rank \in [P -> Nat] /\ \A s \in P : rank[s] = Cardinality(s)
  BY <1>0, FS_Subset, FS_CardinalityType
<1>4. \A s \in P : s # {} =>
        pick(s) \in s /\ Cardinality(s \ {pick(s)}) < Cardinality(s)
  BY <1>0, FS_Subset, Picked
<1> HIDE DEF F, H, rank
<1>5. ASSUME NEW s \in P, \A t \in P : rank[t] < rank[s] => t \in Q
      PROVE  s \in Q
  <2>1. CASE s = {}
    BY SMTT(60), <1>1, <2>1 DEF Iterates
  <2>2. CASE s # {}
    <3> DEFINE y == pick(s)
               t == s \ {y}
    <3>1. y \in S /\ t \in P /\ rank[t] < rank[s]
      BY <1>3, <1>4, <2>2
    <3>2. F[t] <= H[t] /\ f[y] <= h[y] /\ f[y] \in Int /\ h[y] \in Int
      BY SMTT(60), <1>0, <1>5, <3>1
    <3>3. F[s] = f[y] + F[t] /\ H[s] = h[y] + H[t]
      BY <1>1, <2>2 DEF Iterates
    <3>4. F[t] \in Int /\ H[t] \in Int
      BY <1>1, <3>1 DEF Iterates
    <3> HIDE DEF y, t
    <3> QED BY SMTT(60), <3>2, <3>3, <3>4
  <2> QED BY <2>1, <2>2
<1>6. P \subseteq Q
  <2> HIDE DEF Q, P
  <2> QED BY <1>3, <1>5, RankInduction
<1> QED BY <1>2, <1>6

(* The sum of a table with one entry.                                       *)
LEMMA SumSingle ==
  ASSUME NEW f, NEW a, DOMAIN f = {a}, f[a] \in Int
  PROVE  Summable(f) /\ SumFunction(f) = f[a]
<1>1. Summable(f)
  BY FS_Singleton DEF Summable
<1>2. DOMAIN f \ {a} = {} /\ part(f, a) = f[a]
  BY DEF part
<1>3. SumFunction(f) = part(f, a) + SumFunctionOnSet(f, DOMAIN f \ {a})
  BY <1>1, SumPart
<1> QED BY SMTT(60), <1>1, <1>2, <1>3, SumEmpty

-----------------------------------------------------------------------------
(* Finite sets are counted as CountLaws says.                               *)
THEOREM CountLawsHold == CountLaws
<1>1. IsFiniteSet({}) /\ Cardinality({}) = 0
  BY FS_EmptySet
<1>2. \A x : IsFiniteSet({x}) /\ Cardinality({x}) = 1
  BY FS_Singleton
<1>3. \A S : IsFiniteSet(S) => Cardinality(S) \in Nat
  BY FS_CardinalityType
<1>4. \A S, x : IsFiniteSet(S) /\ x \notin S =>
        IsFiniteSet(S \cup {x}) /\ Cardinality(S \cup {x}) = Cardinality(S) + 1
  BY FS_AddElement
<1>5. \A S, x : IsFiniteSet(S) /\ x \in S =>
        IsFiniteSet(S \ {x}) /\ Cardinality(S \ {x}) = Cardinality(S) - 1
  BY FS_RemoveElement
<1>6. \A S, T : IsFiniteSet(S) /\ T \subseteq S => IsFiniteSet(T)
  BY FS_Subset
<1>7. ASSUME NEW S, NEW f, IsFiniteSet(S)
      PROVE  IsFiniteSet({f[x] : x \in S})
  <2> DEFINE g == [x \in S |-> f[x]]
             T == {f[x] : x \in S}
  <2>1. g \in Surjection(S, T)
    BY DEF Surjection
  <2> HIDE DEF g, T
  <2>2. IsFiniteSet(T)
    BY <1>7, <2>1, FS_Surjection
  <2> QED BY <2>2 DEF T
<1> QED BY <1>1, <1>2, <1>3, <1>4, <1>5, <1>6, <1>7 DEF CountLaws

(* A finite set can be listed, and its parts have no more elements.         *)
THEOREM ListLawHolds == ListLaw
BY FS_CardinalityType, FS_Subset DEF ListLaw, ExistsBijection

(* Induction on a rank is sound.                                            *)
THEOREM RankLawHolds == RankLaw
BY RankInduction DEF RankLaw

(* A recursion that looks back defines a function.                          *)
THEOREM RecursionLawHolds == RecursionLaw
BY RecursionExists DEF RecursionLaw

(* A change at one key changes a sum by what it changes there.              *)
THEOREM SumLawsHold == SumLaws
<1>1. \A f, g, a : Summable(f) /\ Summable(g) /\ Differ(f, g, a) =>
        /\ SumFunction(g) = SumFunction(f) - part(f, a) + part(g, a)
        /\ SumFunction(f) \in Int /\ part(f, a) \in Int /\ part(g, a) \in Int
  BY SumDiffer
<1>2. \A f, a : IsFiniteSet(DOMAIN f) /\ (\A x \in DOMAIN f : f[x] \in Nat) =>
        SumFunction(f) \in Nat /\ part(f, a) \in Nat /\ part(f, a) <= SumFunction(f)
  BY SumAbove
<1>3. \A f, a : DOMAIN f = {a} /\ f[a] \in Int => Summable(f) /\ SumFunction(f) = f[a]
  BY SumSingle
<1>4. ASSUME NEW f, DOMAIN f = {} PROVE Summable(f) /\ SumFunction(f) = 0
  BY <1>4, SumEmpty, FS_EmptySet DEF Summable, SumFunction
<1>5. \A f : DOMAIN f = {} => Summable(f) /\ SumFunction(f) = 0
  BY <1>4
<1> QED BY <1>1, <1>2, <1>3, <1>5 DEF SumLaws

(* Smaller summands, smaller sum.                                           *)
THEOREM BelowLawHolds == BelowLaw
BY SumBelow DEF BelowLaw

=============================================================================
