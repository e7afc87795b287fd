-------------------------------- MODULE Laws --------------------------------
(***************************************************************************)
(* The facts about counting, recursion and sums that the proofs about the  *)
(* ledger rest on, as formulas.  Sums proves them from the library; the    *)
(* lemmas that need one assume it, so that the provers meet the formula    *)
(* and not the library.                                                    *)
(***************************************************************************)
EXTENDS Integers, FiniteSets, Functions

(* Finite sets and how many elements they have.                             *)
CountLaws ==
  /\ IsFiniteSet({}) /\ Cardinality({}) = 0
  /\ \A x : IsFiniteSet({x}) /\ Cardinality({x}) = 1
  /\ \A S : IsFiniteSet(S) => Cardinality(S) \in Nat
  /\ \A S, x : IsFiniteSet(S) /\ x \notin S =>
       IsFiniteSet(S \cup {x}) /\ Cardinality(S \cup {x}) = Cardinality(S) + 1
  /\ \A S, x : IsFiniteSet(S) /\ x \in S =>
       IsFiniteSet(S \ {x}) /\ Cardinality(S \ {x}) = Cardinality(S) - 1
  /\ \A S, T : IsFiniteSet(S) /\ T \subseteq S => IsFiniteSet(T)
  /\ \A S, f : IsFiniteSet(S) => IsFiniteSet({f[x] : x \in S})

(* A finite set can be listed, and its parts have no more elements.         *)
ListLaw ==
  /\ \A S : IsFiniteSet(S) => \E f : f \in Bijection(1 .. Cardinality(S), S)
  /\ \A S, T : IsFiniteSet(S) /\ T \subseteq S => Cardinality(T) <= Cardinality(S)

(* Induction on a rank.                                                     *)
RankLaw ==
  \A S, Q : \A rank \in [S -> Nat] :
    (\A x \in S : (\A y \in S : rank[y] < rank[x] => y \in Q) => x \in Q) => S \subseteq Q

(* D says what a recursive function f has at x: D[<<x, f>>].  It looks back *)
(* if that depends only on what f has at elements of lower rank, and then   *)
(* some function satisfies the recursion.                                   *)
LooksBack(D, S, V, rank) ==
  \A x \in S : \A f, g \in [S -> V] :
           (\A y \in S : rank[y] < rank[x] => f[y] = g[y]) => D[<<x, f>>] = D[<<x, g>>]
Recurses(f, D, S, V) == f \in [S -> V] /\ \A x \in S : f[x] = D[<<x, f>>]
RecursionLaw ==
  \A S, V : V # {} =>
    \A rank \in [S -> Nat] : \A D \in [S \X [S -> V] -> V] :
      LooksBack(D, S, V, rank) => \E f : Recurses(f, D, S, V)

(* The part of a sum that a key contributes.                                *)
part(f, a) == IF a \in DOMAIN f THEN f[a] ELSE 0
(* A table of numbers, and one that differs from it at one key at most.     *)
Summable(f) == IsFiniteSet(DOMAIN f) /\ \A x \in DOMAIN f : f[x] \in Int
Differ(f, g, a) == \A x : x # a => /\ x \in DOMAIN f <=> x \in DOMAIN g
                                   /\ x \in DOMAIN f => g[x] = f[x]
SumLaws ==
  /\ \A f, g, a : Summable(f) /\ Summable(g) /\ Differ(f, g, a) =>
       /\ SumFunction(g) = SumFunction(f) - part(f, a) + part(g, a)
       /\ SumFunction(f) \in Int /\ part(f, a) \in Int /\ part(g, a) \in Int
  /\ \A f, a : IsFiniteSet(DOMAIN f) /\ (\A x \in DOMAIN f : f[x] \in Nat) =>
       SumFunction(f) \in Nat /\ part(f, a) \in Nat /\ part(f, a) <= SumFunction(f)
  /\ \A f, a : DOMAIN f = {a} /\ f[a] \in Int => Summable(f) /\ SumFunction(f) = f[a]
  /\ \A f : DOMAIN f = {} => Summable(f) /\ SumFunction(f) = 0
(* Smaller summands, smaller sum.                                           *)
BelowLaw ==
  \A f, h : IsFiniteSet(DOMAIN f) /\ DOMAIN h = DOMAIN f
             /\ (\A x \in DOMAIN f : f[x] \in Nat /\ h[x] \in Nat /\ f[x] <= h[x])
             => SumFunction(f) <= SumFunction(h)

=============================================================================
