--------------------------- MODULE ElectionsProofs ---------------------------
(***************************************************************************)
(* What elections, block processor and cemented callbacks promise each     *)
(* other, for every universe of blocks, every set of representatives and   *)
(* every number of votes and arrivals.                                     *)
(***************************************************************************)
EXTENDS Elections, Laws, TLAPS

(* Enough time for a step on a busy machine.                                *)
USE ZenonT(60)

(* What the proofs use of counting, induction and recursion; Sums proves it.*)
General == CountLaws /\ ListLaw /\ RankLaw /\ RecursionLaw

(* Induction on a rank.                                                     *)
LEMMA RankInduction ==
  ASSUME General, NEW S, NEW order \in [S -> Nat], NEW Q,
         \A x \in S : (\A y \in S : order[y] < order[x] => y \in Q) => x \in Q
  PROVE  S \subseteq Q
  BY DEF General, RankLaw

(* The parts of a finite set are finite.                                    *)
LEMMA FiniteParts ==
  ASSUME General, NEW S, IsFiniteSet(S), NEW T, T \subseteq S
  PROVE  IsFiniteSet(T)
  BY DEF General, CountLaws

(* A finite set can be counted.                                             *)
LEMMA FiniteCounted ==
  ASSUME General, NEW S, IsFiniteSet(S)
  PROVE  Cardinality(S) \in Nat /\ \E f : f \in Bijection(1 .. Cardinality(S), S)
  BY DEF General, CountLaws, ListLaw

(* A set has fewer elements than one that holds it and more.                *)
LEMMA LargerPart ==
  ASSUME General, NEW S, IsFiniteSet(S), NEW x \in S, NEW T, T \subseteq S \ {x}
  PROVE  Cardinality(T) < Cardinality(S)
<1>1. IsFiniteSet(S \ {x}) /\ Cardinality(S \ {x}) = Cardinality(S) - 1
  BY DEF General, CountLaws
<1>2. Cardinality(T) <= Cardinality(S \ {x})
  BY <1>1 DEF General, ListLaw
<1>3. IsFiniteSet(T)
  BY <1>1, FiniteParts
<1> QED BY SMTT(60), <1>1, <1>2, <1>3, FiniteCounted

(* What a block names is a block, and older.                                *)
LEMMA DependenciesOlder ==
  ASSUME NEW h \in Hash
  PROVE  /\ dependencies(h) \subseteq Hash
         /\ Block[h].previous # Zero => Block[h].previous \in dependencies(h)
         /\ Block[h].source # Zero => Block[h].source \in dependencies(h)
         /\ \A d \in dependencies(h) : Rank[d] < Rank[h]
  BY BlocksAssumption, RankAssumption DEF dependencies

(* below holds a block and what the blocks it names rest on.                *)
LEMMA BelowUnfolds ==
  ASSUME General
  PROVE  /\ below \in [Hash -> SUBSET Hash]
         /\ \A h \in Hash : below[h] = {h} \cup UNION {below[d] : d \in dependencies(h)}
<1> DEFINE D == [p \in Hash \X [Hash -> SUBSET Hash] |->
                   {p[1]} \cup UNION {p[2][d] : d \in dependencies(p[1])}]
           walk(g) == [h \in Hash |-> {h} \cup UNION {g[d] : d \in dependencies(h)}]
<1>1. D \in [Hash \X [Hash -> SUBSET Hash] -> SUBSET Hash]
  BY SMTT(60), DependenciesOlder
<1>2. \A h \in Hash : \A f \in [Hash -> SUBSET Hash] :
        D[<<h, f>>] = {h} \cup UNION {f[d] : d \in dependencies(h)}
  OBVIOUS
<1> HIDE DEF D
<1>3. LooksBack(D, Hash, SUBSET Hash, Rank)
  <2> SUFFICES ASSUME NEW h \in Hash, NEW f \in [Hash -> SUBSET Hash],
                      NEW g \in [Hash -> SUBSET Hash],
                      \A k \in Hash : Rank[k] < Rank[h] => f[k] = g[k]
               PROVE  D[<<h, f>>] = D[<<h, g>>]
    BY DEF LooksBack
  <2>1. \A d \in dependencies(h) : f[d] = g[d]
    BY DependenciesOlder
  <2>2. {f[d] : d \in dependencies(h)} = {g[d] : d \in dependencies(h)}
    BY <2>1
  <2>3. /\ D[<<h, f>>] = {h} \cup UNION {f[d] : d \in dependencies(h)}
        /\ D[<<h, g>>] = {h} \cup UNION {g[d] : d \in dependencies(h)}
    BY <1>2
  <2> QED BY <2>2, <2>3
<1>4. PICK f : Recurses(f, D, Hash, SUBSET Hash)
  <2>1. SUBSET Hash # {} /\ Rank \in [Hash -> Nat]
    BY RankAssumption
  <2> QED BY <1>1, <1>3, <2>1 DEF General, RecursionLaw
<1>5. f = walk(f)
  <2>1. /\ f \in [Hash -> SUBSET Hash]
        /\ \A h \in Hash : f[h] = {h} \cup UNION {f[d] : d \in dependencies(h)}
    BY <1>2, <1>4 DEF Recurses
  <2> QED BY <2>1
<1> DEFINE of == CHOOSE g : g = walk(g)
<1>6. of = walk(of)
  BY <1>5
<1>7. below = [h \in Hash |-> of[h]]
  BY DEF below
<1> HIDE DEF of
<1>8. \A h \in Hash : below[h] = {h} \cup UNION {below[d] : d \in dependencies(h)}
  <2> SUFFICES ASSUME NEW h \in Hash
               PROVE  below[h] = {h} \cup UNION {below[d] : d \in dependencies(h)}
    OBVIOUS
  <2>1. \A d \in dependencies(h) : below[d] = of[d]
    BY <1>7, DependenciesOlder
  <2>2. {below[d] : d \in dependencies(h)} = {of[d] : d \in dependencies(h)}
    BY <2>1
  <2>3. below[h] = {h} \cup UNION {of[d] : d \in dependencies(h)}
    BY <1>6, <1>7
  <2> QED BY <2>2, <2>3
<1> DEFINE Q == {h \in Hash : below[h] \subseteq Hash}
<1>9. ASSUME NEW h \in Hash, \A k \in Hash : Rank[k] < Rank[h] => k \in Q PROVE h \in Q
  <2>1. \A d \in dependencies(h) : below[d] \subseteq Hash
    BY <1>9, DependenciesOlder
  <2> QED BY SMTT(60), <1>8, <2>1
<1>10. Hash \subseteq Q
  <2> HIDE DEF Q
  <2> QED BY <1>9, RankAssumption, RankInduction
<1>11. below \in [Hash -> SUBSET Hash]
  BY <1>7, <1>10
<1> QED BY <1>8, <1>11

(* height counts a block and the previous ones.                             *)
LEMMA HeightUnfolds ==
  ASSUME General
  PROVE  /\ height \in [Hash -> Nat]
         /\ \A h \in Hash : height[h] = IF Block[h].previous = Zero THEN 1
                                        ELSE height[Block[h].previous] + 1
<1> DEFINE D == [p \in Hash \X [Hash -> Nat] |->
                   IF Block[p[1]].previous = Zero THEN 1 ELSE p[2][Block[p[1]].previous] + 1]
           walk(g) == [h \in Hash |-> IF Block[h].previous = Zero THEN 1
                                      ELSE g[Block[h].previous] + 1]
<1>1. \A h \in Hash : Block[h].previous # Zero =>
        Block[h].previous \in Hash /\ Rank[Block[h].previous] < Rank[h]
  BY DependenciesOlder
<1>2. D \in [Hash \X [Hash -> Nat] -> Nat]
  BY SMTT(60), <1>1
<1>3. \A h \in Hash : \A f \in [Hash -> Nat] :
        D[<<h, f>>] = IF Block[h].previous = Zero THEN 1 ELSE f[Block[h].previous] + 1
  OBVIOUS
<1> HIDE DEF D
<1>4. LooksBack(D, Hash, Nat, Rank)
  BY SMTT(60), <1>1, <1>3 DEF LooksBack
<1>5. PICK f : Recurses(f, D, Hash, Nat)
  <2>1. Nat # {} /\ Rank \in [Hash -> Nat]
    BY RankAssumption
  <2> QED BY <1>2, <1>4, <2>1 DEF General, RecursionLaw
<1>6. f = walk(f)
  <2>1. /\ f \in [Hash -> Nat]
        /\ \A h \in Hash : f[h] = IF Block[h].previous = Zero THEN 1
                                   ELSE f[Block[h].previous] + 1
    BY <1>3, <1>5 DEF Recurses
  <2> QED BY <2>1
<1> DEFINE of == CHOOSE g : g = walk(g)
<1>7. of = walk(of)
  BY <1>6
<1>8. height = [h \in Hash |-> of[h]]
  BY DEF height
<1> HIDE DEF of
<1>9. \A h \in Hash : height[h] = IF Block[h].previous = Zero THEN 1
                                  ELSE height[Block[h].previous] + 1
  BY <1>1, <1>7, <1>8
<1> DEFINE Q == {h \in Hash : height[h] \in Nat}
<1>10. ASSUME NEW h \in Hash, \A k \in Hash : Rank[k] < Rank[h] => k \in Q PROVE h \in Q
  BY SMTT(60), <1>1, <1>9, <1>10
<1>11. Hash \subseteq Q
  <2> HIDE DEF Q
  <2> QED BY <1>10, RankAssumption, RankInduction
<1> QED BY <1>8, <1>9, <1>11

-----------------------------------------------------------------------------
(* A set of blocks that holds what its blocks name, every one on a block of *)
(* its own account, and no two for one place.                               *)
Closed(S) == S \subseteq Hash /\ \A h \in S : dependencies(h) \subseteq S /\ ~foreign(h)
Rivalless(S) == \A h, s \in S : ~rivals(h, s)

(* Such a set holds all that its blocks rest on.                            *)
LEMMA ClosedBelow ==
  ASSUME General, NEW S, Closed(S), NEW s \in S
  PROVE  below[s] \subseteq S
<1> DEFINE Q == {h \in Hash : h \in S => below[h] \subseteq S}
<1>1. ASSUME NEW h \in Hash, \A k \in Hash : Rank[k] < Rank[h] => k \in Q PROVE h \in Q
  <2> SUFFICES ASSUME h \in S PROVE below[h] \subseteq S
    OBVIOUS
  <2>1. \A d \in dependencies(h) : below[d] \subseteq S
    BY <1>1, DependenciesOlder DEF Closed
  <2> QED BY SMTT(60), <2>1, BelowUnfolds
<1>2. Hash \subseteq Q
  <2> HIDE DEF Q
  <2> QED BY <1>1, RankAssumption, RankInduction
<1> QED BY <1>2 DEF Closed

(* A chain without forks has one block at each height, and a closed part of *)
(* the set holds with a block all lower ones of its chain.                  *)
LEMMA LowerInside ==
  ASSUME General, NEW S, Closed(S), Rivalless(S), NEW C \in SUBSET S, Closed(C),
         NEW m \in C, NEW k \in S, Block[k].account = Block[m].account,
         height[k] <= height[m]
  PROVE  k \in C /\ (height[k] = height[m] => k = m)
<1> DEFINE Q == {h \in Hash : \A n \in S : Block[n].account = Block[h].account =>
                    /\ h \in S /\ height[n] = height[h] => n = h
                    /\ h \in C /\ height[n] <= height[h] => n \in C}
<1>1. ASSUME NEW h \in Hash, \A j \in Hash : Rank[j] < Rank[h] => j \in Q PROVE h \in Q
  <2> SUFFICES ASSUME NEW n \in S, Block[n].account = Block[h].account, h \in S
               PROVE  /\ height[n] = height[h] => n = h
                      /\ h \in C /\ height[n] <= height[h] => n \in C
    BY DEF Q
  <2> DEFINE p == Block[h].previous
             q == Block[n].previous
  <2>0. n \in Hash /\ height[n] \in Nat /\ height[h] \in Nat
    BY HeightUnfolds DEF Closed
  <2>1. /\ p # Zero => /\ p \in S \cap Q /\ height[h] = height[p] + 1 /\ height[p] \in Nat
                       /\ Block[p].account = Block[h].account
        /\ p = Zero => height[h] = 1
    BY <1>1, DependenciesOlder, HeightUnfolds DEF Closed, foreign
  <2>2. /\ q # Zero => /\ q \in S /\ height[n] = height[q] + 1 /\ height[q] \in Nat
                       /\ Block[q].account = Block[n].account
        /\ q = Zero => height[n] = 1
    BY <2>0, DependenciesOlder, HeightUnfolds DEF Closed, foreign
  <2>3. \A j \in Hash : height[j] >= 1
    <3> TAKE j \in Hash
    <3>1. Block[j].previous # Zero => Block[j].previous \in Hash
      BY DependenciesOlder
    <3> QED BY SMTT(60), <3>1, HeightUnfolds
  <2>4. ASSUME height[n] = height[h] PROVE n = h
    <3>1. CASE p = Zero
      <4>1. q = Zero
        BY SMTT(60), <2>1, <2>2, <2>3, <2>4, <3>1 DEF Closed
      <4>2. root(n) = root(h)
        BY <3>1, <4>1 DEF root
      <4> QED BY <4>2 DEF Rivalless, rivals
    <3>2. CASE p # Zero
      <4>1. q # Zero /\ height[q] = height[p]
        BY SMTT(60), <2>1, <2>2, <2>3, <2>4, <3>2 DEF Closed
      <4>2. q = p
        BY <2>1, <2>2, <3>2, <4>1
      <4>3. root(n) = root(h)
        BY <3>2, <4>2 DEF root
      <4> QED BY <4>3 DEF Rivalless, rivals
    <3> QED BY <3>1, <3>2
  <2>5. ASSUME h \in C, height[n] <= height[h] PROVE n \in C
    <3>1. CASE height[n] = height[h]
      BY <2>4, <2>5, <3>1
    <3>2. CASE height[n] < height[h]
      <4>1. p # Zero
        BY SMTT(60), <2>0, <2>1, <2>3, <3>2
      <4>2. p \in C
        BY <2>5, <4>1, DependenciesOlder DEF Closed
      <4>3. height[n] <= height[p]
        BY SMTT(60), <2>0, <2>1, <3>2, <4>1
      <4> QED BY <2>1, <4>1, <4>2, <4>3
    <3> QED BY SMTT(60), <2>0, <2>5, <3>1, <3>2
  <2> QED BY <2>4, <2>5
<1>2. Hash \subseteq Q
  <2> HIDE DEF Q
  <2> QED BY <1>1, RankAssumption, RankInduction
<1> QED BY <1>2 DEF Closed

(* Some block of a set is lowest.                                           *)
LEMMA LowestExists ==
  ASSUME General, NEW S \in SUBSET Hash, S # {}
  PROVE  \E h \in S : \A k \in S : height[h] <= height[k]
<1> DEFINE low == [h \in S |-> height[h]]
<1>1. low \in [S -> Nat] /\ \A h \in S : low[h] = height[h]
  BY HeightUnfolds
<1> HIDE DEF low
<1> SUFFICES ASSUME \A h \in S : \E k \in S : low[k] < low[h] PROVE FALSE
  BY SMTT(60), <1>1
<1> DEFINE Q == {}
<1>2. ASSUME NEW h \in S, \A k \in S : low[k] < low[h] => k \in Q PROVE h \in Q
  BY <1>2
<1>3. S \subseteq Q
  <2> HIDE DEF Q
  <2> QED BY SMTT(60), <1>1, <1>2, RankInduction
<1> QED BY <1>3

(* And some block is highest, the blocks being finitely many.               *)
LEMMA HighestExists ==
  ASSUME General, NEW S \in SUBSET Hash, S # {}
  PROVE  \E h \in S : \A k \in S : height[k] <= height[h]
<1> DEFINE above(h) == {k \in S : height[k] > height[h]}
           up == [h \in S |-> Cardinality(above(h))]
<1>1. height \in [Hash -> Nat]
  BY HeightUnfolds
<1>2. ASSUME NEW h \in S PROVE IsFiniteSet(above(h)) /\ Cardinality(above(h)) \in Nat
  <2>1. above(h) \in SUBSET Hash
    OBVIOUS
  <2>2. IsFiniteSet(above(h))
    BY <2>1, RankAssumption, FiniteParts
  <2> QED BY <2>2, FiniteCounted
<1>3. ASSUME NEW h \in S, NEW k \in S, height[k] > height[h] PROVE up[k] < up[h]
  <2>1. above(k) \in SUBSET above(h) /\ k \in above(h) /\ k \notin above(k)
    BY SMTT(60), <1>1, <1>3
  <2> HIDE DEF above
  <2>2. IsFiniteSet(above(h)) /\ Cardinality(above(h)) \in Nat /\ Cardinality(above(k)) \in Nat
    BY <1>2
  <2>3. above(k) \subseteq above(h) \ {k}
    BY <2>1
  <2>4. Cardinality(above(k)) < Cardinality(above(h))
    BY <2>1, <2>2, <2>3, LargerPart
  <2> QED BY <2>4
<1>4. up \in [S -> Nat]
  BY <1>2
<1> SUFFICES ASSUME \A h \in S : \E k \in S : height[k] > height[h] PROVE FALSE
  BY SMTT(60), <1>1
<1> HIDE DEF up
<1> DEFINE Q == {}
<1>5. ASSUME NEW h \in S, \A k \in S : up[k] < up[h] => k \in Q PROVE h \in Q
  BY <1>3, <1>5
<1>6. S \subseteq Q
  <2> HIDE DEF Q
  <2> QED BY SMTT(60), <1>4, <1>5, RankInduction
<1> QED BY <1>6

(* Of a chain whose lower part is cemented, first_unconfirmed is the block  *)
(* whose dependencies are cemented.                                         *)
LEMMA FirstFound ==
  ASSUME General, Closed(committed), Rivalless(committed), cemented \subseteq committed, Closed(cemented),
         NEW h \in committed \ cemented, dependencies(h) \subseteq cemented
  PROVE  /\ h \in uncemented(Block[h].account)
         /\ first_unconfirmed(Block[h].account) = h
<1> DEFINE U == uncemented(Block[h].account)
<1>1. h \in U /\ U \subseteq committed \ cemented /\ h \in Hash /\ U \subseteq Hash
  BY DEF uncemented, Closed
<1>2. \A k \in U : Block[k].account = Block[h].account
  BY DEF uncemented
<1>3. \A k \in Hash : height[k] \in Nat
  BY HeightUnfolds
<1> HIDE DEF U
<1>4. ASSUME NEW k \in U, height[k] < height[h] PROVE FALSE
  <2> DEFINE p == Block[h].previous
  <2>1. height[k] >= 1
    <3>1. Block[k].previous # Zero => Block[k].previous \in Hash
      BY <1>1, DependenciesOlder
    <3> QED BY SMTT(60), <1>1, <3>1, HeightUnfolds
  <2>2. p # Zero
    BY SMTT(60), <1>1, <1>3, <1>4, <2>1, HeightUnfolds
  <2>3. p \in cemented /\ p \in Hash /\ Block[p].account = Block[h].account
    BY <1>1, <2>2, DependenciesOlder DEF Closed, foreign
  <2>4. height[k] <= height[p]
    BY SMTT(60), <1>1, <1>3, <1>4, <2>2, <2>3, HeightUnfolds
  <2>5. cemented \in SUBSET committed /\ k \in committed /\ Block[k].account = Block[p].account
    BY <1>1, <1>2, <2>3
  <2>6. k \in cemented
    BY SMTT(60), <2>3, <2>4, <2>5, LowerInside
  <2> QED BY <1>1, <2>6
<1>5. \A k \in U : height[h] <= height[k]
  BY SMTT(60), <1>1, <1>3, <1>4
<1>6. ASSUME NEW k \in U, \A j \in U : height[k] <= height[j] PROVE k = h
  <2>1. height[k] = height[h] /\ height[k] <= height[h]
    BY SMTT(60), <1>1, <1>3, <1>5, <1>6
  <2>2. committed \in SUBSET committed /\ k \in committed /\ h \in committed
    BY <1>1
  <2> QED BY <1>2, <2>1, <2>2, LowerInside
<1>7. first_unconfirmed(Block[h].account) = CHOOSE k \in U : \A j \in U : height[k] <= height[j]
  BY DEF first_unconfirmed, U
<1>8. first_unconfirmed(Block[h].account) = h
  BY <1>1, <1>5, <1>6, <1>7
<1> QED BY <1>1, <1>8 DEF U

(* What the request loop and the callbacks take from a chain is there.      *)
LEMMA ChosenThere ==
  ASSUME General, committed \subseteq Hash, NEW a, uncemented(a) # {}
  PROVE  head(a) \in uncemented(a) /\ first_unconfirmed(a) \in uncemented(a)
<1>1. uncemented(a) \in SUBSET Hash
  BY DEF uncemented
<1>2. \E h \in uncemented(a) : \A k \in uncemented(a) : height[k] <= height[h]
  BY <1>1, HighestExists
<1>3. \E h \in uncemented(a) : \A k \in uncemented(a) : height[h] <= height[k]
  BY <1>1, LowestExists
<1> QED BY <1>2, <1>3 DEF head, first_unconfirmed

-----------------------------------------------------------------------------
(* The elements of a sequence.                                              *)
Among(x, q) == \E i \in 1 .. Len(q) : q[i] = x

(* listed lists a finite set.                                               *)
LEMMA Listed ==
  ASSUME General, NEW S, IsFiniteSet(S)
  PROVE  listed(S) \in Seq(S) /\ \A x \in S : Among(x, listed(S))
<1> DEFINE n == Cardinality(S)
           q == listed(S)
<1>1. n \in Nat /\ \E f : f \in Bijection(1 .. n, S)
  BY FiniteCounted
<1>2. q \in Bijection(1 .. n, S)
  BY <1>1 DEF listed
<1> HIDE DEF q
<1>3. q \in [1 .. n -> S] /\ \A x \in S : \E i \in 1 .. n : q[i] = x
  BY <1>2 DEF Bijection, Surjection
<1>4. q \in Seq(S) /\ Len(q) = n
  BY SMTT(60), <1>1, <1>3
<1> QED BY <1>3, <1>4 DEF q, Among

(* block_cemented_callback looks at the account of the block and at that of *)
(* every block that receives from it.                                       *)
LEMMA AccountsListed ==
  ASSUME General, NEW h \in Hash
  PROVE  /\ activations(h) \in Seq(Account) /\ activations(h) # << >>
         /\ \A k \in Hash : h \in dependencies(k) /\ ~foreign(k) =>
              Among(Block[k].account, activations(h))
<1> DEFINE R == {b \in Hash : Block[b].source = h}
           f == [b \in Hash |-> Block[b].account]
           A == {Block[k].account : k \in R}
           q == listed(A)
<1>1. \A b \in Hash : Block[b].account \in Account
  BY BlocksAssumption
<1>2. IsFiniteSet(R)
  BY RankAssumption, FiniteParts
<1>3. A = {f[k] : k \in R}
  OBVIOUS
<1>4. IsFiniteSet(A)
  <2> HIDE DEF R, f, A
  <2> QED BY SMTT(60), <1>2, <1>3 DEF General, CountLaws
<1>0. A \subseteq Account /\ \A k \in Hash : Block[k].source = h => Block[k].account \in A
  BY <1>1
<1>7. activations(h) = <<Block[h].account>> \o q
  BY DEF activations
<1> HIDE DEF A
<1>5. q \in Seq(A) /\ \A x \in A : Among(x, q)
  BY <1>4, Listed
<1> HIDE DEF q
<1>6. q \in Seq(Account)
  BY SMTT(60), <1>0, <1>5
<1>8. activations(h) \in Seq(Account) /\ activations(h) # << >>
  BY SMTT(60), <1>1, <1>6, <1>7
<1>9. activations(h)[1] = Block[h].account /\ Len(activations(h)) = Len(q) + 1 /\ Len(q) \in Nat
  BY SMTT(60), <1>6, <1>7
<1>10. \A i \in 1 .. Len(q) : activations(h)[i + 1] = q[i]
  BY SMTT(60), <1>6, <1>7
<1>11. ASSUME NEW k \in Hash, h \in dependencies(k), ~foreign(k)
       PROVE  Among(Block[k].account, activations(h))
  <2>1. CASE Block[k].previous = h
    <3>1. Block[k].account = Block[h].account
      BY <1>11, <2>1, BlocksAssumption DEF foreign
    <3> QED BY SMTT(60), <1>9, <3>1 DEF Among
  <2>2. CASE Block[k].source = h
    <3>1. Block[k].account \in A
      BY <1>0, <2>2
    <3>2. PICK i \in 1 .. Len(q) : q[i] = Block[k].account
      BY <1>5, <3>1 DEF Among
    <3>3. i + 1 \in 1 .. Len(activations(h)) /\ activations(h)[i + 1] = Block[k].account
      BY SMTT(60), <1>9, <1>10, <3>2
    <3> QED BY <3>3 DEF Among
  <2> QED BY <1>11, <2>1, <2>2 DEF dependencies
<1> QED BY <1>8, <1>11

-----------------------------------------------------------------------------
(* The inductive invariant, in five parts.                                  *)
Election ==
  [winner : Hash, first : Hash, blocks : SUBSET Hash, state : {"idle", "ongoing", "confirmed"},
   by : Thread \cup {"none"}, votes : [Rep -> [sequence : Nat, hash : Hash \cup {Zero}]]]

Duty ==
  [step : {"none", "insert", "transition", "publish", "check"}, hash : Hash \cup {Zero},
   publish : Hash \cup {Zero}]

Callback ==
  [step : {"none", "confirm", "settle", "activate"}, hash : Hash \cup {Zero},
   accounts : Seq(Account)]

(* The queues and tables hold blocks; an election is about blocks of one    *)
(* root, of which its winner is one.                                        *)
ElectionsTypeOK ==
  /\ blocks \in Seq(Hash) /\ forced \in Seq(Hash) /\ post_events \in Seq(Hash)
  /\ roots \in [DOMAIN roots -> Election]
  /\ \A r \in DOMAIN roots : /\ roots[r].winner \in roots[r].blocks
                             /\ \A h \in roots[r].blocks : root(h) = r
  /\ duty \in [Thread -> Duty]
  /\ \A t \in Thread : /\ duty[t].step \in {"insert", "transition", "check"} => duty[t].hash # Zero
                       /\ duty[t].step = "publish" => duty[t].publish # Zero
  /\ activating \in Callback
  /\ activating.step = "activate" => activating.accounts # << >>
  /\ announced \in [Hash -> {0, 1}] /\ reported \in [Hash -> Nat]

(* The ledger is closed and without forks, as the writer and as readers see *)
(* it, and what is cemented stays under both; they differ only while a      *)
(* batch is open.                                                           *)
LedgerSound ==
  /\ Closed(stored) /\ Closed(committed) /\ Closed(cemented)
  /\ Rivalless(stored) /\ Rivalless(committed)
  /\ cemented \subseteq stored \cap committed /\ Genesis \in cemented
  /\ batch \in {"idle", "open", "post"}
  /\ batch # "open" => stored = committed
  /\ batch = "idle" => post_events = << >>

(* Who answers for a winner.  A winner outlives its waiting only while its  *)
(* callback settles it; a confirmed election has its winner on record until *)
(* that was announced; and one that waits or is retried is on record, or    *)
(* was announced before.                                                    *)
settled(h) == h = Genesis \/ announced[h] > 0
WinnersRight ==
  /\ \A h \in election_winner_details :
       h \in waiting \cup retrying \/ (activating.step = "settle" /\ activating.hash = h)
  /\ \A r \in DOMAIN roots : roots[r].state = "confirmed" =>
       \/ roots[r].winner \in election_winner_details
       \/ /\ settled(roots[r].winner)
          /\ ~(activating.step = "confirm" /\ activating.hash = roots[r].winner)
  /\ waiting \cup retrying \cup election_winner_details \subseteq Hash
  /\ \A h \in waiting \cup retrying : h \in election_winner_details \/ settled(h)
  /\ \A h \in waiting \cap retrying : settled(h)
  /\ activating.step = "settle" => activating.hash \in election_winner_details

(* What was reported was announced, and what was announced is cemented; a   *)
(* report is outstanding only for the block of the callback under way.      *)
ReportsRight ==
  /\ \A h \in Hash : announced[h] > 0 => h \in cemented
  /\ \A h \in Hash : reported[h] <= announced[h]
  /\ activating.step \in {"confirm", "settle"} =>
       /\ activating.hash \in Hash \ {Genesis}
       /\ announced[activating.hash] = 1 /\ reported[activating.hash] = 0
  /\ \A h \in Hash \ passed_over : reported[h] < announced[h] =>
       activating.step \in {"confirm", "settle"} /\ activating.hash = h

(* A live block was proposed for election, or somebody will see to it: its  *)
(* event is queued, a thread is about to insert it, a block it depends on   *)
(* is not reported, or the callback of one is about to look at its account. *)
seen_to(h) ==
  \/ h \in elected
  \/ Among(h, post_events)
  \/ \E t \in {"processor", "observer"} : duty[t].step = "insert" /\ duty[t].hash = h
  \/ \E d \in dependencies(h) : d # Genesis /\ reported[d] = 0
  \/ activating.step = "activate" /\ Among(Block[h].account, activating.accounts)
NothingMissed ==
  /\ \A h \in (stored \ cemented) \cap Live : seen_to(h)
  /\ \A h \in (stored \ committed) \cap Live : Among(h, post_events)

ElectionsInv ==
  ElectionsTypeOK /\ LedgerSound /\ WinnersRight /\ ReportsRight /\ NothingMissed

-----------------------------------------------------------------------------
(* The block processor.                                                     *)

(* What rests on a block leaves a closed set that is closed still, and      *)
(* rollback takes no cemented block.                                        *)
LEMMA RolledBack ==
  ASSUME General, LedgerSound
  PROVE  rolled_back \subseteq stored \ cemented /\ Closed(stored \ rolled_back)
<1> DEFINE x == successor(taken, stored)
<1>1. CASE rolled_back = {}
  BY <1>1 DEF LedgerSound
<1>2. CASE rolled_back # {}
  <2>1. x \notin cemented /\ rolled_back = {s \in stored : x \in below[s]}
    BY <1>2 DEF rolled_back, rollback_list
  <2>2. \A s \in cemented : below[s] \subseteq cemented
    BY ClosedBelow DEF LedgerSound
  <2>3. ASSUME NEW s \in stored, NEW d \in dependencies(s) PROVE below[d] \subseteq below[s]
    BY SMTT(60), <2>3, BelowUnfolds DEF LedgerSound, Closed
  <2> HIDE DEF x
  <2> QED BY <2>1, <2>2, <2>3 DEF LedgerSound, Closed
<1> QED BY <1>1, <1>2

(* The next block of the batch, and what its processing finds.              *)
LEMMA Processed ==
  ASSUME ElectionsTypeOK, process_one
  PROVE  /\ taken \in Hash /\ batch = "open"
         /\ stored' = (stored \ rolled_back) \cup (IF outcome = "progress" THEN {taken} ELSE {})
         /\ outcome = "progress" =>
              /\ dependencies(taken) \subseteq stored \ rolled_back
              /\ \A s \in stored \ rolled_back : ~rivals(taken, s)
              /\ ~foreign(taken)
         /\ successor(taken, stored \ rolled_back) \in stored \cup {Zero}
<1>1. taken \in Hash
  BY SMTT(60) DEF ElectionsTypeOK, process_one, taken
<1>2. batch = "open"
      /\ stored' = (stored \ rolled_back) \cup (IF outcome = "progress" THEN {taken} ELSE {})
  BY DEF process_one
<1> DEFINE L == stored \ rolled_back
<1>3. outcome = result(taken, L)
  BY DEF outcome
<1>4. ASSUME outcome = "progress"
      PROVE  /\ dependencies(taken) \subseteq L /\ ~foreign(taken)
             /\ \A s \in L : ~rivals(taken, s)
  BY <1>3, <1>4 DEF result, dependencies
<1>5. successor(taken, L) \in L \cup {Zero}
  BY DEF successor
<1> QED BY <1>1, <1>2, <1>4, <1>5

(* Processing a block keeps the ledger closed and without forks.            *)
LEMMA ProcessSound ==
  ASSUME General, ElectionsTypeOK, LedgerSound, process_one
  PROVE  LedgerSound'
<1>1. Closed(stored \ rolled_back) /\ rolled_back \subseteq stored \ cemented
  BY RolledBack
<1>2. batch' = "open" /\ committed' = committed /\ cemented' = cemented
  BY DEF process_one
<1>3. Closed(stored') /\ cemented \subseteq stored'
  BY <1>1, Processed DEF Closed, LedgerSound
<1>4. Rivalless(stored')
  BY Processed DEF Rivalless, LedgerSound, rivals
<1> QED BY <1>2, <1>3, <1>4 DEF LedgerSound, Closed, Rivalless

(* The blocks, queues and events that follow a processed block.             *)
LEMMA QueueKept ==
  ASSUME General, ElectionsTypeOK, process_one
  PROVE  /\ blocks' \in Seq(Hash) /\ forced' \in Seq(Hash) /\ post_events' \in Seq(Hash)
         /\ \A h \in Hash : Among(h, post_events) => Among(h, post_events')
         /\ outcome = "progress" /\ taken \in Live => Among(taken, post_events')
<1> DEFINE W == {w \in Hash : <<taken, w>> \in unchecked}
           q == listed(W)
           left == IF forced # << >> THEN blocks ELSE Tail(blocks)
           fleft == IF forced # << >> THEN Tail(forced) ELSE forced
<1>1. taken \in Hash
  BY Processed
<1>2. W \in SUBSET Hash
  OBVIOUS
<1>3. q \in Seq(Hash)
  <2> HIDE DEF W
  <2>1. IsFiniteSet(W)
    BY <1>2, RankAssumption, FiniteParts
  <2>2. q \in Seq(W)
    BY <2>1, Listed
  <2> HIDE DEF q
  <2> QED BY SMTT(60), <1>2, <2>2
<1>4. left \in Seq(Hash) /\ fleft \in Seq(Hash)
  BY SMTT(60) DEF ElectionsTypeOK, process_one
<1>5. waiting_for(taken) = q
  BY DEF waiting_for
<1> HIDE DEF q
<1>6. reversed(q) \in Seq(Hash)
  BY SMTT(60), <1>3 DEF reversed
<1>7. queue_unchecked(taken, left, Len(fleft)) \in Seq(Hash)
  BY SMTT(60), <1>3, <1>4, <1>5, <1>6 DEF queue_unchecked
<1>8. blocks' \in Seq(Hash) /\ forced' \in Seq(Hash)
  BY <1>4, <1>7 DEF process_one
<1>9. post_events' = IF outcome = "progress" /\ taken \in Live
                     THEN Append(post_events, taken) ELSE post_events
  BY DEF process_one
<1>10. post_events \in Seq(Hash)
  BY DEF ElectionsTypeOK
<1>11. CASE outcome = "progress" /\ taken \in Live
  <2>1. /\ post_events' \in Seq(Hash) /\ Len(post_events') = Len(post_events) + 1
        /\ \A i \in 1 .. Len(post_events) : post_events'[i] = post_events[i]
        /\ post_events'[Len(post_events) + 1] = taken
    BY SMTT(60), <1>1, <1>9, <1>10, <1>11
  <2>2. ASSUME NEW h, NEW i \in 1 .. Len(post_events), post_events[i] = h
        PROVE  Among(h, post_events')
    <3>1. i \in 1 .. Len(post_events') /\ post_events'[i] = h
      BY SMTT(60), <1>10, <2>1, <2>2
    <3> QED BY <3>1 DEF Among
  <2>3. Len(post_events) + 1 \in 1 .. Len(post_events')
    BY SMTT(60), <1>10, <2>1
  <2>4. Among(taken, post_events')
    BY <2>1, <2>3 DEF Among
  <2>5. \A h \in Hash : Among(h, post_events) => Among(h, post_events')
    BY <2>2 DEF Among
  <2> QED BY <1>8, <2>1, <2>4, <2>5
<1>12. CASE ~(outcome = "progress" /\ taken \in Live)
  BY <1>8, <1>9, <1>10, <1>12 DEF Among
<1> QED BY <1>11, <1>12

(* The steps that leave the ledger and the events of its batches alone.     *)
Elsewhere ==
  \/ \E p \in Rep, v \in [sequence : 1 .. MaxSequence, hash : Hash \ {Genesis}], c \in BOOLEAN :
       vote(p, v, c)
  \/ \E h \in Hash \ {Genesis} : \/ arrive(h) \/ alarm(h)
                                \/ block_already_cemented_callback(h) \/ notify_observers(h)
  \/ \E t \in Thread : insert(t) \/ transition(t) \/ publish(t)
  \/ \E r \in DOMAIN roots : request_confirm(r) \/ activate_dependencies(r)
  \/ \E a \in Account : confirm_prioritized_frontiers(a)
  \/ check_processing \/ release_assert \/ confirm_block \/ settle \/ activate
  \/ UNCHANGED vars

(* The other steps are those of the block processor and of cement.          *)
LEMMA StepKinds ==
  ASSUME [Next]_vars
  PROVE  \/ process_block \/ live_block
         \/ /\ process_batch \/ commit \/ end_batch
            /\ UNCHANGED <<active_vars, winner_vars, duty, activating, cementer_vars, history_vars>>
         \/ \E S \in SUBSET (committed \ cemented) : cement(S)
         \/ Elsewhere
<1>1. ASSUME NEW p \in Rep, NEW s \in 1 .. MaxSequence, NEW c \in BOOLEAN,
             NEW h \in Candidates[p], vote(p, [sequence |-> s, hash |-> h], c)
      PROVE  Elsewhere
  <2> DEFINE v == [sequence |-> s, hash |-> h]
  <2>1. h \in Hash \ {Genesis}
    BY ElectionsAssumption
  <2>2. v \in [sequence : 1 .. MaxSequence, hash : Hash \ {Genesis}] /\ vote(p, v, c)
    BY <1>1, <2>1
  <2> QED BY <2>2 DEF Elsewhere
<1>2. CASE Threads
  BY <1>2 DEF Threads, process_blocks, Elsewhere
<1> QED BY <1>1, <1>2 DEF Next, Elsewhere

(* They do leave them alone.                                                *)
LEMMA LedgerUntouched ==
  ASSUME Elsewhere
  PROVE  UNCHANGED <<stored, committed, cemented, batch, post_events, unchecked>>
<1> USE DEF processor_vars, ledger_vars, queue_vars
<1>1. ASSUME NEW p, NEW v, NEW c, vote(p, v, c)
      PROVE  UNCHANGED <<stored, committed, cemented, batch, post_events, unchecked>>
  BY <1>1 DEF vote
<1>2. ASSUME NEW h, \/ arrive(h) \/ alarm(h) \/ block_already_cemented_callback(h)
                    \/ notify_observers(h)
      PROVE  UNCHANGED <<stored, committed, cemented, batch, post_events, unchecked>>
  <2>1. CASE arrive(h)
    BY <2>1 DEF arrive, add
  <2>2. CASE alarm(h)
    BY <2>2 DEF alarm
  <2>3. CASE block_already_cemented_callback(h)
    BY <2>3 DEF block_already_cemented_callback, Processor!AlreadyCemented, Processor!lattice_vars
  <2>4. CASE notify_observers(h)
    BY <2>4 DEF notify_observers, Processor!Announce, Processor!lattice_vars
  <2> QED BY <1>2, <2>1, <2>2, <2>3, <2>4
<1>3. ASSUME NEW t, insert(t) \/ transition(t) \/ publish(t)
      PROVE  UNCHANGED <<stored, committed, cemented, batch, post_events, unchecked>>
  <2>1. CASE insert(t)
    BY <2>1 DEF insert
  <2>2. CASE transition(t)
    BY <2>2 DEF transition
  <2>3. CASE publish(t)
    BY <2>3 DEF publish
  <2> QED BY <1>3, <2>1, <2>2, <2>3
<1>4. ASSUME NEW r, request_confirm(r) \/ activate_dependencies(r)
      PROVE  UNCHANGED <<stored, committed, cemented, batch, post_events, unchecked>>
  BY <1>4 DEF request_confirm, activate_dependencies
<1>5. ASSUME NEW a, confirm_prioritized_frontiers(a)
      PROVE  UNCHANGED <<stored, committed, cemented, batch, post_events, unchecked>>
  BY <1>5 DEF confirm_prioritized_frontiers
<1>6. CASE check_processing \/ release_assert
  BY <1>6 DEF check_processing, release_assert
<1>7. CASE confirm_block
  BY <1>7 DEF confirm_block
<1>8. CASE settle \/ activate
  BY <1>8 DEF settle, activate
<1>9. CASE UNCHANGED vars
  BY <1>9 DEF vars
<1> QED BY <1>1, <1>2, <1>3, <1>4, <1>5, <1>6, <1>7, <1>8, <1>9 DEF Elsewhere

(* Every step keeps the ledger sound.                                       *)
LEMMA SoundKept ==
  ASSUME General, ElectionsTypeOK, LedgerSound, [Next]_vars
  PROVE  LedgerSound'
<1>1. CASE process_block
  BY <1>1, ProcessSound DEF process_block
<1>2. CASE live_block
  BY <1>2 DEF live_block, process_live, LedgerSound, ledger_vars, Closed, Rivalless
<1>3. CASE process_batch \/ commit \/ end_batch
  BY <1>3 DEF process_batch, commit, end_batch, LedgerSound, ledger_vars, Closed, Rivalless
<1>4. ASSUME NEW S \in SUBSET (committed \ cemented), cement(S) PROVE LedgerSound'
  <2>1. /\ batch = "idle" /\ cemented' = cemented \cup S
        /\ \A h \in S : requires[h] \subseteq cemented \cup S
        /\ UNCHANGED <<stored, committed, batch, post_events>>
    BY <1>4 DEF cement, Processor!CementRequested, Processor!Cement, queue_vars
  <2>2. \A h \in S : dependencies(h) \subseteq cemented \cup S
    <3>1. S \subseteq Hash
      BY DEF LedgerSound, Closed
    <3>2. \A h \in S : requires[h] = dependencies(h)
      BY <3>1 DEF requires
    <3> QED BY <2>1, <3>2
  <2>3. Closed(cemented')
    BY <2>1, <2>2 DEF LedgerSound, Closed
  <2> QED BY <2>1, <2>3 DEF LedgerSound, Closed, Rivalless
<1>5. CASE UNCHANGED <<stored, committed, cemented, batch, post_events, unchecked>>
  BY <1>5 DEF LedgerSound, Closed, Rivalless
<1> QED BY <1>1, <1>2, <1>3, <1>4, <1>5, LedgerUntouched, StepKinds

(* The ledger starts sound.                                                 *)
LEMMA SoundInit == Init => LedgerSound
  BY BlocksAssumption
     DEF Init, BlockProcessorInit, LedgerSound, Closed, Rivalless, rivals, foreign, dependencies

-----------------------------------------------------------------------------
(* Elections.                                                               *)

(* A winner goes on record and to the confirmation height processor, now or *)
(* when its block is in the ledger; or nothing is told of a winner.         *)
Recorded(w) ==
  /\ w \notin election_winner_details
  /\ election_winner_details' = election_winner_details \cup {w}
  /\ \/ waiting' = waiting \cup {w} /\ retrying' = retrying
     \/ retrying' = retrying \cup {w} /\ waiting' = waiting
  /\ announced' = announced
Untold == UNCHANGED <<election_winner_details, waiting, retrying, announced>>

(* The election e of root r becomes f.                                      *)
Elects(r, e, f) ==
  /\ roots' = with_election(r, f)
  /\ f \in Election /\ f.winner \in f.blocks /\ f.blocks = e.blocks
  /\ e.state = "confirmed" => f.state = "confirmed" /\ f.winner = e.winner
  /\ \/ (f.state = "confirmed" => e.state = "confirmed") /\ Untold
     \/ f.state = "confirmed" /\ f.winner \in election_winner_details /\ Untold
     \/ f.state = "confirmed" /\ Recorded(f.winner)

(* No other election changes.                                               *)
LEMMA ElectsOne ==
  ASSUME NEW r, NEW e, NEW f, Elects(r, e, f)
  PROVE  /\ DOMAIN roots' = DOMAIN roots \cup {r} /\ roots'[r] = f
         /\ \A q \in DOMAIN roots \ {r} : roots'[q] = roots[q]
<1>1. roots' = with_election(r, f)
  BY DEF Elects
<1> QED BY <1>1 DEF with_election

(* confirm_once confirms the election with its winner.                      *)
LEMMA ConfirmOnce ==
  ASSUME NEW r, NEW e \in Election, e.winner \in e.blocks, confirm_once(r, e)
  PROVE  \E f : Elects(r, e, f) /\ f.state = "confirmed" /\ f.winner = e.winner
<1> DEFINE f == [e EXCEPT !.state = "confirmed", !.votes = NoVotes]
<1>1. NoVotes \in [Rep -> [sequence : Nat, hash : Hash \cup {Zero}]]
  BY DEF NoVotes, NoVote
<1>2. f \in Election /\ f.state = "confirmed" /\ f.winner = e.winner /\ f.blocks = e.blocks
  <2> DEFINE c == [e EXCEPT !.state = "confirmed"]
  <2>1. c \in Election /\ c.state = "confirmed" /\ c.winner = e.winner /\ c.blocks = e.blocks
    BY DEF Election
  <2>2. f = [c EXCEPT !.votes = NoVotes]
    OBVIOUS
  <2> HIDE DEF c, f
  <2> QED BY <1>1, <2>1, <2>2 DEF Election
<1> HIDE DEF f
<1>3. roots' = with_election(r, f)
  BY DEF confirm_once, f
<1>4. CASE e.state # "confirmed" /\ e.winner \notin election_winner_details
  <2>1. election_winner_details' = election_winner_details \cup {e.winner}
        /\ process_confirmed(e.winner)
    BY <1>4 DEF confirm_once
  <2>2. Recorded(e.winner)
    BY <1>4, <2>1 DEF Recorded, process_confirmed, Processor!Request, cementer_vars
  <2> QED BY <1>2, <1>3, <2>2 DEF Elects
<1>5. CASE ~(e.state # "confirmed" /\ e.winner \notin election_winner_details)
  <2>1. Untold
    BY <1>5 DEF confirm_once, Untold, winner_vars, cementer_vars
  <2> QED BY <1>2, <1>3, <1>5, <2>1 DEF Elects
<1> QED BY <1>4, <1>5

(* confirm_if_quorum leaves the election with one of its blocks as winner.  *)
LEMMA ConfirmIfQuorum ==
  ASSUME NEW r, NEW e \in Election, e.winner \in e.blocks, e.state # "confirmed",
         forced \in Seq(Hash), confirm_if_quorum(r, e)
  PROVE  forced' \in Seq(Hash) /\ \E f : Elects(r, e, f)
<1>1. PICK kept, top : /\ kept \in tallies(e) /\ top \in kept
                       /\ LET sum == SumFunction([h \in kept |-> votes_for(e, h)])
                              changes == sum >= online_weight_minimum /\ top # e.winner
                              updated == IF changes THEN [e EXCEPT !.winner = top] ELSE e
                          IN /\ forced' = IF changes THEN Append(forced, top) ELSE forced
                             /\ IF have_quorum(e, kept, top, sum)
                                THEN confirm_once(r, updated)
                                ELSE /\ roots' = with_election(r, updated)
                                     /\ UNCHANGED <<recently_confirmed, winner_vars, cementer_vars>>
  BY DEF confirm_if_quorum
<1>2. top \in e.blocks /\ top \in Hash
  BY <1>1 DEF tallies, Election
<1> DEFINE sum == SumFunction([h \in kept |-> votes_for(e, h)])
           changes == sum >= online_weight_minimum /\ top # e.winner
           updated == IF changes THEN [e EXCEPT !.winner = top] ELSE e
           quorum == have_quorum(e, kept, top, sum)
<1>3. /\ forced' = IF changes THEN Append(forced, top) ELSE forced
      /\ quorum => confirm_once(r, updated)
      /\ ~quorum => /\ roots' = with_election(r, updated)
                    /\ UNCHANGED <<recently_confirmed, winner_vars, cementer_vars>>
  BY <1>1
<1> HIDE DEF quorum, sum
<1>4. forced' \in Seq(Hash)
  BY SMTT(60), <1>2, <1>3
<1>5. /\ updated \in Election /\ updated.state = e.state /\ updated.blocks = e.blocks
      /\ updated.winner \in updated.blocks
  BY <1>2 DEF Election
<1> HIDE DEF changes, updated
<1>6. CASE quorum
  <2>1. PICK f : Elects(r, updated, f)
    BY <1>3, <1>5, <1>6, ConfirmOnce
  <2>2. Elects(r, e, f)
    BY <1>5, <2>1 DEF Elects
  <2> QED BY <1>4, <2>2
<1>7. CASE ~quorum
  <2>1. Elects(r, e, updated)
    BY <1>3, <1>5, <1>7 DEF Elects, Untold, winner_vars, cementer_vars
  <2> QED BY <1>4, <2>1
<1> QED BY <1>6, <1>7

(* e is the election of root r, as it is or about to be changed.            *)
Stands(r, e) ==
  /\ e \in Election /\ e.winner \in e.blocks /\ \A h \in e.blocks : root(h) = r
  /\ IF active(r) /\ roots[r].state = "confirmed"
     THEN e.state = "confirmed" /\ e.winner = roots[r].winner ELSE e.state # "confirmed"

(* The elections stay what they are about.                                  *)
RootsRight ==
  /\ roots \in [DOMAIN roots -> Election]
  /\ \A r \in DOMAIN roots : /\ roots[r].winner \in roots[r].blocks
                             /\ \A h \in roots[r].blocks : root(h) = r

(* A change leaves them so.                                                 *)
LEMMA ElectsRight ==
  ASSUME RootsRight, NEW r, NEW e, NEW f, Elects(r, e, f), Stands(r, e)
  PROVE  RootsRight'
<1>1. /\ DOMAIN roots' = DOMAIN roots \cup {r} /\ roots'[r] = f
      /\ \A q \in DOMAIN roots \ {r} : roots'[q] = roots[q]
  BY ElectsOne
<1>2. roots' = [q \in DOMAIN roots' |-> roots'[q]]
  BY DEF Elects, with_election
<1>3. \A q \in DOMAIN roots' : /\ roots'[q] \in Election /\ roots'[q].winner \in roots'[q].blocks
                              /\ \A h \in roots'[q].blocks : root(h) = q
  <2>1. f \in Election /\ f.winner \in f.blocks /\ \A h \in f.blocks : root(h) = r
    BY DEF Elects, Stands
  <2> QED BY <1>1, <2>1 DEF RootsRight
<1> QED BY <1>2, <1>3 DEF RootsRight

(* They keep answering for winners.                                         *)
LEMMA ElectsWinners ==
  ASSUME WinnersRight, NEW r, NEW e, NEW f, Elects(r, e, f), Stands(r, e),
         activating' = activating
  PROVE  WinnersRight'
<1>1. /\ DOMAIN roots' = DOMAIN roots \cup {r} /\ roots'[r] = f
      /\ \A q \in DOMAIN roots \ {r} : roots'[q] = roots[q]
  BY ElectsOne
<1>2. f.winner \in Hash
  BY DEF Elects, Election
<1>3. announced' = announced
  BY DEF Elects, Untold, Recorded
<1>4. CASE Untold
  <2>1. f.state = "confirmed" => \/ f.winner \in election_winner_details
                                 \/ roots[r].state = "confirmed" /\ roots[r].winner = f.winner
                                    /\ r \in DOMAIN roots
    BY <1>4 DEF Elects, Recorded, Untold, Stands, active
  <2> QED BY <1>1, <1>3, <1>4, <2>1 DEF WinnersRight, Untold, settled
<1>5. CASE Recorded(f.winner)
  BY <1>1, <1>2, <1>3, <1>5 DEF WinnersRight, Recorded, settled
<1> QED BY <1>4, <1>5 DEF Elects

(* An election changes, or none does.                                       *)
Changes == \E r, e, f : Stands(r, e) /\ Elects(r, e, f)
Keeps == roots' = roots /\ Untold

(* The votes of the cache join an election.                                 *)
LEMMA CachedVotes ==
  ASSUME NEW e \in Election, NEW h \in Hash
  PROVE  LET f == with_cached_votes(e, h)
         IN f \in Election /\ f.winner = e.winner /\ f.blocks = e.blocks /\ f.state = e.state
<1> DEFINE w == [p \in Rep |-> IF e.votes[p].hash = Zero /\ p \in inactive_votes_cache[h]
                               THEN [sequence |-> 0, hash |-> h] ELSE e.votes[p]]
<1>1. w \in [Rep -> [sequence : Nat, hash : Hash \cup {Zero}]]
  BY DEF Election
<1>2. with_cached_votes(e, h) = [e EXCEPT !.votes = w]
  BY DEF with_cached_votes
<1> HIDE DEF w
<1> QED BY <1>1, <1>2 DEF Election

(* A vote changes the election it is for, or none.                          *)
LEMMA VoteElects ==
  ASSUME ElectionsTypeOK, NEW p \in Rep, NEW c,
         NEW v \in [sequence : 1 .. MaxSequence, hash : Hash \ {Genesis}], vote(p, v, c)
  PROVE  forced' \in Seq(Hash) /\ (Changes \/ Keeps)
<1> DEFINE r == root(v.hash)
           found == IF c THEN active(r) ELSE has_election(v.hash)
           e == [roots[r] EXCEPT !.votes[p] = v]
<1>1. CASE found /\ roots[r].state # "confirmed" /\ confirm_if_quorum(r, e)
  <2>1. active(r) /\ r \in DOMAIN roots
    BY <1>1 DEF has_election, active
  <2>2. roots[r] \in Election /\ roots[r].winner \in roots[r].blocks
        /\ \A h \in roots[r].blocks : root(h) = r
    BY <2>1 DEF ElectionsTypeOK
  <2>3. v \in [sequence : Nat, hash : Hash \cup {Zero}]
    BY SMTT(60), ElectionsAssumption
  <2>4. [roots[r].votes EXCEPT ![p] = v] \in [Rep -> [sequence : Nat, hash : Hash \cup {Zero}]]
    BY <2>2, <2>3 DEF Election
  <2>5. e = [roots[r] EXCEPT !.votes = [roots[r].votes EXCEPT ![p] = v]]
    BY <2>2 DEF Election
  <2> HIDE DEF e
  <2>6. /\ e \in Election /\ e.winner = roots[r].winner /\ e.blocks = roots[r].blocks
        /\ e.state = roots[r].state
    BY <2>2, <2>4, <2>5 DEF Election
  <2>7. Stands(r, e)
    BY <1>1, <2>2, <2>6 DEF Stands
  <2> HIDE DEF r
  <2>8. forced' \in Seq(Hash) /\ \E f : Elects(r, e, f)
    BY <1>1, <2>2, <2>6, ConfirmIfQuorum DEF ElectionsTypeOK
  <2> QED BY <2>7, <2>8 DEF Changes
<1>2. CASE UNCHANGED <<forced, roots, recently_confirmed, winner_vars, cementer_vars>>
  BY <1>2 DEF Keeps, Untold, winner_vars, cementer_vars, ElectionsTypeOK
<1> QED BY <1>1, <1>2 DEF vote

(* insert adds an election, or none.                                        *)
LEMMA InsertElects ==
  ASSUME ElectionsTypeOK, NEW t \in Thread, insert(t)
  PROVE  forced' \in Seq(Hash) /\ (Changes \/ Keeps)
<1> DEFINE h == duty[t].hash
           r == root(h)
           n == [winner |-> h, first |-> h, blocks |-> {h}, state |-> "idle", by |-> t,
                 votes |-> NoVotes]
           e == with_cached_votes(n, h)
<1>1. h \in Hash
  BY DEF insert, ElectionsTypeOK, Duty
<1>2. n \in Election
  BY <1>1 DEF Election, NoVotes, NoVote
<1>3. e \in Election /\ e.winner = h /\ e.blocks = {h} /\ e.state = "idle"
  <2>1. n.winner = h /\ n.blocks = {h} /\ n.state = "idle"
    OBVIOUS
  <2> HIDE DEF n
  <2> QED BY <1>1, <1>2, <2>1, CachedVotes
<1>4. CASE UNCHANGED <<forced, roots, recently_confirmed, winner_vars, cementer_vars>>
  BY <1>4 DEF Keeps, Untold, winner_vars, cementer_vars, ElectionsTypeOK
<1>5. CASE ~active(r) /\ confirm_if_quorum(r, e)
  <2> HIDE DEF e
  <2>1. Stands(r, e)
    BY <1>3, <1>5 DEF Stands
  <2>2. e.winner \in e.blocks /\ e.state # "confirmed" /\ forced \in Seq(Hash)
    BY <1>3 DEF ElectionsTypeOK
  <2> HIDE DEF r
  <2>3. forced' \in Seq(Hash) /\ \E f : Elects(r, e, f)
    BY <1>3, <1>5, <2>2, ConfirmIfQuorum
  <2> QED BY <2>1, <2>3 DEF Changes
<1>6. CASE /\ ~active(r) /\ roots' = with_election(r, e)
           /\ UNCHANGED <<forced, recently_confirmed, winner_vars, cementer_vars>>
  <2> HIDE DEF e
  <2>1. Stands(r, e)
    BY <1>3, <1>6 DEF Stands
  <2>2. Elects(r, e, e)
    BY <1>3, <1>6 DEF Elects, Untold, winner_vars, cementer_vars
  <2>3. forced' \in Seq(Hash)
    BY <1>6 DEF ElectionsTypeOK
  <2> QED BY <2>1, <2>2, <2>3 DEF Changes
<1> QED BY <1>4, <1>5, <1>6 DEF insert

(* transition changes the election its thread inserted, or none.            *)
LEMMA TransitionElects ==
  ASSUME ElectionsTypeOK, NEW t \in Thread, transition(t)
  PROVE  forced' \in Seq(Hash) /\ (Changes \/ Keeps)
<1> DEFINE r == root(duty[t].hash)
           e == roots[r]
           s == state_change(e)
           f == [s EXCEPT !.by = "none"]
<1>1. forced' \in Seq(Hash) /\ Untold
  BY DEF transition, Untold, winner_vars, cementer_vars, ElectionsTypeOK
<1>2. CASE active(r) /\ e.by = t
  <2>1. r \in DOMAIN roots
    BY <1>2 DEF active
  <2>2. e \in Election /\ e.winner \in e.blocks /\ \A k \in e.blocks : root(k) = r
    BY <2>1 DEF ElectionsTypeOK
  <2>3. roots' = with_election(r, f)
    BY <1>2 DEF transition
  <2>4. Stands(r, e)
    BY <1>2, <2>2 DEF Stands
  <2> HIDE DEF e
  <2>5. s \in Election /\ s.winner = e.winner /\ s.blocks = e.blocks
        /\ (s.state = "confirmed" <=> e.state = "confirmed")
    BY <2>2 DEF state_change, Election
  <2> HIDE DEF s
  <2>6. f \in Election /\ f.winner = s.winner /\ f.blocks = s.blocks /\ f.state = s.state
    BY <2>5 DEF Election
  <2> HIDE DEF f
  <2>7. Elects(r, e, f)
    BY <1>1, <2>2, <2>3, <2>5, <2>6 DEF Elects
  <2> QED BY <1>1, <2>4, <2>7 DEF Changes
<1>3. CASE ~(active(r) /\ e.by = t)
  <2>1. roots' = roots
    BY <1>3 DEF transition
  <2> QED BY <1>1, <2>1 DEF Keeps
<1> QED BY <1>2, <1>3

(* publish changes the election of the block's root, or none.               *)
LEMMA PublishElects ==
  ASSUME ElectionsTypeOK, NEW t \in Thread, publish(t)
  PROVE  forced' \in Seq(Hash) /\ (Changes \/ Keeps)
<1> DEFINE h == duty[t].publish
           r == root(h)
           g == [roots[r] EXCEPT !.blocks = @ \cup {h}]
           e == with_cached_votes(g, h)
<1>1. h \in Hash
  BY DEF publish, ElectionsTypeOK, Duty
<1>2. CASE UNCHANGED <<forced, roots, recently_confirmed, winner_vars, cementer_vars>>
  BY <1>2 DEF Keeps, Untold, winner_vars, cementer_vars, ElectionsTypeOK
<1>3. CASE active(r) /\ roots[r].state # "confirmed" /\ confirm_if_quorum(r, e)
  <2>1. r \in DOMAIN roots
    BY <1>3 DEF active
  <2>2. roots[r] \in Election /\ roots[r].winner \in roots[r].blocks
        /\ \A k \in roots[r].blocks : root(k) = r
    BY <2>1 DEF ElectionsTypeOK
  <2>3. /\ g \in Election /\ g.winner = roots[r].winner /\ g.blocks = roots[r].blocks \cup {h}
        /\ g.state = roots[r].state
    BY <1>1, <2>2 DEF Election
  <2> HIDE DEF g
  <2>4. e \in Election /\ e.winner = g.winner /\ e.blocks = g.blocks /\ e.state = g.state
    BY <1>1, <2>3, CachedVotes
  <2> HIDE DEF e
  <2>5. Stands(r, e)
    BY <1>3, <2>2, <2>3, <2>4 DEF Stands
  <2> HIDE DEF r
  <2>6. forced' \in Seq(Hash) /\ \E f : Elects(r, e, f)
    BY <1>3, <2>2, <2>3, <2>4, ConfirmIfQuorum DEF ElectionsTypeOK
  <2> QED BY <2>5, <2>6 DEF Changes
<1> QED BY <1>2, <1>3 DEF publish

(* The steps, by what they do to elections, winners and callbacks.          *)
NoCallback == UNCHANGED <<activating, reported, passed_over>>
Stops == Untold /\ \E D : roots' = [r \in DOMAIN roots \ D |-> roots[r]]
Told ==
  \/ \E h \in Hash \ {Genesis} :
       alarm(h) \/ block_already_cemented_callback(h) \/ notify_observers(h)
  \/ confirm_block \/ settle \/ activate

(* Every step is of one of these kinds.                                     *)
LEMMA StepParts ==
  ASSUME ElectionsTypeOK, [Next]_vars
  PROVE  (NoCallback /\ (Keeps \/ Changes \/ Stops)) \/ Told
<1> USE DEF NoCallback, history_vars
<1>1. ASSUME NEW p \in Rep, NEW v \in [sequence : 1 .. MaxSequence, hash : Hash \ {Genesis}], NEW c,
             vote(p, v, c)
      PROVE  NoCallback /\ (Keeps \/ Changes)
  <2>1. NoCallback
    BY <1>1 DEF vote
  <2> QED BY <1>1, <2>1, VoteElects
<1>2. ASSUME NEW t \in Thread, insert(t) \/ transition(t) \/ publish(t)
      PROVE  NoCallback /\ (Keeps \/ Changes)
  <2>1. insert(t) => NoCallback
    BY DEF insert
  <2>2. transition(t) => NoCallback
    BY DEF transition
  <2>3. publish(t) => NoCallback
    BY DEF publish
  <2> QED BY <1>2, <2>1, <2>2, <2>3, InsertElects, TransitionElects, PublishElects
<1> USE DEF Keeps, Untold, active_vars, winner_vars, cementer_vars
<1>3. ASSUME NEW h, arrive(h) PROVE NoCallback /\ Keeps
  BY <1>3 DEF arrive
<1>4. ASSUME NEW r, request_confirm(r) PROVE NoCallback /\ Stops
  <2>1. NoCallback /\ Untold
    BY <1>4 DEF request_confirm
  <2>2. roots' = [q \in DOMAIN roots \ {r} |-> roots[q]]
    BY <1>4 DEF request_confirm, stop_elections
  <2> QED BY <2>1, <2>2 DEF Stops
<1>5. ASSUME NEW r, activate_dependencies(r) PROVE NoCallback /\ Keeps
  <2>1. Keeps
    BY <1>5 DEF activate_dependencies
  <2>2. NoCallback
    BY <1>5 DEF activate_dependencies
  <2> QED BY <2>1, <2>2
<1>6. ASSUME NEW a, confirm_prioritized_frontiers(a) PROVE NoCallback /\ Keeps
  BY <1>6 DEF confirm_prioritized_frontiers
<1>7. CASE check_processing
  BY <1>7 DEF check_processing
<1>8. CASE release_assert
  BY <1>8 DEF release_assert
<1>9. CASE process_block
  <2> DEFINE D == {root(h) : h \in rolled_back \ {successor(taken, stored)}}
  <2>1. NoCallback /\ Untold
    BY <1>9 DEF process_block
  <2>2. stop_elections(D)
    BY <1>9 DEF process_block
  <2> HIDE DEF D
  <2>3. roots' = [q \in DOMAIN roots \ D |-> roots[q]]
    BY <2>2 DEF stop_elections
  <2> QED BY <2>1, <2>3 DEF Stops
<1>10. CASE live_block
  BY <1>10 DEF live_block
<1>11. CASE UNCHANGED <<active_vars, winner_vars, duty, activating, cementer_vars, history_vars>>
  BY <1>11
<1>12. ASSUME NEW S, cement(S) PROVE NoCallback /\ Keeps
  BY <1>12 DEF cement, Processor!CementRequested
<1>13. CASE UNCHANGED vars
  BY <1>13 DEF vars
<1>14. CASE Elsewhere
  BY <1>1, <1>2, <1>3, <1>4, <1>5, <1>6, <1>7, <1>8, <1>13, <1>14 DEF Elsewhere, Told
<1> QED BY <1>9, <1>10, <1>11, <1>12, <1>14, StepKinds

(* Cemented blocks stay cemented.                                           *)
LEMMA CementedGrows ==
  ASSUME [Next]_vars
  PROVE  cemented \subseteq cemented'
<1>1. CASE process_block
  BY <1>1 DEF process_block, process_one
<1>2. CASE live_block
  BY <1>2 DEF live_block, process_live, ledger_vars
<1>3. CASE process_batch \/ commit \/ end_batch
  BY <1>3 DEF process_batch, commit, end_batch, ledger_vars
<1>4. ASSUME NEW S, cement(S) PROVE cemented \subseteq cemented'
  BY <1>4 DEF cement, Processor!CementRequested, Processor!Cement
<1>5. CASE UNCHANGED <<stored, committed, cemented, batch, post_events, unchecked>>
  BY <1>5
<1> QED BY <1>1, <1>2, <1>3, <1>4, <1>5, LedgerUntouched, StepKinds

-----------------------------------------------------------------------------
(* The callback's records.                                                  *)
LEMMA Callbacks ==
  ASSUME NEW s, NEW x
  PROVE  /\ [Idle EXCEPT !.step = s, !.hash = x] = [step |-> s, hash |-> x, accounts |-> << >>]
         /\ [Idle EXCEPT !.step = s, !.accounts = x] = [step |-> s, hash |-> Zero, accounts |-> x]
<1> DEFINE c == [Idle EXCEPT !.step = s]
<1>1. c = [step |-> s, hash |-> Zero, accounts |-> << >>]
  BY SMTT(60) DEF Idle
<1>2. /\ [Idle EXCEPT !.step = s, !.hash = x] = [c EXCEPT !.hash = x]
      /\ [Idle EXCEPT !.step = s, !.accounts = x] = [c EXCEPT !.accounts = x]
  OBVIOUS
<1> HIDE DEF c
<1>3. /\ [c EXCEPT !.hash = x] = [step |-> s, hash |-> x, accounts |-> << >>]
      /\ [c EXCEPT !.accounts = x] = [step |-> s, hash |-> Zero, accounts |-> x]
  BY SMTT(60), <1>1
<1> QED BY <1>2, <1>3

(* The steps that tell of winners.                                          *)
LEMMA AlarmFrame ==
  ASSUME NEW h, alarm(h)
  PROVE  /\ NoCallback /\ roots' = roots /\ announced' = announced /\ h \in retrying
         /\ retrying' = retrying \ {h}
         /\ \/ waiting' = waiting \cup {h} /\ election_winner_details' = election_winner_details
            \/ /\ h \notin committed /\ ~has_election(h) /\ waiting' = waiting
               /\ election_winner_details' = election_winner_details \ {h}
<1>1. NoCallback /\ roots' = roots /\ h \in retrying /\ retrying' = retrying \ {h}
  BY DEF alarm, NoCallback, history_vars, active_vars
<1>2. CASE Processor!Request(h) /\ UNCHANGED election_winner_details
  BY <1>1, <1>2 DEF Processor!Request
<1>3. CASE /\ h \notin committed /\ ~has_election(h)
           /\ election_winner_details' = election_winner_details \ {h}
           /\ UNCHANGED cementer_vars
  BY <1>1, <1>3 DEF cementer_vars
<1> QED BY <1>2, <1>3 DEF alarm

(* The answer that a block is cemented takes it off the record.             *)
LEMMA AlreadyFrame ==
  ASSUME NEW h \in Hash \ {Genesis}, block_already_cemented_callback(h)
  PROVE  /\ NoCallback /\ roots' = roots /\ announced' = announced /\ retrying' = retrying
         /\ h \in waiting /\ announced[h] > 0 /\ activating = Idle
         /\ waiting' = waiting \ {h}
         /\ election_winner_details' = election_winner_details \ {h}
  BY DEF block_already_cemented_callback, NoCallback, history_vars, active_vars, observers_done,
         Processor!AlreadyCemented

(* A cemented block is announced, and its callback begins.                  *)
LEMMA NotifyFrame ==
  ASSUME NEW h \in Hash \ {Genesis}, notify_observers(h)
  PROVE  /\ roots' = roots /\ retrying' = retrying /\ reported' = reported
         /\ passed_over' = passed_over /\ election_winner_details' = election_winner_details
         /\ activating = Idle /\ h \in cemented /\ announced[h] = 0
         /\ announced' = [announced EXCEPT ![h] = 1] /\ waiting' = waiting \ {h}
         /\ activating' = [step |-> IF h \in waiting THEN "settle" ELSE "confirm", hash |-> h,
                           accounts |-> << >>]
<1>1. Processor!Announce(h)
  BY DEF notify_observers
<1>2. /\ UNCHANGED <<active_vars, winner_vars, history_vars>> /\ activating = Idle
      /\ activating' = [Idle EXCEPT !.step = IF is_processing_block(h) THEN "settle" ELSE "confirm",
                                    !.hash = h]
  BY DEF notify_observers, observers_done
<1>3. activating' = [step |-> IF h \in waiting THEN "settle" ELSE "confirm", hash |-> h,
                     accounts |-> << >>]
  BY <1>2, Callbacks DEF is_processing_block
<1>4. /\ h \in cemented /\ announced[h] = 0 /\ waiting' = waiting \ {h}
      /\ announced' = [announced EXCEPT ![h] = 1]
  BY <1>1 DEF Processor!Announce
<1>5. UNCHANGED <<roots, retrying, reported, passed_over, election_winner_details>>
  BY <1>2 DEF active_vars, winner_vars, history_vars
<1> QED BY <1>2, <1>3, <1>4, <1>5

(* settle takes the winner off the record and reports it.                   *)
LEMMA SettleFrame ==
  ASSUME settle
  PROVE  /\ UNCHANGED <<roots, retrying, waiting, announced, passed_over, duty, elected>>
         /\ activating.step = "settle"
         /\ reported' = IF activating.hash \in election_winner_details
                        THEN [reported EXCEPT ![activating.hash] = @ + 1] ELSE reported
         /\ election_winner_details' = election_winner_details \ {activating.hash}
         /\ activating' = [step |-> "activate", hash |-> Zero,
                           accounts |-> activations(activating.hash)]
<1>1. activating' = activate_next(activating.hash)
  BY DEF settle
<1>2. activating' = [step |-> "activate", hash |-> Zero, accounts |-> activations(activating.hash)]
  BY <1>1, Callbacks DEF activate_next
<1>3. UNCHANGED <<roots, retrying, waiting, announced, passed_over, duty, elected>>
  BY DEF settle, active_vars, cementer_vars
<1> QED BY <1>2, <1>3 DEF settle

(* activate leaves elections and winners alone.                             *)
LEMMA ActivateFrame ==
  ASSUME activate
  PROVE  /\ Keeps /\ reported' = reported /\ passed_over' = passed_over
         /\ activating.step = "activate"
         /\ activating' = IF Tail(activating.accounts) = << >> THEN Idle
                          ELSE [activating EXCEPT !.accounts = Tail(activating.accounts)]
  BY DEF activate, Keeps, Untold, active_vars, winner_vars, cementer_vars, history_vars

(* The callback then goes on or is done.                                    *)
LEMMA ActivateStep ==
  ASSUME ElectionsTypeOK, activate
  PROVE  activating'.step \in {"activate", "none"}
<1>1. activating \in Callback
  BY DEF ElectionsTypeOK
<1>2. [activating EXCEPT !.accounts = Tail(activating.accounts)].step = activating.step
  BY <1>1 DEF Callback
<1>3. Idle.step = "none"
  BY DEF Idle
<1> QED BY <1>2, <1>3, ActivateFrame

(* confirm_block reports a block without election, confirms, or passes over.*)
LEMMA ConfirmFrame ==
  ASSUME confirm_block
  PROVE  LET h == activating.hash
             r == root(h)
         IN /\ activating.step = "confirm" /\ announced' = announced
            /\ \/ /\ Keeps /\ passed_over' = passed_over
                  /\ reported' = [reported EXCEPT ![h] = @ + 1]
                  /\ activating' = [step |-> "activate", hash |-> Zero, accounts |-> activations(h)]
               \/ /\ has_election(h) /\ roots[r].winner = h /\ confirm_once(r, roots[r])
                  /\ activating' = [activating EXCEPT !.step = "settle"]
                  /\ UNCHANGED <<reported, passed_over>>
               \/ /\ Keeps /\ reported' = reported /\ passed_over' = passed_over \cup {h}
                  /\ activating' = Idle
<1> DEFINE h == activating.hash
           r == root(h)
<1>1. CASE /\ reported' = [reported EXCEPT ![h] = @ + 1]
           /\ activating' = activate_next(h)
           /\ UNCHANGED <<roots, recently_confirmed, winner_vars, cementer_vars, passed_over>>
  <2>1. activating' = [step |-> "activate", hash |-> Zero, accounts |-> activations(h)]
    BY <1>1, Callbacks DEF activate_next
  <2>2. Keeps /\ passed_over' = passed_over /\ announced' = announced
    BY <1>1 DEF Keeps, Untold, winner_vars, cementer_vars
  <2>3. activating.step = "confirm"
    BY DEF confirm_block
  <2> QED BY <1>1, <2>1, <2>2, <2>3
<1>2. CASE /\ has_election(h) /\ roots[r].winner = h
           /\ confirm_once(r, roots[r])
           /\ activating' = [activating EXCEPT !.step = "settle"]
           /\ UNCHANGED <<reported, passed_over>>
  <2>1. announced' = announced
    <3>1. CASE process_confirmed(roots[r].winner)
      BY <3>1 DEF process_confirmed, Processor!Request, cementer_vars
    <3>2. CASE UNCHANGED cementer_vars
      BY <3>2 DEF cementer_vars
    <3> QED BY <1>2, <3>1, <3>2 DEF confirm_once
  <2>2. activating.step = "confirm"
    BY DEF confirm_block
  <2> QED BY <1>2, <2>1, <2>2
<1>3. CASE /\ passed_over' = passed_over \cup {h}
           /\ activating' = Idle
           /\ UNCHANGED <<roots, recently_confirmed, winner_vars, cementer_vars, reported>>
  BY <1>3 DEF confirm_block, Keeps, Untold, winner_vars, cementer_vars
<1> QED BY <1>1, <1>2, <1>3 DEF confirm_block

(* confirm_block confirms an election as it stands.                         *)
LEMMA ConfirmElects ==
  ASSUME ElectionsTypeOK, NEW h, has_election(h), roots[root(h)].winner = h,
         confirm_once(root(h), roots[root(h)])
  PROVE  /\ Stands(root(h), roots[root(h)])
         /\ \E f : /\ Elects(root(h), roots[root(h)], f)
                   /\ f.state = "confirmed" /\ f.winner = h
<1> DEFINE r == root(h)
           e == roots[r]
<1>1. active(r) /\ r \in DOMAIN roots
  BY DEF has_election, active
<1>2. e \in Election /\ e.winner \in e.blocks /\ \A k \in e.blocks : root(k) = r
  BY <1>1 DEF ElectionsTypeOK
<1>3. Stands(r, e)
  BY <1>1, <1>2 DEF Stands
<1>4. confirm_once(r, e) /\ e.winner = h
  OBVIOUS
<1> HIDE DEF r, e
<1>5. \E f : Elects(r, e, f) /\ f.state = "confirmed" /\ f.winner = h
  BY <1>2, <1>4, ConfirmOnce
<1> QED BY <1>3, <1>5 DEF r, e

(* So every step changes one election, stops some or leaves them alone.     *)
LEMMA RootsStep ==
  ASSUME ElectionsTypeOK, [Next]_vars
  PROVE  Changes \/ \E D : roots' = [r \in DOMAIN roots \ D |-> roots[r]]
<1>1. ASSUME roots' = roots PROVE \E D : roots' = [r \in DOMAIN roots \ D |-> roots[r]]
  <2>1. roots' = [r \in DOMAIN roots \ {} |-> roots[r]]
    BY <1>1 DEF ElectionsTypeOK
  <2> QED BY <2>1
<1>2. CASE NoCallback /\ (Keeps \/ Changes \/ Stops)
  BY <1>1, <1>2 DEF Keeps, Stops
<1>3. ASSUME NEW h \in Hash \ {Genesis},
             alarm(h) \/ block_already_cemented_callback(h) \/ notify_observers(h)
      PROVE  roots' = roots
  BY <1>3, AlarmFrame, AlreadyFrame, NotifyFrame
<1>4. CASE confirm_block
  <2> DEFINE h == activating.hash
  <2>1. CASE Keeps
    BY <1>1, <2>1 DEF Keeps
  <2>2. CASE has_election(h) /\ roots[root(h)].winner = h /\ confirm_once(root(h), roots[root(h)])
    <3> HIDE DEF h
    <3>1. Stands(root(h), roots[root(h)]) /\ \E f : Elects(root(h), roots[root(h)], f)
      BY <2>2, ConfirmElects
    <3> QED BY <3>1 DEF Changes
  <2> QED BY <1>4, <2>1, <2>2, ConfirmFrame
<1>5. CASE settle \/ activate
  <2>1. roots' = roots
    BY <1>5, SettleFrame, ActivateFrame DEF Keeps
  <2> QED BY <1>1, <2>1
<1>6. CASE Told
  BY <1>1, <1>3, <1>4, <1>5, <1>6 DEF Told
<1> QED BY <1>2, <1>6, StepParts

(* Every election stays about blocks of its root.                           *)
LEMMA RootsKept ==
  ASSUME ElectionsTypeOK, [Next]_vars
  PROVE  RootsRight'
<1>1. RootsRight
  BY DEF ElectionsTypeOK, RootsRight
<1>2. CASE Changes
  BY <1>1, <1>2, ElectsRight DEF Changes
<1>3. ASSUME NEW D, roots' = [r \in DOMAIN roots \ D |-> roots[r]] PROVE RootsRight'
  BY <1>1, <1>3 DEF RootsRight
<1> QED BY <1>2, <1>3, RootsStep

(* A confirmed election is not changed.                                     *)
LEMMA ConfirmedKept ==
  ASSUME ElectionsTypeOK, [Next]_vars
  PROVE  \A r \in DOMAIN roots \cap DOMAIN roots' :
           roots[r].state = "confirmed" =>
             roots'[r].state = "confirmed" /\ roots'[r].winner = roots[r].winner
<1>1. ASSUME NEW r, NEW e, NEW f, Stands(r, e), Elects(r, e, f),
             NEW q \in DOMAIN roots \cap DOMAIN roots', roots[q].state = "confirmed"
      PROVE  roots'[q].state = "confirmed" /\ roots'[q].winner = roots[q].winner
  <2>1. /\ DOMAIN roots' = DOMAIN roots \cup {r} /\ roots'[r] = f
        /\ \A k \in DOMAIN roots \ {r} : roots'[k] = roots[k]
    BY <1>1, ElectsOne
  <2>2. CASE q = r
    BY <1>1, <2>1, <2>2 DEF Stands, Elects, active
  <2>3. CASE q # r
    BY <1>1, <2>1, <2>3
  <2> QED BY <2>2, <2>3
<1>2. ASSUME NEW D, roots' = [r \in DOMAIN roots \ D |-> roots[r]],
             NEW q \in DOMAIN roots \cap DOMAIN roots'
      PROVE  roots'[q] = roots[q]
  BY <1>2
<1> QED BY <1>1, <1>2, RootsStep DEF Changes

(* The block of a callback is cemented.                                     *)
LEMMA CalledBack ==
  ASSUME LedgerSound, ReportsRight, activating.step \in {"confirm", "settle"}
  PROVE  activating.hash \in committed
<1>1. activating.hash \in Hash /\ announced[activating.hash] = 1
  BY DEF ReportsRight
<1>2. announced[activating.hash] > 0
  BY SMTT(60), <1>1
<1>3. activating.hash \in cemented
  BY <1>1, <1>2 DEF ReportsRight
<1> QED BY <1>3 DEF LedgerSound

(* Every step keeps somebody answering for each winner.                     *)
LEMMA WinnersKept ==
  ASSUME ElectionsTypeOK, LedgerSound, WinnersRight, ReportsRight, [Next]_vars
  PROVE  WinnersRight'
<1>1. CASE NoCallback /\ Keeps
  BY <1>1 DEF NoCallback, Keeps, Untold, WinnersRight, settled
<1>2. CASE NoCallback /\ Changes
  <2>1. activating' = activating
    BY <1>2 DEF NoCallback
  <2> QED BY <1>2, <2>1, ElectsWinners DEF Changes
<1>3. CASE NoCallback /\ Stops
  <2>1. PICK D : roots' = [r \in DOMAIN roots \ D |-> roots[r]]
    BY <1>3 DEF Stops
  <2>2. /\ DOMAIN roots' \subseteq DOMAIN roots
        /\ \A r \in DOMAIN roots' : roots'[r] = roots[r]
    BY <2>1
  <2> QED BY <1>3, <2>2 DEF NoCallback, Stops, Untold, WinnersRight, settled
<1>4. ASSUME NEW h \in Hash \ {Genesis}, alarm(h) PROVE WinnersRight'
  <2>1. /\ activating' = activating /\ roots' = roots /\ announced' = announced /\ h \in retrying
        /\ retrying' = retrying \ {h}
    BY <1>4, AlarmFrame DEF NoCallback
  <2>2. CASE waiting' = waiting \cup {h} /\ election_winner_details' = election_winner_details
    BY <2>1, <2>2 DEF WinnersRight, settled
  <2>3. CASE /\ h \notin committed /\ ~has_election(h) /\ waiting' = waiting
             /\ election_winner_details' = election_winner_details \ {h}
    <3>1. ASSUME NEW r \in DOMAIN roots PROVE roots[r].winner # h
      <4>1. roots[r].winner \in roots[r].blocks /\ root(roots[r].winner) = r
        BY DEF ElectionsTypeOK
      <4> QED BY <2>3, <4>1 DEF has_election, active
    <3>2. activating.step = "settle" => activating.hash # h
      BY <2>3, CalledBack
    <3> QED BY <2>1, <2>3, <3>1, <3>2 DEF WinnersRight, settled
  <2> QED BY <1>4, <2>2, <2>3, AlarmFrame
<1>5. ASSUME NEW h \in Hash \ {Genesis}, block_already_cemented_callback(h) PROVE WinnersRight'
  <2>1. /\ activating' = activating /\ roots' = roots /\ announced' = announced
        /\ retrying' = retrying /\ h \in waiting /\ announced[h] > 0 /\ activating = Idle
        /\ waiting' = waiting \ {h} /\ election_winner_details' = election_winner_details \ {h}
    BY <1>5, AlreadyFrame DEF NoCallback
  <2>2. activating.step = "none"
    BY <2>1 DEF Idle
  <2> QED BY <2>1, <2>2 DEF WinnersRight, settled
<1>6. ASSUME NEW h \in Hash \ {Genesis}, notify_observers(h) PROVE WinnersRight'
  <2>1. /\ roots' = roots /\ retrying' = retrying
        /\ election_winner_details' = election_winner_details
        /\ activating = Idle /\ announced[h] = 0
        /\ announced' = [announced EXCEPT ![h] = 1] /\ waiting' = waiting \ {h}
    BY <1>6, NotifyFrame
  <2>2. activating' = [step |-> IF h \in waiting THEN "settle" ELSE "confirm", hash |-> h,
                       accounts |-> << >>]
    BY <1>6, NotifyFrame
  <2>3. /\ activating'.hash = h /\ activating.step = "none"
        /\ activating'.step = IF h \in waiting THEN "settle" ELSE "confirm"
    BY <2>1, <2>2 DEF Idle
  <2>4. /\ announced'[h] = 1 /\ \A k \in Hash : announced[k] > 0 => announced'[k] > 0
        /\ \A k \in Hash \ {h} : announced'[k] = announced[k]
    BY SMTT(60), <2>1 DEF ElectionsTypeOK
  <2>5. \A r \in DOMAIN roots : roots[r].winner \in Hash
    BY DEF ElectionsTypeOK, Election
  <2> HIDE DEF Idle
  <2> QED BY SMTT(60), <2>1, <2>3, <2>4, <2>5 DEF WinnersRight, settled
<1>7. CASE confirm_block
  <2> DEFINE h == activating.hash
             r == root(h)
  <2>0. activating.step = "confirm" /\ announced' = announced /\ h \in Hash \ {Genesis}
        /\ announced[h] = 1
    BY <1>7, ConfirmFrame DEF ReportsRight
  <2>1. CASE Keeps /\ activating'.step \in {"activate", "none"}
    BY <2>0, <2>1 DEF Keeps, Untold, WinnersRight, settled
  <2>2. CASE /\ has_election(h) /\ roots[r].winner = h /\ confirm_once(r, roots[r])
             /\ activating' = [activating EXCEPT !.step = "settle"]
    <3>1. activating'.step = "settle" /\ activating'.hash = h
      BY <2>2 DEF ElectionsTypeOK, Callback
    <3>2. /\ Stands(r, roots[r])
          /\ \E f : Elects(r, roots[r], f) /\ f.state = "confirmed" /\ f.winner = h
      <4> HIDE DEF h
      <4> QED BY <2>2, ConfirmElects
    <3>3. PICK f : Elects(r, roots[r], f) /\ f.state = "confirmed" /\ f.winner = h
      BY <3>2
    <3>4. /\ DOMAIN roots' = DOMAIN roots \cup {r} /\ roots'[r] = f
          /\ \A q \in DOMAIN roots \ {r} : roots'[q] = roots[q]
      BY <3>3, ElectsOne
    <3>5. r \in DOMAIN roots
      BY <2>2 DEF has_election, active
    <3> HIDE DEF h, r
    <3>6. CASE Untold
      <4>1. h \in election_winner_details
        <5>1. roots[r].state = "confirmed" => h \in election_winner_details
          BY <2>0, <2>2, <3>5 DEF WinnersRight, h
        <5>2. Recorded(f.winner) => FALSE
          BY <3>6 DEF Recorded, Untold
        <5> QED BY <3>3, <5>1, <5>2 DEF Elects
      <4> QED BY <2>0, <3>1, <3>3, <3>4, <3>6, <4>1 DEF WinnersRight, Untold, settled
    <3>7. CASE Recorded(h)
      BY <2>0, <3>1, <3>3, <3>4, <3>7 DEF WinnersRight, Recorded, settled
    <3> QED BY <3>3, <3>6, <3>7 DEF Elects
  <2>3. [step |-> "activate", hash |-> Zero, accounts |-> activations(h)].step = "activate"
        /\ Idle.step = "none"
    BY DEF Idle
  <2> QED BY <1>7, <2>1, <2>2, <2>3, ConfirmFrame
<1>8. CASE settle
  <2> DEFINE h == activating.hash
  <2>1. /\ UNCHANGED <<roots, retrying, waiting, announced>> /\ activating.step = "settle"
        /\ election_winner_details' = election_winner_details \ {h}
    BY <1>8, SettleFrame
  <2>2. activating' = [step |-> "activate", hash |-> Zero, accounts |-> activations(h)]
    BY <1>8, SettleFrame
  <2>3. activating'.step = "activate" /\ announced[h] = 1
    BY <2>1, <2>2 DEF ReportsRight
  <2> QED BY SMTT(60), <2>1, <2>3 DEF WinnersRight, settled
<1>9. CASE activate
  <2>1. activating.step = "activate" /\ Keeps
    BY <1>9, ActivateFrame
  <2>2. activating'.step \in {"activate", "none"}
    BY SMTT(60), <1>9, <2>1, ActivateFrame DEF Idle, ElectionsTypeOK, Callback
  <2> QED BY <2>1, <2>2 DEF Keeps, Untold, WinnersRight, settled
<1>10. CASE Told
  BY <1>4, <1>5, <1>6, <1>7, <1>8, <1>9, <1>10 DEF Told
<1> QED BY <1>1, <1>2, <1>3, <1>10, StepParts

(* Every step keeps the reports in line with the announcements.             *)
LEMMA ReportsKept ==
  ASSUME ElectionsTypeOK, LedgerSound, WinnersRight, ReportsRight, [Next]_vars
  PROVE  ReportsRight'
<1> cemented \subseteq cemented'
  BY CementedGrows
<1>1. CASE NoCallback /\ announced' = announced
  BY <1>1 DEF NoCallback, ReportsRight
<1>2. CASE NoCallback /\ (Keeps \/ Changes \/ Stops)
  BY <1>1, <1>2 DEF Keeps, Changes, Stops, Elects, Recorded, Untold
<1>3. ASSUME NEW h \in Hash \ {Genesis}, alarm(h) \/ block_already_cemented_callback(h)
      PROVE  ReportsRight'
  BY <1>1, <1>3, AlarmFrame, AlreadyFrame
<1>4. ASSUME NEW h \in Hash \ {Genesis}, notify_observers(h) PROVE ReportsRight'
  <2>1. /\ UNCHANGED <<reported, passed_over>>
        /\ activating = Idle /\ announced[h] = 0 /\ h \in cemented
        /\ announced' = [announced EXCEPT ![h] = 1]
    BY <1>4, NotifyFrame
  <2>2. activating' = [step |-> IF h \in waiting THEN "settle" ELSE "confirm", hash |-> h,
                       accounts |-> << >>]
    BY <1>4, NotifyFrame
  <2>3. /\ activating'.hash = h /\ activating.step = "none"
        /\ activating'.step \in {"confirm", "settle"}
    BY <2>1, <2>2 DEF Idle
  <2>4. announced'[h] = 1 /\ \A k \in Hash \ {h} : announced'[k] = announced[k]
    BY <2>1 DEF ElectionsTypeOK
  <2>5. reported[h] = 0
    BY SMTT(60), <2>1 DEF ReportsRight, ElectionsTypeOK
  <2> QED BY SMTT(60), <2>1, <2>3, <2>4, <2>5 DEF ReportsRight
<1>5. CASE confirm_block
  <2> DEFINE h == activating.hash
  <2>0. activating.step = "confirm" /\ announced' = announced /\ h \in Hash \ {Genesis}
        /\ announced[h] = 1 /\ reported[h] = 0
    BY <1>5, ConfirmFrame DEF ReportsRight
  <2>1. CASE /\ passed_over' = passed_over /\ reported' = [reported EXCEPT ![h] = @ + 1]
             /\ activating' = [step |-> "activate", hash |-> Zero, accounts |-> activations(h)]
    <3>1. activating'.step = "activate" /\ reported'[h] = 1
          /\ \A k \in Hash \ {h} : reported'[k] = reported[k]
      BY SMTT(60), <2>0, <2>1 DEF ElectionsTypeOK
    <3>2. /\ \A k \in Hash : announced'[k] > 0 => k \in cemented'
          /\ ~(activating'.step \in {"confirm", "settle"})
      BY <2>0, <3>1 DEF ReportsRight
    <3>3. \A k \in Hash : reported'[k] <= announced'[k]
      <4>1. \A k \in Hash : reported[k] <= announced[k]
        BY DEF ReportsRight
      <4> QED BY SMTT(60), <2>0, <3>1, <4>1
    <3>4. \A k \in Hash \ passed_over' : ~(reported'[k] < announced'[k])
      <4>1. \A k \in Hash \ passed_over : reported[k] < announced[k] => k = h
        BY DEF ReportsRight
      <4> QED BY SMTT(60), <2>0, <2>1, <3>1, <4>1
    <3> QED BY <3>2, <3>3, <3>4 DEF ReportsRight
  <2>2. CASE /\ activating' = [activating EXCEPT !.step = "settle"]
             /\ UNCHANGED <<reported, passed_over>>
    <3>1. activating'.step = "settle" /\ activating'.hash = h
      BY <2>2 DEF ElectionsTypeOK, Callback
    <3> QED BY <2>0, <2>2, <3>1 DEF ReportsRight
  <2>3. CASE reported' = reported /\ passed_over' = passed_over \cup {h} /\ activating' = Idle
    <3>1. activating'.step = "none"
      BY <2>3 DEF Idle
    <3> QED BY <2>0, <2>3, <3>1 DEF ReportsRight
  <2> QED BY <1>5, <2>1, <2>2, <2>3, ConfirmFrame
<1>6. CASE settle
  <2> DEFINE h == activating.hash
  <2>1. /\ UNCHANGED <<announced, passed_over>> /\ activating.step = "settle"
        /\ reported' = IF h \in election_winner_details
                       THEN [reported EXCEPT ![h] = @ + 1] ELSE reported
    BY <1>6, SettleFrame
  <2>2. activating' = [step |-> "activate", hash |-> Zero, accounts |-> activations(h)]
    BY <1>6, SettleFrame
  <2>3. activating'.step = "activate" /\ announced[h] = 1 /\ reported[h] = 0 /\ h \in Hash
    BY <2>1, <2>2 DEF ReportsRight
  <2>4. h \in election_winner_details
    BY <2>1 DEF WinnersRight
  <2>5. reported'[h] = 1 /\ \A k \in Hash \ {h} : reported'[k] = reported[k]
    <3>1. reported \in [Hash -> Nat]
      BY DEF ElectionsTypeOK
    <3>2. reported' = [reported EXCEPT ![h] = @ + 1]
      BY <2>1, <2>4
    <3> QED BY SMTT(60), <2>3, <3>1, <3>2
  <2> QED BY SMTT(60), <2>1, <2>3, <2>5 DEF ReportsRight
<1>7. CASE activate
  <2>1. activating.step = "activate" /\ Keeps /\ UNCHANGED <<reported, passed_over>>
    BY <1>7, ActivateFrame
  <2>2. activating'.step \in {"activate", "none"}
    BY <1>7, ActivateStep
  <2> QED BY <2>1, <2>2 DEF Keeps, Untold, ReportsRight
<1>8. CASE Told
  BY <1>3, <1>4, <1>5, <1>6, <1>7, <1>8 DEF Told
<1> QED BY <1>2, <1>8, StepParts

(* The queues hold blocks.                                                  *)
LEMMA QueuesTyped ==
  ASSUME General, ElectionsTypeOK, [Next]_vars
  PROVE  blocks' \in Seq(Hash) /\ forced' \in Seq(Hash) /\ post_events' \in Seq(Hash)
<1> USE DEF processor_vars, queue_vars
<1>1. CASE process_block
  BY <1>1, QueueKept DEF process_block
<1>2. CASE live_block
  BY SMTT(60), <1>2 DEF live_block, process_live, ElectionsTypeOK
<1>3. CASE process_batch \/ commit \/ end_batch
  BY <1>3 DEF process_batch, commit, end_batch, ElectionsTypeOK
<1>4. ASSUME NEW S, cement(S) PROVE UNCHANGED <<blocks, forced, post_events>>
  BY <1>4 DEF cement
<1>5. ASSUME NEW p \in Rep, NEW v \in [sequence : 1 .. MaxSequence, hash : Hash \ {Genesis}], NEW c,
             vote(p, v, c)
      PROVE  forced' \in Seq(Hash) /\ UNCHANGED <<blocks, post_events>>
  <2>1. UNCHANGED <<blocks, post_events>>
    BY <1>5 DEF vote
  <2> QED BY <1>5, <2>1, VoteElects
<1>6. ASSUME NEW t \in Thread, insert(t) \/ transition(t) \/ publish(t)
      PROVE  forced' \in Seq(Hash) /\ UNCHANGED <<blocks, post_events>>
  <2>1. insert(t) => UNCHANGED <<blocks, post_events>>
    BY DEF insert
  <2>2. transition(t) => UNCHANGED <<blocks, post_events>>
    BY DEF transition
  <2>3. publish(t) => UNCHANGED <<blocks, post_events>>
    BY DEF publish
  <2> QED BY <1>6, <2>1, <2>2, <2>3, InsertElects, TransitionElects, PublishElects
<1>7. ASSUME NEW h \in Hash, arrive(h)
      PROVE  blocks' \in Seq(Hash) /\ UNCHANGED <<forced, post_events>>
  BY SMTT(60), <1>7 DEF arrive, add, ElectionsTypeOK
<1>8. ASSUME NEW h, alarm(h) \/ block_already_cemented_callback(h) \/ notify_observers(h)
      PROVE  UNCHANGED <<blocks, forced, post_events>>
  <2>1. alarm(h) => UNCHANGED <<blocks, forced, post_events>>
    BY DEF alarm
  <2>2. block_already_cemented_callback(h) => UNCHANGED <<blocks, forced, post_events>>
    BY DEF block_already_cemented_callback
  <2>3. notify_observers(h) => UNCHANGED <<blocks, forced, post_events>>
    BY DEF notify_observers
  <2> QED BY <1>8, <2>1, <2>2, <2>3
<1>9. ASSUME NEW r, request_confirm(r) \/ activate_dependencies(r)
      PROVE  UNCHANGED <<blocks, forced, post_events>>
  BY <1>9 DEF request_confirm, activate_dependencies
<1>10. ASSUME NEW a, confirm_prioritized_frontiers(a)
       PROVE  UNCHANGED <<blocks, forced, post_events>>
  BY <1>10 DEF confirm_prioritized_frontiers
<1>11. check_processing \/ release_assert => UNCHANGED <<blocks, forced, post_events>>
  BY DEF check_processing, release_assert
<1>12. confirm_block => UNCHANGED <<blocks, forced, post_events>>
  BY DEF confirm_block
<1>13. settle \/ activate => UNCHANGED <<blocks, forced, post_events>>
  BY DEF settle, activate
<1>14. UNCHANGED vars => UNCHANGED <<blocks, forced, post_events>>
  BY DEF vars
<1>15. blocks \in Seq(Hash) /\ forced \in Seq(Hash) /\ post_events \in Seq(Hash)
  BY DEF ElectionsTypeOK
<1>16. CASE Elsewhere
  BY <1>5, <1>6, <1>7, <1>8, <1>9, <1>10, <1>11, <1>12, <1>13, <1>14, <1>15, <1>16
     DEF Elsewhere
<1> QED BY <1>1, <1>2, <1>3, <1>4, <1>15, <1>16, StepKinds

(* What a thread may be about to do.                                        *)
Sensible(d) ==
  /\ d \in Duty
  /\ d.step \in {"insert", "transition", "check"} => d.hash # Zero
  /\ d.step = "publish" => d.publish # Zero
DutiesRight == duty \in [Thread -> Duty] /\ \A t \in Thread : Sensible(duty[t])

(* The duties to insert and to check a block.                               *)
LEMMA Starting ==
  ASSUME NEW h
  PROVE  /\ starts(h) = [step |-> "insert", hash |-> h, publish |-> Zero]
         /\ checks(h) = [step |-> "check", hash |-> h, publish |-> Zero]
         /\ h \in Hash => Sensible(starts(h)) /\ Sensible(checks(h))
<1> DEFINE i == [NoDuty EXCEPT !.step = "insert"]
           c == [NoDuty EXCEPT !.step = "check"]
<1>1. i = [step |-> "insert", hash |-> Zero, publish |-> Zero]
      /\ c = [step |-> "check", hash |-> Zero, publish |-> Zero]
  BY SMTT(60) DEF NoDuty
<1>2. starts(h) = [i EXCEPT !.hash = h] /\ checks(h) = [c EXCEPT !.hash = h]
  BY DEF starts, checks
<1> HIDE DEF i, c
<1>3. /\ [i EXCEPT !.hash = h] = [step |-> "insert", hash |-> h, publish |-> Zero]
      /\ [c EXCEPT !.hash = h] = [step |-> "check", hash |-> h, publish |-> Zero]
  BY SMTT(60), <1>1
<1>4. /\ starts(h) = [step |-> "insert", hash |-> h, publish |-> Zero]
      /\ checks(h) = [step |-> "check", hash |-> h, publish |-> Zero]
  BY <1>2, <1>3
<1>5. h \in Hash => Sensible(starts(h)) /\ Sensible(checks(h))
  <2>1. h \in Hash => h # Zero
    BY BlocksAssumption
  <2>2. ASSUME h \in Hash
        PROVE  /\ [step |-> "insert", hash |-> h, publish |-> Zero] \in Duty
               /\ [step |-> "check", hash |-> h, publish |-> Zero] \in Duty
    BY <2>2 DEF Duty
  <2>3. /\ starts(h).step = "insert" /\ starts(h).hash = h
        /\ checks(h).step = "check" /\ checks(h).hash = h
    BY SMTT(60), <1>4
  <2> QED BY <1>4, <2>1, <2>2, <2>3 DEF Sensible
<1> QED BY <1>4, <1>5

(* A thread takes such a duty.                                              *)
LEMMA DutyTaken ==
  ASSUME DutiesRight, NEW t \in Thread, NEW d, Sensible(d), duty' = [duty EXCEPT ![t] = d]
  PROVE  DutiesRight'
  BY DEF DutiesRight, Sensible

(* What activate_dependencies starts is in the ledger.                      *)
LEMMA ActivatedThere ==
  ASSUME NEW w, NEW d \in activated(w)
  PROVE  \E h \in committed : d = starts(h) \/ d = checks(h)
<1> DEFINE M == {h \in uncemented(Block[w].account) : height[h] <= height[w]}
           lacking == Cardinality(M)
           jumps == IF lacking \div 2 > 128 THEN 128 ELSE lacking \div 2
           chain == IF Block[w].previous = Zero THEN {} ELSE M
           A == {k \in chain : lacking > 1 /\ height[k] = height[w] - lacking + 1}
           B == {k \in chain : lacking > 2 /\ height[k] = height[w] - jumps}
           C == {k \in {Block[w].source} \cap (committed \ cemented) :
                   k # Block[w].previous /\ ~has_election(k)}
<1>1. activated(w) = {checks(h) : h \in A} \cup {starts(h) : h \in B} \cup {checks(h) : h \in C}
  BY DEF activated
<1> HIDE DEF lacking, jumps
<1>2. M \subseteq committed
  BY DEF uncemented
<1> HIDE DEF M
<1>3. chain \subseteq committed
  BY <1>2
<1> HIDE DEF chain
<1>4. A \subseteq committed /\ B \subseteq committed /\ C \subseteq committed
  BY <1>3
<1> HIDE DEF A, B, C
<1> QED BY <1>1, <1>4

(* Every step leaves the threads with something to do that can be done.     *)
LEMMA DutiesTyped ==
  ASSUME General, ElectionsTypeOK, LedgerSound, [Next]_vars
  PROVE  DutiesRight'
<1>0. DutiesRight
  BY DEF ElectionsTypeOK, DutiesRight, Sensible
<1>1. Sensible(NoDuty)
  BY BlocksAssumption DEF Sensible, NoDuty, Duty
<1>2. ASSUME NEW h \in Hash PROVE Sensible(starts(h)) /\ Sensible(checks(h))
  BY Starting
<1>3. ASSUME UNCHANGED duty PROVE DutiesRight'
  BY <1>0, <1>3 DEF DutiesRight, Sensible
<1>4. committed \subseteq Hash /\ stored \subseteq Hash
  BY DEF LedgerSound, Closed
<1>5. ASSUME NEW a, uncemented(a) # {} PROVE head(a) \in Hash /\ first_unconfirmed(a) \in Hash
  <2>1. uncemented(a) \subseteq Hash
    BY <1>4 DEF uncemented
  <2> QED BY <1>4, <1>5, <2>1, ChosenThere
<1>6. "processor" \in Thread /\ "observer" \in Thread /\ "loop" \in Thread
  BY DEF Thread
<1>7. CASE process_block
  <2>1. CASE outcome = "fork"
    <3> DEFINE ours == successor(taken, stored \ rolled_back)
    <3>1. PICK s \in {"insert", "publish"} :
            /\ duty' = [duty EXCEPT !["processor"] =
                          [step |-> s, hash |-> ours, publish |-> taken]]
            /\ s = "insert" => ours # Zero
      BY <1>7, <2>1 DEF process_block
    <3>2. taken \in Hash /\ ours \in Hash \cup {Zero}
      BY <1>4, <1>7, Processed DEF process_block
    <3> HIDE DEF ours
    <3>3. Sensible([step |-> s, hash |-> ours, publish |-> taken])
      BY <3>1, <3>2, BlocksAssumption DEF Sensible, Duty
    <3> QED BY <1>0, <1>6, <3>1, <3>3, DutyTaken
  <2>2. CASE outcome # "fork"
    BY <1>3, <1>7, <2>2 DEF process_block
  <2> QED BY <2>1, <2>2
<1>8. CASE live_block
  <2>1. Head(post_events) \in Hash
    BY SMTT(60), <1>8 DEF live_block, process_live, ElectionsTypeOK
  <2>2. \/ UNCHANGED duty \/ duty' = [duty EXCEPT !["processor"] = starts(Head(post_events))]
    BY <1>8 DEF live_block
  <2> QED BY <1>0, <1>2, <1>3, <1>6, <2>1, <2>2, DutyTaken
<1>9. CASE UNCHANGED <<active_vars, winner_vars, duty, activating, cementer_vars, history_vars>>
  BY <1>3, <1>9
<1>10. ASSUME NEW S, cement(S) PROVE UNCHANGED duty
  BY <1>10 DEF cement
<1>11. ASSUME NEW p, NEW v, NEW c, vote(p, v, c) PROVE UNCHANGED duty
  BY <1>11 DEF vote
<1>12. ASSUME NEW t \in Thread PROVE Sensible(next_step(t))
  <2>1. CASE duty[t].publish # Zero
    <3>1. next_step(t) = [duty[t] EXCEPT !.step = "publish"] /\ duty[t] \in Duty
      BY <1>0, <2>1 DEF next_step, DutiesRight
    <3> QED BY <2>1, <3>1 DEF Duty, Sensible
  <2>2. CASE duty[t].publish = Zero
    BY <1>1, <2>2 DEF next_step
  <2> QED BY <2>1, <2>2
<1>13. ASSUME NEW t \in Thread, insert(t) PROVE DutiesRight'
  <2>1. CASE duty' = [duty EXCEPT ![t].step = "transition"]
    <3>1. duty' = [duty EXCEPT ![t] = [duty[t] EXCEPT !.step = "transition"]]
      BY <2>1
    <3>2. duty[t] \in Duty /\ duty[t].hash # Zero
      BY <1>13 DEF insert, ElectionsTypeOK
    <3>3. Sensible([duty[t] EXCEPT !.step = "transition"])
      BY <3>2 DEF Duty, Sensible
    <3> QED BY <1>0, <3>1, <3>3, DutyTaken
  <2>2. CASE duty' = [duty EXCEPT ![t] = next_step(t)]
    BY <1>0, <1>12, <2>2, DutyTaken
  <2> QED BY <1>13, <2>1, <2>2 DEF insert
<1>14. ASSUME NEW t \in Thread, transition(t) PROVE DutiesRight'
  BY <1>0, <1>12, <1>14, DutyTaken DEF transition
<1>15. ASSUME NEW t \in Thread, publish(t) PROVE DutiesRight'
  <2>1. duty' = [duty EXCEPT ![t] = NoDuty]
    BY <1>15 DEF publish
  <2> QED BY <1>0, <1>1, <2>1, DutyTaken
<1>16. ASSUME NEW h, arrive(h) \/ alarm(h) PROVE UNCHANGED duty
  BY <1>16 DEF arrive, alarm
<1>17. ASSUME NEW h, block_already_cemented_callback(h) PROVE UNCHANGED duty
  BY <1>17 DEF block_already_cemented_callback
<1>18. ASSUME NEW h, notify_observers(h) PROVE UNCHANGED duty
  BY <1>18 DEF notify_observers
<1>19. ASSUME NEW r, request_confirm(r) PROVE UNCHANGED duty
  BY <1>19 DEF request_confirm
<1>20. ASSUME NEW r, activate_dependencies(r) PROVE DutiesRight'
  <2>1. PICK d \in activated(roots[r].winner) : duty' = [duty EXCEPT !["loop"] = d]
    BY <1>20 DEF activate_dependencies
  <2>2. PICK h \in committed : d = starts(h) \/ d = checks(h)
    BY <2>1, ActivatedThere
  <2>3. Sensible(d)
    BY <1>2, <1>4, <2>2
  <2> QED BY <1>0, <1>6, <2>1, <2>3, DutyTaken
<1>21. ASSUME NEW a, confirm_prioritized_frontiers(a) PROVE DutiesRight'
  <2>1. Sensible(checks(head(a)))
    BY <1>2, <1>5, <1>21 DEF confirm_prioritized_frontiers
  <2>2. duty' = [duty EXCEPT !["loop"] = checks(head(a))]
    BY <1>21 DEF confirm_prioritized_frontiers
  <2> QED BY <1>0, <1>6, <2>1, <2>2, DutyTaken
<1>22. CASE check_processing
  <2> DEFINE d == duty["loop"]
  <2>1. d \in Duty /\ d.hash # Zero
    BY <1>6, <1>22 DEF check_processing, ElectionsTypeOK
  <2>2. d.hash \in Hash
    BY <2>1 DEF Duty
  <2>3. \/ duty' = [duty EXCEPT !["loop"] = NoDuty]
        \/ duty' = [duty EXCEPT !["loop"] = starts(d.hash)]
    <3>1. CASE is_processing_block(d.hash)
      BY <1>22, <3>1 DEF check_processing
    <3>2. CASE ~is_processing_block(d.hash)
      BY <1>22, <3>2 DEF check_processing
    <3> QED BY <3>1, <3>2
  <2> HIDE DEF d
  <2> QED BY <1>0, <1>1, <1>2, <1>6, <2>2, <2>3, DutyTaken
<1>23. release_assert => UNCHANGED duty
  BY DEF release_assert
<1>24. confirm_block => UNCHANGED duty
  BY DEF confirm_block
<1>25. settle => UNCHANGED duty
  BY DEF settle
<1>26. CASE activate
  <2> DEFINE a == Head(activating.accounts)
  <2>1. \/ UNCHANGED duty
        \/ /\ uncemented(a) # {}
           /\ duty' = [duty EXCEPT !["observer"] = starts(first_unconfirmed(a))]
    BY <1>26 DEF activate
  <2> HIDE DEF a
  <2> QED BY <1>0, <1>2, <1>3, <1>5, <1>6, <2>1, DutyTaken
<1>27. UNCHANGED vars => UNCHANGED duty
  BY DEF vars
<1>28. CASE Elsewhere
  BY <1>3, <1>11, <1>13, <1>14, <1>15, <1>16, <1>17, <1>18, <1>19, <1>20, <1>21, <1>22,
     <1>23, <1>24, <1>25, <1>26, <1>27, <1>28 DEF Elsewhere
<1> QED BY <1>3, <1>7, <1>8, <1>9, <1>10, <1>28, StepKinds

(* The callbacks, announcements and reports.                                *)
CallbackRight ==
  /\ activating \in Callback
  /\ activating.step = "activate" => activating.accounts # << >>
  /\ announced \in [Hash -> {0, 1}] /\ reported \in [Hash -> Nat]

(* Every step keeps them in their types.                                    *)
LEMMA CallbackTyped ==
  ASSUME General, ElectionsTypeOK, ReportsRight, [Next]_vars
  PROVE  CallbackRight'
<1>0. CallbackRight
  BY DEF ElectionsTypeOK, CallbackRight
<1>1. CASE NoCallback /\ announced' = announced
  BY <1>0, <1>1 DEF NoCallback, CallbackRight
<1>2. CASE NoCallback /\ (Keeps \/ Changes \/ Stops)
  BY <1>1, <1>2 DEF Keeps, Changes, Stops, Elects, Recorded, Untold
<1>3. ASSUME NEW h \in Hash \ {Genesis}, alarm(h) \/ block_already_cemented_callback(h)
      PROVE  CallbackRight'
  BY <1>1, <1>3, AlarmFrame, AlreadyFrame
<1>4. ASSUME NEW h \in Hash \ {Genesis}, notify_observers(h) PROVE CallbackRight'
  <2>1. reported' = reported /\ announced' = [announced EXCEPT ![h] = 1]
    BY <1>4, NotifyFrame
  <2>2. activating' = [step |-> IF h \in waiting THEN "settle" ELSE "confirm", hash |-> h,
                       accounts |-> << >>]
    BY <1>4, NotifyFrame
  <2> QED BY SMTT(60), <1>0, <2>1, <2>2 DEF CallbackRight, Callback
<1>5. ASSUME NEW h \in Hash,
             activating' = [step |-> "activate", hash |-> Zero, accounts |-> activations(h)]
      PROVE  activating' \in Callback /\ activating'.accounts # << >>
  BY <1>5, AccountsListed DEF Callback
<1>6. Idle \in Callback /\ Idle.step = "none"
  BY SMTT(60) DEF Idle, Callback
<1>7. CASE confirm_block
  <2> DEFINE h == activating.hash
  <2>0. announced' = announced /\ h \in Hash
    BY <1>7, ConfirmFrame DEF ReportsRight
  <2>1. CASE /\ reported' = [reported EXCEPT ![h] = @ + 1]
             /\ activating' = [step |-> "activate", hash |-> Zero, accounts |-> activations(h)]
    BY SMTT(60), <1>0, <1>5, <2>0, <2>1 DEF CallbackRight
  <2>2. CASE activating' = [activating EXCEPT !.step = "settle"] /\ reported' = reported
    BY <1>0, <2>0, <2>2 DEF CallbackRight, Callback
  <2>3. CASE reported' = reported /\ activating' = Idle
    BY <1>0, <1>6, <2>0, <2>3 DEF CallbackRight
  <2> QED BY <1>7, <2>1, <2>2, <2>3, ConfirmFrame
<1>8. CASE settle
  <2> DEFINE h == activating.hash
  <2>1. /\ announced' = announced /\ h \in Hash
        /\ reported' = IF h \in election_winner_details
                       THEN [reported EXCEPT ![h] = @ + 1] ELSE reported
    BY <1>8, SettleFrame DEF ReportsRight
  <2>2. activating' = [step |-> "activate", hash |-> Zero, accounts |-> activations(h)]
    BY <1>8, SettleFrame
  <2> QED BY SMTT(60), <1>0, <1>5, <2>1, <2>2 DEF CallbackRight
<1>9. CASE activate
  <2>1. activating.step = "activate" /\ announced' = announced /\ reported' = reported
    BY <1>9, ActivateFrame DEF Keeps, Untold
  <2>2. activating' = IF Tail(activating.accounts) = << >> THEN Idle
                      ELSE [activating EXCEPT !.accounts = Tail(activating.accounts)]
    BY <1>9, ActivateFrame
  <2>3. activating.accounts \in Seq(Account) /\ activating.accounts # << >>
    BY <1>0, <2>1 DEF CallbackRight, Callback
  <2>4. Tail(activating.accounts) \in Seq(Account)
    BY SMTT(60), <2>3
  <2>5. CASE Tail(activating.accounts) = << >>
    BY <1>0, <1>6, <2>1, <2>2, <2>5 DEF CallbackRight
  <2>6. CASE Tail(activating.accounts) # << >>
    <3> DEFINE left == Tail(activating.accounts)
    <3>1. /\ activating' = [activating EXCEPT !.accounts = left]
          /\ left # << >> /\ left \in Seq(Account)
      BY <2>2, <2>4, <2>6
    <3> HIDE DEF left
    <3>2. activating' \in Callback /\ activating'.accounts # << >>
      <4>1. /\ activating.step \in {"none", "confirm", "settle", "activate"}
            /\ activating.hash \in Hash \cup {Zero}
            /\ activating = [step |-> activating.step, hash |-> activating.hash,
                             accounts |-> activating.accounts]
        BY <1>0 DEF CallbackRight, Callback
      <4>2. activating' = [step |-> activating.step, hash |-> activating.hash, accounts |-> left]
        BY <3>1, <4>1
      <4> QED BY <3>1, <4>1, <4>2 DEF Callback
    <3> QED BY <1>0, <2>1, <3>2 DEF CallbackRight
  <2> QED BY <2>5, <2>6
<1>10. CASE Told
  BY <1>3, <1>4, <1>7, <1>8, <1>9, <1>10 DEF Told
<1> QED BY <1>2, <1>10, StepParts

(* Every step keeps the types.                                              *)
LEMMA TypeKept ==
  ASSUME General, ElectionsTypeOK, LedgerSound, ReportsRight, [Next]_vars
  PROVE  ElectionsTypeOK'
<1>1. RootsRight' /\ DutiesRight' /\ CallbackRight'
  BY RootsKept, DutiesTyped, CallbackTyped
<1>2. blocks' \in Seq(Hash) /\ forced' \in Seq(Hash) /\ post_events' \in Seq(Hash)
  BY QueuesTyped
<1> QED BY <1>1, <1>2
        DEF ElectionsTypeOK, RootsRight, DutiesRight, Sensible, CallbackRight

(* What is not cemented is not reported.                                    *)
LEMMA Unreported ==
  ASSUME ElectionsTypeOK, LedgerSound, ReportsRight, NEW h \in Hash, ~can_vote(h)
  PROVE  \E d \in dependencies(h) : d # Genesis /\ reported[d] = 0
<1>1. PICK d \in dependencies(h) : d \notin cemented
  BY DEF can_vote
<1>2. d \in Hash
  BY DependenciesOlder
<1>3. announced[d] \in {0, 1} /\ reported[d] \in Nat
  BY <1>2 DEF ElectionsTypeOK
<1>4. ~(announced[d] > 0) /\ reported[d] <= announced[d] /\ d # Genesis
  BY <1>1, <1>2 DEF ReportsRight, LedgerSound
<1>5. reported[d] = 0
  BY SMTT(60), <1>3, <1>4
<1> QED BY <1>4, <1>5

(* The steps that leave those who see to blocks alone.                      *)
Passive ==
  /\ UNCHANGED <<elected, reported, activating>>
  /\ \A t \in {"processor", "observer"} : duty'[t] = duty[t]

(* They go on seeing to a block.                                            *)
LEMMA PassiveSeen ==
  ASSUME Passive, UNCHANGED post_events, NEW h, seen_to(h)
  PROVE  seen_to(h)'
<1>1. \A a : Among(a, activating.accounts) => Among(a, activating.accounts)'
  BY DEF Passive, Among
<1>2. Among(h, post_events) => Among(h, post_events)'
  BY DEF Among
<1> QED BY <1>1, <1>2 DEF seen_to, Passive

(* So nothing is missed, though blocks are cemented or committed.           *)
LEMMA PassiveMissed ==
  ASSUME NothingMissed, Passive, UNCHANGED <<post_events, stored>>, cemented \subseteq cemented',
         committed \subseteq committed' \/ committed' = stored
  PROVE  NothingMissed'
<1>1. \A h : seen_to(h) => seen_to(h)'
  BY PassiveSeen
<1>2. \A h : Among(h, post_events) => Among(h, post_events)'
  BY DEF Among
<1> QED BY <1>1, <1>2 DEF NothingMissed

(* Which of the steps elsewhere are not passive.                            *)
LEMMA PassiveSteps ==
  ASSUME ElectionsTypeOK, Elsewhere
  PROVE  \/ Passive
         \/ \E t \in Thread : insert(t) \/ transition(t) \/ publish(t)
         \/ \E h \in Hash \ {Genesis} : notify_observers(h)
         \/ confirm_block \/ settle \/ activate
<1> USE DEF Passive, history_vars
<1>1. ASSUME NEW p, NEW v, NEW c, vote(p, v, c) PROVE Passive
  BY <1>1 DEF vote
<1>2. ASSUME NEW h, arrive(h) \/ alarm(h) PROVE Passive
  BY <1>2 DEF arrive, alarm
<1>3. ASSUME NEW h, block_already_cemented_callback(h) PROVE Passive
  BY <1>3 DEF block_already_cemented_callback
<1>4. ASSUME NEW r, request_confirm(r) PROVE Passive
  BY <1>4 DEF request_confirm
<1>5. ASSUME NEW d, duty' = [duty EXCEPT !["loop"] = d]
      PROVE  \A t \in {"processor", "observer"} : duty'[t] = duty[t]
  BY <1>5 DEF ElectionsTypeOK, Thread
<1>6. ASSUME NEW r, activate_dependencies(r) PROVE Passive
  <2>1. \E d : duty' = [duty EXCEPT !["loop"] = d]
    BY <1>6 DEF activate_dependencies
  <2> QED BY <1>5, <1>6, <2>1 DEF activate_dependencies
<1>7. ASSUME NEW a, confirm_prioritized_frontiers(a) PROVE Passive
  <2>1. \E d : duty' = [duty EXCEPT !["loop"] = d]
    BY <1>7 DEF confirm_prioritized_frontiers
  <2> QED BY <1>5, <1>7, <2>1 DEF confirm_prioritized_frontiers
<1>8. CASE check_processing
  <2>1. \E d : duty' = [duty EXCEPT !["loop"] = d]
    BY <1>8 DEF check_processing
  <2> QED BY <1>5, <1>8, <2>1 DEF check_processing
<1>9. CASE release_assert
  BY <1>9 DEF release_assert
<1>10. CASE UNCHANGED vars
  BY <1>10 DEF vars
<1> QED BY <1>1, <1>2, <1>3, <1>4, <1>6, <1>7, <1>8, <1>9, <1>10 DEF Elsewhere

(* The block processor's own steps.                                         *)
LEMMA ProcessMissed ==
  ASSUME General, ElectionsTypeOK, LedgerSound, NothingMissed, process_block
  PROVE  NothingMissed'
<1>1. process_one /\ duty["processor"] = NoDuty /\ elected' = elected \ rolled_back
      /\ UNCHANGED <<activating, reported>>
  BY DEF process_block, free
<1>2. duty'["observer"] = duty["observer"]
  <2>1. outcome # "fork" => duty' = duty
    BY DEF process_block
  <2>2. outcome = "fork" => \E d : duty' = [duty EXCEPT !["processor"] = d]
    BY DEF process_block
  <2> QED BY <2>1, <2>2 DEF ElectionsTypeOK, Thread
<1>3. duty["processor"].step = "none"
  BY SMTT(60), <1>1 DEF NoDuty
<1>4. /\ stored' = (stored \ rolled_back) \cup (IF outcome = "progress" THEN {taken} ELSE {})
      /\ \A h \in Hash : Among(h, post_events) => Among(h, post_events')
      /\ outcome = "progress" /\ taken \in Live => Among(taken, post_events')
      /\ stored \subseteq Hash /\ taken \in Hash
  BY <1>1, Processed, QueueKept DEF LedgerSound, Closed
<1>5. cemented' = cemented /\ committed' = committed
  BY <1>1 DEF process_one
<1>6. \A a : Among(a, activating.accounts) => Among(a, activating'.accounts)
  BY <1>1 DEF Among
<1>7. ASSUME NEW h \in (stored \ rolled_back) \ {taken}, seen_to(h) PROVE seen_to(h)'
  BY <1>1, <1>2, <1>3, <1>4, <1>6, <1>7 DEF seen_to
<1>8. ASSUME NEW h \in stored', h \in Live, h \notin cemented PROVE seen_to(h)'
  <2>1. CASE h \in (stored \ rolled_back) \ {taken}
    BY <1>7, <1>8, <2>1 DEF NothingMissed
  <2>2. CASE outcome = "progress" /\ h = taken
    BY <1>4, <1>8, <2>2 DEF seen_to
  <2>3. CASE h = taken /\ h \in stored \ rolled_back /\ outcome # "progress"
    <3>1. seen_to(h)
      BY <1>8, <2>3 DEF NothingMissed
    <3> QED BY <1>1, <1>2, <1>3, <1>4, <1>6, <2>3, <3>1 DEF seen_to
  <2> QED BY <1>4, <1>8, <2>1, <2>2, <2>3
<1>9. ASSUME NEW h \in stored', h \in Live, h \notin committed PROVE Among(h, post_events')
  BY <1>4, <1>9 DEF NothingMissed
<1> QED BY <1>5, <1>8, <1>9 DEF NothingMissed

(* process_live starts the election, unless the block is to wait.           *)
LEMMA LiveMissed ==
  ASSUME ElectionsTypeOK, LedgerSound, ReportsRight, NothingMissed, live_block
  PROVE  NothingMissed'
<1>0. PICK k : k = Head(post_events)
  OBVIOUS
<1>1. /\ duty["processor"] = NoDuty /\ batch = "post" /\ post_events # << >>
      /\ post_events' = Tail(post_events)
      /\ UNCHANGED <<stored, committed, cemented, elected, reported, activating>>
  BY DEF live_block, process_live, free, ledger_vars, history_vars
<1>2. k \in Hash /\ post_events \in Seq(Hash)
  BY SMTT(60), <1>0, <1>1 DEF ElectionsTypeOK
<1>3. stored = committed
  BY <1>1 DEF LedgerSound
<1>4. duty["processor"].step = "none"
  BY SMTT(60), <1>1 DEF NoDuty
<1>5. \A h : Among(h, post_events) => h = k \/ Among(h, post_events')
  <2> SUFFICES ASSUME NEW h, NEW i \in 1 .. Len(post_events), post_events[i] = h, h # k
               PROVE  Among(h, post_events')
    BY DEF Among
  <2>1. i - 1 \in 1 .. Len(post_events') /\ post_events'[i - 1] = h
    BY SMTT(60), <1>0, <1>1, <1>2
  <2> QED BY <2>1 DEF Among
<1>6. \A a : Among(a, activating.accounts) => Among(a, activating'.accounts)
  BY <1>1 DEF Among
<1>7. duty'["observer"] = duty["observer"]
  BY DEF live_block, ElectionsTypeOK, Thread
<1>8. can_vote(k) => duty'["processor"].step = "insert" /\ duty'["processor"].hash = k
  <2>1. can_vote(k) => duty' = [duty EXCEPT !["processor"] = starts(k)]
    BY <1>0 DEF live_block
  <2>2. starts(k) = [step |-> "insert", hash |-> k, publish |-> Zero]
    BY Starting
  <2> QED BY SMTT(60), <2>1, <2>2 DEF ElectionsTypeOK, Thread
<1>9. ~can_vote(k) => \E d \in dependencies(k) : d # Genesis /\ reported[d] = 0
  BY <1>2, Unreported
<1>10. seen_to(k)'
  BY <1>1, <1>8, <1>9 DEF seen_to
<1>11. ASSUME NEW h, seen_to(h), h # k PROVE seen_to(h)'
  BY <1>1, <1>4, <1>5, <1>6, <1>7, <1>11 DEF seen_to
<1> QED BY <1>1, <1>3, <1>10, <1>11 DEF NothingMissed

(* Threads that hold an election.                                           *)
LEMMA ThreadMissed ==
  ASSUME ElectionsTypeOK, NothingMissed, NEW t \in Thread, insert(t) \/ transition(t) \/ publish(t),
         UNCHANGED <<stored, committed, cemented, batch, post_events, unchecked>>
  PROVE  NothingMissed'
<1>1. UNCHANGED <<activating, reported>> /\ elected \subseteq elected'
      /\ (duty[t].step = "insert" => duty[t].hash \in elected')
  <2>1. CASE insert(t)
    BY <2>1 DEF insert
  <2>2. CASE transition(t)
    BY <2>2 DEF transition, history_vars
  <2>3. CASE publish(t)
    <3>1. UNCHANGED <<activating, history_vars>> /\ duty[t].step = "publish"
      BY <2>3 DEF publish
    <3> QED BY <3>1 DEF history_vars
  <2> QED BY <2>1, <2>2, <2>3
<1>2. \A u \in Thread \ {t} : duty'[u] = duty[u]
  <2>1. \/ \E d : duty' = [duty EXCEPT ![t] = d]
        \/ duty' = [duty EXCEPT ![t].step = "transition"]
    BY DEF insert, transition, publish
  <2> QED BY <2>1 DEF ElectionsTypeOK
<1>3. \A a : Among(a, activating.accounts) => Among(a, activating'.accounts)
  BY <1>1 DEF Among
<1>4. \A h : Among(h, post_events) => Among(h, post_events')
  BY DEF Among
<1>5. {"processor", "observer"} \subseteq Thread
  BY DEF Thread
<1>6. \A h : seen_to(h) => seen_to(h)'
  BY <1>1, <1>2, <1>3, <1>4, <1>5 DEF seen_to
<1> QED BY <1>4, <1>6 DEF NothingMissed

(* A report hands the block on to the account's activation.                 *)
LEMMA ReportMissed ==
  ASSUME General, ElectionsTypeOK, LedgerSound, NothingMissed, NEW k \in Hash, activating.step # "activate",
         UNCHANGED <<stored, committed, cemented, batch, post_events, duty, elected>>,
         \A d \in Hash \ {k} : reported'[d] = reported[d],
         \/ activating' = [step |-> "activate", hash |-> Zero, accounts |-> activations(k)]
         \/ reported' = reported
  PROVE  NothingMissed'
<1>1. \A h : Among(h, post_events) => Among(h, post_events')
  BY DEF Among
<1>2. ASSUME NEW h \in Hash, ~foreign(h), seen_to(h) PROVE seen_to(h)'
  <2>1. CASE \E d \in dependencies(h) : d # Genesis /\ reported[d] = 0
    <3>1. PICK d \in dependencies(h) : d # Genesis /\ reported[d] = 0
      BY <2>1
    <3>2. d \in Hash
      BY DependenciesOlder
    <3>3. CASE reported'[d] = 0
      BY <3>1, <3>3 DEF seen_to
    <3>4. CASE reported'[d] # 0
      <4>1. d = k /\ activating' = [step |-> "activate", hash |-> Zero, accounts |-> activations(k)]
        BY <3>1, <3>2, <3>4
      <4>2. Among(Block[h].account, activations(k))
        BY <1>2, <3>1, <4>1, AccountsListed
      <4>3. activating'.step = "activate" /\ activating'.accounts = activations(k)
        BY <4>1
      <4> QED BY <4>2, <4>3 DEF seen_to
    <3> QED BY <3>3, <3>4
  <2>2. CASE ~\E d \in dependencies(h) : d # Genesis /\ reported[d] = 0
    BY <1>1, <1>2, <2>2 DEF seen_to
  <2> QED BY <2>1, <2>2
<1>3. stored \subseteq Hash /\ \A h \in stored : ~foreign(h)
  BY DEF LedgerSound, Closed
<1> QED BY <1>1, <1>2, <1>3 DEF NothingMissed

(* An activation looks at every block of its account that may be voted on.  *)
LEMMA ActivateMissed ==
  ASSUME General, ElectionsTypeOK, LedgerSound, ReportsRight, NothingMissed, activate,
         UNCHANGED <<stored, committed, cemented, batch, post_events, unchecked>>
  PROVE  NothingMissed'
<1> DEFINE a == Head(activating.accounts)
           left == Tail(activating.accounts)
<1>1. /\ duty["observer"] = NoDuty /\ UNCHANGED <<elected, reported>>
      /\ activating.step = "activate"
      /\ activating' = IF left = << >> THEN Idle ELSE [activating EXCEPT !.accounts = left]
      /\ duty' = IF uncemented(a) # {} /\ can_vote(first_unconfirmed(a))
                 THEN [duty EXCEPT !["observer"] = starts(first_unconfirmed(a))] ELSE duty
  BY DEF activate, free, history_vars
<1>2. activating.accounts \in Seq(Account) /\ activating.accounts # << >>
  BY <1>1 DEF ElectionsTypeOK, Callback
<1>3. \A b : Among(b, activating.accounts) => b = a \/ Among(b, left)
  <2> SUFFICES ASSUME NEW b, NEW i \in 1 .. Len(activating.accounts),
                      activating.accounts[i] = b, b # a
               PROVE  Among(b, left)
    BY DEF Among
  <2>1. i - 1 \in 1 .. Len(left) /\ left[i - 1] = b
    BY SMTT(60), <1>2
  <2> QED BY <2>1 DEF Among
<1>4. \A b : Among(b, left) => activating'.step = "activate" /\ Among(b, activating'.accounts)
  <2> SUFFICES ASSUME NEW b, Among(b, left)
               PROVE  activating'.step = "activate" /\ activating'.accounts = left
    OBVIOUS
  <2>1. left # << >>
    <3>1. PICK i \in 1 .. Len(left) : left[i] = b
      BY DEF Among
    <3>2. left \in Seq(Account)
      BY SMTT(60), <1>2
    <3> HIDE DEF left
    <3> QED BY SMTT(60), <3>1, <3>2
  <2> QED BY <1>1, <2>1 DEF ElectionsTypeOK, Callback
<1>5. duty["observer"].step = "none"
  BY SMTT(60), <1>1 DEF NoDuty
<1>6. duty'["processor"] = duty["processor"]
  BY <1>1 DEF ElectionsTypeOK, Thread
<1>7. \A h : Among(h, post_events) => Among(h, post_events')
  BY DEF Among
<1> HIDE DEF left, a
<1>8. ASSUME NEW h \in stored, h \in Live, h \notin cemented, Block[h].account = a PROVE seen_to(h)'
  <2>1. h \in Hash
    BY DEF LedgerSound, Closed
  <2>2. CASE h \notin committed
    BY <1>7, <1>8, <2>2 DEF NothingMissed, seen_to
  <2>3. CASE ~can_vote(h)
    BY <1>1, <2>1, <2>3, Unreported DEF seen_to
  <2>4. CASE h \in committed /\ can_vote(h)
    <3>1. h \in uncemented(a) /\ first_unconfirmed(a) = h
      <4>1. /\ Closed(committed) /\ Rivalless(committed) /\ cemented \subseteq committed
            /\ Closed(cemented) /\ dependencies(h) \subseteq cemented
        BY <2>4 DEF LedgerSound, can_vote
      <4> QED BY <1>8, <2>4, <4>1, FirstFound
    <3>2. duty' = [duty EXCEPT !["observer"] = starts(h)]
      BY <1>1, <2>4, <3>1
    <3>3. starts(h) = [step |-> "insert", hash |-> h, publish |-> Zero]
      BY Starting
    <3>4. duty'["observer"].step = "insert" /\ duty'["observer"].hash = h
      BY SMTT(60), <3>2, <3>3 DEF ElectionsTypeOK, Thread
    <3> QED BY <3>4 DEF seen_to
  <2> QED BY <2>2, <2>3, <2>4
<1>9. ASSUME NEW h, seen_to(h), Block[h].account # a PROVE seen_to(h)'
  BY <1>1, <1>3, <1>4, <1>5, <1>6, <1>7, <1>9 DEF seen_to
<1> QED BY <1>7, <1>8, <1>9 DEF NothingMissed

(* The ledger, the events and the unchecked table stay.                    *)
LedgerUnmoved == UNCHANGED <<stored, committed, cemented, batch, post_events, unchecked>>
(* No step loses sight of a live block.                                     *)
LEMMA MissedKept ==
  ASSUME General, ElectionsTypeOK, LedgerSound, WinnersRight, ReportsRight, NothingMissed, [Next]_vars
  PROVE  NothingMissed'
<1>1. ASSUME UNCHANGED <<active_vars, winner_vars, duty, activating, cementer_vars, history_vars>>
      PROVE  Passive
  BY <1>1 DEF Passive, history_vars
<1>2. CASE /\ process_batch \/ commit \/ end_batch
           /\ UNCHANGED <<active_vars, winner_vars, duty, activating, cementer_vars, history_vars>>
  <2>1. /\ UNCHANGED <<post_events, stored, cemented>>
        /\ committed' = committed \/ committed' = stored
    BY <1>2 DEF process_batch, commit, end_batch, ledger_vars
  <2> QED BY <1>1, <1>2, <2>1, PassiveMissed
<1>3. ASSUME NEW S, cement(S) PROVE NothingMissed'
  <2>1. /\ UNCHANGED <<post_events, stored, committed>> /\ cemented \subseteq cemented' /\ Passive
    BY <1>3 DEF cement, Processor!CementRequested, Processor!Cement, queue_vars, Passive,
                history_vars
  <2> QED BY <2>1, PassiveMissed
<1>4. ASSUME NEW h \in Hash \ {Genesis}, notify_observers(h), LedgerUnmoved PROVE NothingMissed'
  <2>1. /\ reported' = reported /\ activating = Idle
    BY <1>4, NotifyFrame
  <2>2. UNCHANGED <<duty, elected>>
    BY <1>4 DEF notify_observers, history_vars
  <2>3. activating.step # "activate"
    BY <2>1 DEF Idle
  <2> QED BY <1>4, <2>1, <2>2, <2>3, ReportMissed DEF LedgerUnmoved
<1>5. ASSUME confirm_block, LedgerUnmoved PROVE NothingMissed'
  <2> DEFINE h == activating.hash
  <2>1. activating.step = "confirm" /\ h \in Hash
    BY <1>5, ConfirmFrame DEF ReportsRight
  <2>2. UNCHANGED <<duty, elected>>
    BY <1>5 DEF confirm_block
  <2>3. CASE reported' = reported
    BY <1>5, <2>1, <2>2, <2>3, ReportMissed DEF LedgerUnmoved
  <2>4. CASE /\ reported' = [reported EXCEPT ![h] = @ + 1]
             /\ activating' = [step |-> "activate", hash |-> Zero, accounts |-> activations(h)]
    <3>1. \A d \in Hash \ {h} : reported'[d] = reported[d]
      BY <2>4 DEF ElectionsTypeOK
    <3> QED BY <1>5, <2>1, <2>2, <2>4, <3>1, ReportMissed DEF LedgerUnmoved
  <2> QED BY <1>5, <2>3, <2>4, ConfirmFrame
<1>6. ASSUME settle, LedgerUnmoved PROVE NothingMissed'
  <2> DEFINE h == activating.hash
  <2>1. activating.step = "settle" /\ h \in Hash /\ UNCHANGED <<duty, elected>>
    BY <1>6, SettleFrame DEF ReportsRight
  <2>2. /\ reported' = IF h \in election_winner_details
                       THEN [reported EXCEPT ![h] = @ + 1] ELSE reported
        /\ activating' = [step |-> "activate", hash |-> Zero, accounts |-> activations(h)]
    BY <1>6, SettleFrame
  <2>3. \A d \in Hash \ {h} : reported'[d] = reported[d]
    BY <2>2 DEF ElectionsTypeOK
  <2> QED BY <1>6, <2>1, <2>2, <2>3, ReportMissed DEF LedgerUnmoved
<1>7. CASE Elsewhere
  <2>1. LedgerUnmoved
    BY <1>7, LedgerUntouched DEF LedgerUnmoved
  <2>2. CASE Passive
    BY <2>1, <2>2, PassiveMissed DEF LedgerUnmoved
  <2>3. ASSUME NEW t \in Thread, insert(t) \/ transition(t) \/ publish(t) PROVE NothingMissed'
    BY <2>1, <2>3, ThreadMissed DEF LedgerUnmoved
  <2>4. CASE activate
    BY <2>1, <2>4, ActivateMissed DEF LedgerUnmoved
  <2> QED BY <1>4, <1>5, <1>6, <1>7, <2>1, <2>2, <2>3, <2>4, PassiveSteps
<1> QED BY <1>2, <1>3, <1>7, ProcessMissed, LiveMissed, StepKinds

-----------------------------------------------------------------------------
(* The invariant holds at the start and after every step.                   *)
LEMMA ElectionsInit == Init => ElectionsInv
<1> SUFFICES ASSUME Init PROVE ElectionsInv
  OBVIOUS
<1>0. duty = [t \in Thread |-> NoDuty] /\ activating = Idle /\ roots = << >>
  BY DEF Init, observers_done
<1>1. NoDuty \in Duty /\ NoDuty.step = "none" /\ Idle \in Callback /\ Idle.step = "none"
  <2>1. NoDuty \in Duty /\ NoDuty.step = "none"
    BY DEF NoDuty, Duty
  <2>2. Idle \in Callback /\ Idle.step = "none"
    BY SMTT(60) DEF Idle, Callback
  <2> QED BY <2>1, <2>2
<1>2. DOMAIN roots = {} /\ roots = [r \in {} |-> roots[r]]
  BY SMTT(60), <1>0
<1>3. blocks = << >> /\ forced = << >> /\ post_events = << >>
  BY DEF Init, BlockProcessorInit
<1>4. announced = [h \in Hash |-> 0] /\ reported = [h \in Hash |-> 0]
  BY DEF Init
<1>5. ElectionsTypeOK
  <2>1. roots \in [DOMAIN roots -> Election]
    BY <1>2
  <2>2. duty \in [Thread -> Duty] /\ \A t \in Thread : duty[t].step = "none"
    BY <1>0, <1>1
  <2>3. activating \in Callback /\ activating.step = "none"
    BY <1>0, <1>1
  <2> QED BY SMTT(60), <1>2, <1>3, <1>4, <2>1, <2>2, <2>3 DEF ElectionsTypeOK
<1>6. WinnersRight
  BY <1>0, <1>1, <1>2 DEF Init, WinnersRight
<1>7. ReportsRight
  BY SMTT(60), <1>0, <1>1, <1>4 DEF ReportsRight
<1>8. NothingMissed
  BY DEF Init, BlockProcessorInit, NothingMissed
<1> QED BY <1>5, <1>6, <1>7, <1>8, SoundInit DEF ElectionsInv

(* Every step keeps the invariant.                                          *)
LEMMA ElectionsStep ==
  ASSUME General
  PROVE  ElectionsInv /\ [Next]_vars => ElectionsInv'
  BY TypeKept, SoundKept, WinnersKept, ReportsKept, MissedKept DEF ElectionsInv

(* No ledger takes a block on another account's, or a first block that      *)
(* receives nothing.                                                        *)
LEMMA MisplacedNeverTaken ==
  ASSUME NEW h, foreign(h) \/ sourceless(h)
  PROVE  never_taken(h)
<1> SUFFICES ASSUME NEW ledger \in SUBSET Hash PROVE result(h, ledger) # "progress"
  BY DEF never_taken
<1> QED BY DEF result

(* A block of the unchecked table waits for what the ledger lacks, at every *)
(* step: process_one removes those that waited for the block it adds.       *)
LEMMA StrandedKept == NoBlockStranded /\ [Next]_vars => NoBlockStranded'
<1> SUFFICES ASSUME NoBlockStranded, [Next]_vars PROVE NoBlockStranded'
  OBVIOUS
<1>1. CASE process_block
  <2> DEFINE L == stored \ rolled_back
  <2>1. /\ stored' = L \cup (IF outcome = "progress" THEN {taken} ELSE {})
        /\ unchecked' =
             CASE outcome = "progress" -> {u \in unchecked : u[1] # taken}
               [] outcome \in {"gap_previous", "gap_source"} ->
                    unchecked \cup {<<missing(taken, outcome), taken>>}
               [] OTHER -> unchecked
    BY <1>1 DEF process_block, process_one
  <2>2. outcome = result(taken, L)
    BY DEF outcome
  <2> HIDE DEF L
  <2>3. outcome = "gap_previous" => \/ Block[taken].previous \in dependencies(taken) \ L
                                    \/ foreign(taken)
    BY <2>2 DEF result, dependencies
  <2>4. outcome = "gap_source" => \/ Block[taken].source \in dependencies(taken) \ L
                                  \/ sourceless(taken)
    BY <2>2 DEF result, dependencies, sourceless
  <2>5. L \subseteq stored
    BY DEF L
  <2>6. CASE outcome = "progress"
    BY <2>1, <2>5, <2>6 DEF NoBlockStranded
  <2>7. CASE outcome \in {"gap_previous", "gap_source"}
    <3>1. missing(taken, outcome) \in dependencies(taken) \ L \/ never_taken(taken)
      BY <2>3, <2>4, <2>7, MisplacedNeverTaken DEF missing
    <3>2. unchecked' = unchecked \cup {<<missing(taken, outcome), taken>>} /\ stored' = L
      BY <2>1, <2>7
    <3> QED BY SMTT(60), <2>5, <3>1, <3>2 DEF NoBlockStranded
  <2>8. CASE outcome \notin {"progress", "gap_previous", "gap_source"}
    BY <2>1, <2>5, <2>8 DEF NoBlockStranded
  <2> QED BY <2>6, <2>7, <2>8
<1>2. CASE UNCHANGED <<stored, unchecked>>
  BY <1>2 DEF NoBlockStranded
<1>3. live_block => UNCHANGED <<stored, unchecked>>
  BY DEF live_block, process_live, ledger_vars
<1>4. process_batch \/ commit \/ end_batch => UNCHANGED <<stored, unchecked>>
  BY DEF process_batch, commit, end_batch, ledger_vars
<1>5. ASSUME NEW S, cement(S) PROVE UNCHANGED <<stored, unchecked>>
  BY <1>5 DEF cement, queue_vars
<1>6. Elsewhere => UNCHANGED <<stored, unchecked>>
  BY LedgerUntouched
<1> QED BY <1>1, <1>2, <1>3, <1>4, <1>5, <1>6, StepKinds

(* No block is stranded in the unchecked table, in whatever order blocks    *)
(* arrive, are forced and are rolled back.                                  *)
THEOREM NeverStranded == Spec => []NoBlockStranded
<1>1. Init => NoBlockStranded
  BY DEF Init, BlockProcessorInit, NoBlockStranded
<1> QED BY <1>1, StrandedKept, PTL DEF Spec

(* The invariant gives the winners their owners.                            *)
LEMMA OwnedByInvariant == ElectionsInv => WinnersOwned
  BY DEF ElectionsInv, WinnersRight, WinnersOwned, has_election, active

(* It accounts for every report.                                            *)
LEMMA ReportedByInvariant == ElectionsInv => CementedReported
  BY DEF ElectionsInv, ReportsRight, CementedReported

(* Nothing is among no events.                                              *)
LEMMA EmptyHasNone == ASSUME NEW x, NEW q, Len(q) = 0 PROVE ~Among(x, q)
  BY SMTT(60) DEF Among

(* When the threads are done, nobody but the election itself is left to see *)
(* to a block.                                                              *)
LEMMA ActivatedByInvariant == ElectionsInv => NoMissedActivation
<1> SUFFICES ASSUME ElectionsInv, observers_done, batch = "idle", free("processor"),
                    NEW h \in committed, h \notin cemented, h \in Live,
                    \A d \in dependencies(h) : d = Genesis \/ reported[d] > 0
             PROVE  h \in elected
  BY DEF NoMissedActivation
<1>1. stored = committed /\ post_events = << >>
  BY DEF ElectionsInv, LedgerSound
<1>2. Len(post_events) = 0
  BY <1>1
<1>3. seen_to(h)
  BY <1>1 DEF ElectionsInv, NothingMissed
<1>4. ~Among(h, post_events)
  BY <1>2, EmptyHasNone
<1>5. /\ activating.step = "none"
      /\ duty["processor"].step = "none" /\ duty["observer"].step = "none"
  BY SMTT(60) DEF observers_done, free, NoDuty, Idle
<1>6. \A d \in dependencies(h) : d = Genesis \/ reported[d] # 0
  BY SMTT(60)
<1> QED BY <1>3, <1>4, <1>5, <1>6 DEF seen_to

-----------------------------------------------------------------------------
Proved == INSTANCE Sums

(* What the lemmas assume holds.                                            *)
LEMMA GeneralHolds == General
<1>1. CountLaws
  BY Proved!CountLawsHold
     DEF CountLaws, Proved!CountLaws, IsFiniteSet, Proved!IsFiniteSet,
         Cardinality, Proved!Cardinality
<1>2. ListLaw
  BY Proved!ListLawHolds
     DEF ListLaw, Proved!ListLaw, IsFiniteSet, Proved!IsFiniteSet, Cardinality,
         Proved!Cardinality, Bijection, Proved!Bijection, Injection, Proved!Injection,
         Surjection, Proved!Surjection, IsInjective, Proved!IsInjective
<1>3. RankLaw
  BY Proved!RankLawHolds DEF RankLaw, Proved!RankLaw
<1>4. RecursionLaw
  BY Proved!RecursionLawHolds
     DEF RecursionLaw, Proved!RecursionLaw, LooksBack, Proved!LooksBack,
         Recurses, Proved!Recurses
<1> QED BY <1>1, <1>2, <1>3, <1>4 DEF General

(* The invariant holds always.                                              *)
THEOREM ElectionsInvariant == Spec => []ElectionsInv
<1>1. ElectionsInv /\ [Next]_vars => ElectionsInv'
  BY GeneralHolds, ElectionsStep
<1> QED BY <1>1, ElectionsInit, PTL DEF Spec

(* Every winner on record has somebody who will remove it, and the assert   *)
(* of confirm_block holds.                                                  *)
THEOREM WinnersAlwaysOwned == Spec => []WinnersOwned
BY OwnedByInvariant, ElectionsInvariant, PTL

(* The observers hear of a cemented block once.                             *)
THEOREM CementedAlwaysReported == Spec => []CementedReported
BY ReportedByInvariant, ElectionsInvariant, PTL

(* A confirmed election keeps its winner until it ends.                     *)
THEOREM ConfirmedForever == Spec => ConfirmedStays
<1> DEFINE Stay == \A r \in DOMAIN roots \cap DOMAIN roots' :
                     roots[r].state = "confirmed" =>
                       roots'[r].state = "confirmed" /\ roots'[r].winner = roots[r].winner
<1>1. ElectionsInv /\ [Next]_vars => [Stay]_vars
  BY ConfirmedKept DEF ElectionsInv
<1> QED BY <1>1, ElectionsInvariant, PTL DEF Spec, ConfirmedStays

(* No activation is missed: whether a block's last dependency is cemented   *)
(* before or after the block is committed, somebody proposes it.            *)
THEOREM ActivationsNeverMissed == Spec => []NoMissedActivation
BY ActivatedByInvariant, ElectionsInvariant, PTL

=============================================================================
