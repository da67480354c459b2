--------------------- MODULE GraphqlWalk_chains_proofs ---------------------
(***************************************************************************)
(* Theorems of GraphqlWalk, for every document and every walk: what the    *)
(* walks of max_depth_document and compute_cost end with is what the       *)
(* chains of the fully expanded document come to, and so what a health     *)
(* probe costs; and the walks reach each chain at most once.               *)
(*                                                                         *)
(* The invariant says of each frame on the call stack which chains it has  *)
(* taken the value of so far, those that go on from its path to a          *)
(* selection it is done with, and that its accumulator is worth them: the  *)
(* most selections by which one of them goes on, or the sum of their costs *)
(* as the path has them still to be multiplied by the factor, for each of  *)
(* its powers.  A frame that is done is worth all the chains under its     *)
(* path, so the frame below can take its value.  The chains taken, and     *)
(* those the frames are for, are the ones reached.                         *)
(***************************************************************************)
EXTENDS GraphqlWalk_proofs, FiniteSetTheorems, WellFoundedInduction, NaturalsInduction

-----------------------------------------------------------------------------
(***************************************************************************)
(* Induction, repetition, and sums over finite sets, from what the library *)
(* proves of well-founded relations and of cardinality.                    *)
(***************************************************************************)

(* Induction on the naturals, on a set of them.                            *)
LEMMA EveryNatural ==
    ASSUME NEW S, 0 \in S, \A n \in Nat : n \in S => n + 1 \in S
    PROVE  Nat \subseteq S
<1> DEFINE R == OpToRel(<, Nat)
<1> SUFFICES ASSUME Nat \ S # {} PROVE FALSE
  OBVIOUS
<1>1. IsWellFoundedOn(R, Nat)
  BY NatLessThanWellFounded
<1>2. PICK m \in Nat \ S : \A y \in Nat \ S : ~(<<y, m>> \in R)
  BY <1>1, WFMin, Nat \ S \subseteq Nat
<1> HIDE DEF R
<1>3. m \in Nat /\ m \notin S /\ m # 0
  OBVIOUS
<1>4. PICK k \in Nat : m = k + 1 /\ k < m
  BY <1>3
<1>5. k \in S
  BY <1>2, <1>4 DEF OpToRel, R
<1> QED
  BY <1>3, <1>4, <1>5

(* From d, the steps F[0], F[1], ... one after another.                    *)
Repeats(g, D, d, F, n) ==
    g \in [0..n -> D] /\ g[0] = d /\ \A i \in 0..n - 1 : g[i + 1] = F[i][g[i]]

(* Steps can be repeated, however often.                                   *)
LEMMA Repeated ==
    ASSUME NEW D, NEW d \in D, NEW F \in [Nat -> [D -> D]], NEW n \in Nat
    PROVE  \E g : Repeats(g, D, d, F, n)
<1> DEFINE Does(g, m) == g[0] = d /\ \A i \in Nat : i < m => g[i + 1] = F[i][g[i]]
           S == {m \in Nat : \E g \in [0..m -> D] : Does(g, m)}
<1>1. 0 \in S
  <2>1. [i \in 0..0 |-> d] \in [0..0 -> D] /\ Does([i \in 0..0 |-> d], 0)
    OBVIOUS
  <2> QED
    BY <2>1
<1>2. ASSUME NEW m \in Nat, m \in S PROVE m + 1 \in S
  <2>1. PICK g \in [0..m -> D] : Does(g, m)
    BY <1>2
  <2>2. PICK e \in D : e = F[m][g[m]]
    OBVIOUS
  <2> DEFINE h == [i \in 0..m + 1 |-> IF i = m + 1 THEN e ELSE g[i]]
  <2>3. \A i \in 0..m : h[i] = g[i] /\ h[i] \in D
    OBVIOUS
  <2>4. h \in [0..m + 1 -> D] /\ h[m + 1] = e
    OBVIOUS
  <2>5. Does(h, m + 1)
    <3>1. h[0] = d
      BY <2>1, <2>3
    <3>2. ASSUME NEW i \in Nat, i < m + 1 PROVE h[i + 1] = F[i][h[i]]
      <4>1. CASE i = m
        BY <3>2, <2>2, <2>3, <2>4, <4>1
      <4>2. CASE i # m
        <5>1. i < m /\ i + 1 \in 0..m /\ i \in 0..m
          BY <3>2, <4>2
        <5> HIDE DEF h
        <5> QED
          BY <2>1, <2>3, <5>1
      <4> QED
        BY <4>1, <4>2
    <3> HIDE DEF h
    <3> QED
      BY <3>1, <3>2
  <2> HIDE DEF h, Does
  <2> QED
    BY <2>4, <2>5
<1>3. Nat \subseteq S
  <2> HIDE DEF S
  <2> QED
    BY <1>1, <1>2, EveryNatural
<1>4. PICK g \in [0..n -> D] : Does(g, n)
  BY <1>3
<1>5. Repeats(g, D, d, F, n)
  BY <1>4 DEF Repeats
<1> QED
  BY <1>5

(* Induction on the subsets of a finite set, on a family of them.          *)
LEMMA EveryFiniteSet ==
    ASSUME NEW S, IsFiniteSet(S), NEW Family, {} \in Family,
           \A T \in SUBSET S : \A x \in S \ T : T \in Family => T \union {x} \in Family
    PROVE  S \in Family
<1> DEFINE Sizes == {n \in Nat : \A T \in SUBSET S : Cardinality(T) = n => T \in Family}
<1>1. \A T \in SUBSET S : IsFiniteSet(T)
  BY FS_Subset
<1>2. 0 \in Sizes
  BY <1>1, FS_EmptySet
<1>3. ASSUME NEW n \in Nat, n \in Sizes PROVE n + 1 \in Sizes
  <2> SUFFICES ASSUME NEW T \in SUBSET S, Cardinality(T) = n + 1 PROVE T \in Family
    OBVIOUS
  <2>1. T # {}
    BY <1>1, FS_EmptySet
  <2>2. PICK x \in T : TRUE
    BY <2>1
  <2>3. Cardinality(T \ {x}) = n
    <3>1. Cardinality(T \ {x}) = Cardinality(T) - 1
      BY <1>1, <2>2, FS_RemoveElement
    <3> QED
      BY <3>1
  <2>4. T \ {x} \in Family
    BY <1>3, <2>3
  <2>5. (T \ {x}) \union {x} = T /\ x \in S \ (T \ {x})
    BY <2>2
  <2> QED
    BY <2>4, <2>5
<1>4. Nat \subseteq Sizes
  <2> HIDE DEF Sizes
  <2> QED
    BY <1>2, <1>3, EveryNatural
<1>5. Cardinality(S) \in Sizes
  BY <1>4, FS_CardinalityType
<1> QED
  BY <1>5

(* The element that a sum over s takes next.                               *)
Picked(s) == CHOOSE x \in s : TRUE

(* One round of a sum over the subsets of S.                               *)
Round(f, S, g) ==
    [s \in SUBSET S |-> IF s = {} THEN 0
                        ELSE f[Picked(s)] + g[s \ {Picked(s)}]]

(* Rounds that end agree, on the finite sets they share.                   *)
LEMMA RoundsAgree ==
    ASSUME NEW f, NEW S, NEW T, NEW g, NEW h, g = Round(f, S, g), h = Round(f, T, h),
           NEW U \in SUBSET S, U \subseteq T, IsFiniteSet(U)
    PROVE  g[U] = h[U]
<1> DEFINE Sizes == {n \in Nat : \A s \in SUBSET U : Cardinality(s) = n => g[s] = h[s]}
<1>1. \A s \in SUBSET U : IsFiniteSet(s)
  BY FS_Subset
<1>2. \A s \in SUBSET U : s # {} =>
         /\ Picked(s) \in s
         /\ g[s] = f[Picked(s)] + g[s \ {Picked(s)}]
         /\ h[s] = f[Picked(s)] + h[s \ {Picked(s)}]
  <2> SUFFICES ASSUME NEW s \in SUBSET U, s # {}
               PROVE  /\ Picked(s) \in s
                      /\ g[s] = f[Picked(s)] + g[s \ {Picked(s)}]
                      /\ h[s] = f[Picked(s)] + h[s \ {Picked(s)}]
    OBVIOUS
  <2>1. Picked(s) \in s
    BY DEF Picked
  <2> QED
    BY <2>1 DEF Round
<1>3. g[{}] = 0 /\ h[{}] = 0
  BY DEF Round
<1>4. 0 \in Sizes
  BY <1>1, <1>3, FS_EmptySet
<1>5. ASSUME NEW n \in Nat, n \in Sizes PROVE n + 1 \in Sizes
  <2> SUFFICES ASSUME NEW s \in SUBSET U, Cardinality(s) = n + 1 PROVE g[s] = h[s]
    OBVIOUS
  <2>1. s # {}
    BY <1>1, FS_EmptySet
  <2>2. PICK x \in s : x = Picked(s)
    BY <1>2, <2>1
  <2>3. Cardinality(s \ {x}) = n
    <3>1. Cardinality(s \ {x}) = Cardinality(s) - 1
      BY <1>1, <2>2, FS_RemoveElement
    <3> QED
      BY <3>1
  <2>4. g[s \ {x}] = h[s \ {x}]
    BY <1>5, <2>3
  <2> QED
    BY <1>2, <2>1, <2>2, <2>4
<1>6. Nat \subseteq Sizes
  <2> HIDE DEF Sizes
  <2> QED
    BY <1>4, <1>5, EveryNatural
<1>7. Cardinality(U) \in Sizes
  BY <1>6, FS_CardinalityType
<1> QED
  BY <1>7

(* Over a finite set the rounds do end, in naturals.                       *)
LEMMA RoundsEnd ==
    ASSUME NEW D, NEW f \in [D -> Nat], NEW S \in SUBSET D, IsFiniteSet(S)
    PROVE  \E g \in [SUBSET S -> Nat] : g = Round(f, S, g)
<1> DEFINE Sums == [SUBSET S -> Nat]
           n == Cardinality(S)
<1>1. ASSUME NEW g \in Sums PROVE Round(f, S, g) \in Sums
  <2>1. ASSUME NEW s \in SUBSET S, s # {}
        PROVE  f[Picked(s)] + g[s \ {Picked(s)}] \in Nat
    <3>1. PICK x \in s : x = Picked(s)
      BY <2>1 DEF Picked
    <3>2. f[x] \in Nat /\ g[s \ {x}] \in Nat
      OBVIOUS
    <3> QED
      BY <3>1, <3>2
  <2> QED
    BY <2>1 DEF Round
<1>2. n \in Nat
  BY FS_CardinalityType
<1>3. PICK zero \in Sums : \A s \in SUBSET S : zero[s] = 0
  <2>1. [s \in SUBSET S |-> 0] \in Sums
    OBVIOUS
  <2> QED
    BY <2>1
<1>4. PICK F \in [Nat -> [Sums -> Sums]] :
         \A i \in Nat : \A g \in Sums : F[i][g] = Round(f, S, g)
  <2> HIDE DEF Sums
  <2>1. [i \in Nat |-> [g \in Sums |-> Round(f, S, g)]] \in [Nat -> [Sums -> Sums]]
    BY <1>1
  <2> QED
    BY <2>1
<1> HIDE DEF Sums, n
<1>5. PICK m \in Nat : m = n + 1
  BY <1>2
<1>6. PICK G : Repeats(G, Sums, zero, F, m)
  BY Repeated
<1>7. /\ \A i \in 0..n : G[i] \in Sums /\ G[i + 1] \in Sums /\ G[i + 1] = Round(f, S, G[i])
      /\ G[0] = zero
  BY <1>2, <1>4, <1>5, <1>6 DEF Repeats
<1>8. ASSUME NEW i \in 0..n, NEW s \in SUBSET S
      PROVE  /\ s = {} => G[i + 1][s] = 0
             /\ s # {} => /\ Picked(s) \in s
                          /\ G[i + 1][s] = f[Picked(s)] + G[i][s \ {Picked(s)}]
  <2>1. s # {} => Picked(s) \in s
    BY DEF Picked
  <2>2. G[i + 1] = Round(f, S, G[i])
    BY <1>7
  <2> QED
    BY <2>1, <2>2 DEF Round
<1> DEFINE Stable == {i \in Nat : i <= n => \A s \in SUBSET S : Cardinality(s) <= i => G[i + 1][s] = G[i][s]}
<1>9. \A s \in SUBSET S : IsFiniteSet(s) /\ Cardinality(s) \in Nat /\ Cardinality(s) <= n
  BY FS_Subset, FS_CardinalityType DEF n
<1>10. 0 \in Stable
  <2>1. ASSUME NEW s \in SUBSET S, Cardinality(s) <= 0 PROVE G[1][s] = 0 /\ G[0][s] = 0
    <3>1. s = {}
      BY <1>9, <2>1, FS_EmptySet
    <3>2. 0 \in 0..n
      BY <1>2
    <3>3. G[0 + 1][s] = 0
      BY <1>8, <3>1, <3>2
    <3>4. G[1][s] = 0
      BY <3>3
    <3>5. G[0] = zero
      BY <1>7
    <3>6. G[0][s] = 0
      BY <1>3, <3>5
    <3> QED
      BY <3>4, <3>6
  <2> QED
    BY <2>1
<1>11. ASSUME NEW i \in Nat, i \in Stable PROVE i + 1 \in Stable
  <2> SUFFICES ASSUME i + 1 <= n, NEW s \in SUBSET S, Cardinality(s) <= i + 1
               PROVE  G[i + 1 + 1][s] = G[i + 1][s]
    BY DEF Stable
  <2>1. i \in 0..n /\ i + 1 \in 0..n
    BY <1>2
  <2>2. CASE s = {}
    BY <1>8, <2>1, <2>2
  <2>3. CASE s # {}
    <3>1. PICK x \in s : x = Picked(s)
      BY <2>3 DEF Picked
    <3>2. Cardinality(s \ {x}) = Cardinality(s) - 1
      BY <1>9, FS_RemoveElement
    <3>3. Cardinality(s \ {x}) <= i /\ s \ {x} \in SUBSET S
      BY <1>9, <3>2
    <3>4. G[i + 1][s \ {x}] = G[i][s \ {x}]
      BY <1>11, <2>1, <3>3
    <3>5. /\ G[i + 1 + 1][s] = f[x] + G[i + 1][s \ {x}]
          /\ G[i + 1][s] = f[x] + G[i][s \ {x}]
      BY <1>8, <2>1, <2>3, <3>1
    <3> QED
      BY <3>4, <3>5
  <2> QED
    BY <2>2, <2>3
<1>12. n \in Stable
  <2> HIDE DEF Stable
  <2> QED
    BY <1>2, <1>10, <1>11, EveryNatural
<1>13. \A s \in SUBSET S : G[n + 1][s] = G[n][s]
  BY <1>2, <1>9, <1>12
<1>14. G[n] \in Sums /\ G[n + 1] \in Sums /\ G[n + 1] = Round(f, S, G[n])
  BY <1>2, <1>7
<1>15. G[n + 1] = G[n]
  <2> DEFINE a == G[n]
             b == G[n + 1]
  <2>1. a \in [SUBSET S -> Nat] /\ b \in [SUBSET S -> Nat] /\ \A s \in SUBSET S : a[s] = b[s]
    BY <1>13, <1>14 DEF Sums
  <2> HIDE DEF a, b
  <2>2. a = b
    BY <2>1
  <2> QED
    BY <2>2 DEF a, b
<1> QED
  BY <1>14, <1>15 DEF Sums

(* A sum over a set is where its rounds end.                               *)
LEMMA SumWhereRoundsEnd ==
    ASSUME NEW D, NEW f \in [D -> Nat], NEW S \in SUBSET D, IsFiniteSet(S),
           NEW T \in SUBSET D, S \subseteq T, NEW g, g = Round(f, T, g)
    PROVE  SumFunctionOnSet(f, S) = g[S]
<1> DEFINE h == CHOOSE h : h = Round(f, S, h)
<1>1. h = Round(f, S, h)
  BY RoundsEnd
<1>2. SumFunctionOnSet(f, S) = h[S]
  BY DEF SumFunctionOnSet, FoldFunctionOnSet, MapThenFoldSet, Round, Picked
<1> HIDE DEF h
<1>3. h[S] = g[S]
  BY <1>1, RoundsAgree
<1> QED
  BY <1>2, <1>3

(* How a sum takes the elements one by one.                                *)
LEMMA SumTakes ==
    ASSUME NEW D, NEW f \in [D -> Nat], NEW S \in SUBSET D, IsFiniteSet(S)
    PROVE  /\ SumFunctionOnSet(f, S) \in Nat
           /\ S = {} => SumFunctionOnSet(f, S) = 0
           /\ S # {} => \E x \in S : SumFunctionOnSet(f, S) = f[x] + SumFunctionOnSet(f, S \ {x})
<1>1. PICK g \in [SUBSET S -> Nat] : g = Round(f, S, g)
  BY RoundsEnd
<1>2. SumFunctionOnSet(f, S) = g[S]
  BY <1>1, SumWhereRoundsEnd
<1>3. g[S] \in Nat
  OBVIOUS
<1>4. S = {} => g[S] = 0
  BY <1>1 DEF Round
<1>5. ASSUME S # {}
      PROVE  \E x \in S : g[S] = f[x] + SumFunctionOnSet(f, S \ {x})
  <2>1. PICK x \in S : x = Picked(S)
    BY <1>5 DEF Picked
  <2>2. g[S] = f[x] + g[S \ {x}]
    <3>1. S \in SUBSET S
      OBVIOUS
    <3>2. Round(f, S, g)[S] = f[Picked(S)] + g[S \ {Picked(S)}]
      BY <1>5, <3>1 DEF Round
    <3> QED
      BY <1>1, <2>1, <3>2
  <2>3. IsFiniteSet(S \ {x}) /\ S \ {x} \in SUBSET D /\ S \ {x} \subseteq S
    BY FS_RemoveElement
  <2>4. SumFunctionOnSet(f, S \ {x}) = g[S \ {x}]
    BY <1>1, <2>3, SumWhereRoundsEnd
  <2> QED
    BY <2>2, <2>4
<1> QED
  BY <1>2, <1>3, <1>4, <1>5

(* It takes them in any order.                                             *)
LEMMA SumAdds ==
    ASSUME NEW D, NEW f \in [D -> Nat], NEW S \in SUBSET D, IsFiniteSet(S), NEW z \in D, z \notin S
    PROVE  SumFunctionOnSet(f, S \union {z}) = f[z] + SumFunctionOnSet(f, S)
<1> DEFINE Sum(s) == SumFunctionOnSet(f, s)
           Sizes == {n \in Nat : \A s \in SUBSET D : \A y \in D \ s :
                        IsFiniteSet(s) /\ Cardinality(s) = n => Sum(s \union {y}) = f[y] + Sum(s)}
<1>1. \A s \in SUBSET D : IsFiniteSet(s) =>
         /\ Sum(s) \in Nat /\ (s = {} => Sum(s) = 0)
         /\ s # {} => \E x \in s : Sum(s) = f[x] + Sum(s \ {x})
  <2> SUFFICES ASSUME NEW s \in SUBSET D, IsFiniteSet(s)
               PROVE  /\ Sum(s) \in Nat /\ (s = {} => Sum(s) = 0)
                      /\ s # {} => \E x \in s : Sum(s) = f[x] + Sum(s \ {x})
    OBVIOUS
  <2> QED
    BY SumTakes
<1> HIDE DEF Sum
<1>2. ASSUME NEW n \in Nat, \A m \in Nat : m < n => m \in Sizes
      PROVE  n \in Sizes
  <2> SUFFICES ASSUME NEW s \in SUBSET D, NEW y \in D \ s, IsFiniteSet(s), Cardinality(s) = n
               PROVE  Sum(s \union {y}) = f[y] + Sum(s)
    OBVIOUS
  <2>1. IsFiniteSet(s \union {y}) /\ s \union {y} \in SUBSET D
    BY FS_AddElement
  <2>2. PICK x \in s \union {y} : Sum(s \union {y}) = f[x] + Sum((s \union {y}) \ {x})
    BY <1>1, <2>1
  <2>3. CASE x = y
    <3>1. (s \union {y}) \ {x} = s
      BY <2>3
    <3> QED
      BY <2>2, <2>3, <3>1
  <2>4. CASE x # y
    <3> DEFINE rest == s \ {x}
    <3>1. /\ rest \in SUBSET D /\ IsFiniteSet(rest) /\ Cardinality(rest) = n - 1
          /\ Cardinality(rest) \in Nat
      BY <2>4, FS_RemoveElement, FS_CardinalityType
    <3>2. /\ (s \union {y}) \ {x} = rest \union {y} /\ s = rest \union {x}
          /\ x \in D \ rest /\ y \in D \ rest
      BY <2>4
    <3> HIDE DEF rest
    <3>3. n - 1 \in Nat /\ n - 1 < n
      BY <3>1
    <3>4. n - 1 \in Sizes
      BY <1>2, <3>3
    <3>5. Sum(rest \union {y}) = f[y] + Sum(rest) /\ Sum(rest \union {x}) = f[x] + Sum(rest)
      BY <3>1, <3>2, <3>4
    <3>6. f[x] \in Nat /\ f[y] \in Nat /\ Sum(rest) \in Nat
      <4>1. x \in D /\ y \in D
        BY <3>2
      <4> QED
        BY <1>1, <3>1, <4>1
    <3> QED
      BY <2>2, <3>2, <3>5, <3>6
  <2> QED
    BY <2>3, <2>4
<1>3. Nat \subseteq Sizes
  <2> DEFINE UpTo == {n \in Nat : \A m \in Nat : m < n => m \in Sizes}
  <2> HIDE DEF Sizes
  <2>1. 0 \in UpTo
    OBVIOUS
  <2>2. ASSUME NEW n \in Nat, n \in UpTo PROVE n + 1 \in UpTo
    <3>1. n \in Sizes
      BY <1>2, <2>2
    <3>2. \A m \in Nat : m < n + 1 => m < n \/ m = n
      OBVIOUS
    <3> QED
      BY <2>2, <3>1, <3>2
  <2> HIDE DEF UpTo
  <2>3. Nat \subseteq UpTo
    BY <2>1, <2>2, EveryNatural
  <2> USE DEF UpTo
  <2> QED
    BY <2>3, <1>2
<1>4. Cardinality(S) \in Sizes
  BY <1>3, FS_CardinalityType
<1> QED
  BY <1>4 DEF Sum

(* A sum over two sets that share nothing.                                 *)
LEMMA SumSplits ==
    ASSUME NEW D, NEW f \in [D -> Nat], NEW S \in SUBSET D, NEW T \in SUBSET D,
           IsFiniteSet(S), IsFiniteSet(T), S \cap T = {}
    PROVE  SumFunctionOnSet(f, S \union T) = SumFunctionOnSet(f, S) + SumFunctionOnSet(f, T)
<1> DEFINE Sum(s) == SumFunctionOnSet(f, s)
           Family == {U \in SUBSET T : Sum(S \union U) = Sum(S) + Sum(U)}
<1>1. \A U \in SUBSET T : IsFiniteSet(U) /\ IsFiniteSet(S \union U)
  BY FS_Subset, FS_Union
<1>2. Sum(S) \in Nat /\ Sum({}) = 0
  BY SumTakes, FS_EmptySet
<1>3. S \union {} = S
  OBVIOUS
<1>4. {} \in Family
  <2> HIDE DEF Sum
  <2> QED
    BY <1>2, <1>3
<1>5. ASSUME NEW U \in SUBSET T, NEW x \in T \ U, U \in Family
      PROVE  U \union {x} \in Family
  <2>1. /\ U \in SUBSET D /\ S \union U \in SUBSET D /\ x \in D /\ f[x] \in Nat
        /\ IsFiniteSet(U) /\ IsFiniteSet(S \union U) /\ x \notin U
    BY <1>1
  <2>2. /\ Sum(U) \in Nat /\ Sum(U \union {x}) = f[x] + Sum(U)
    BY <2>1, SumTakes, SumAdds
  <2>3. PICK W \in SUBSET D : W = S \union U
    OBVIOUS
  <2>4. x \notin W /\ IsFiniteSet(W)
    BY <2>1, <2>3
  <2>5. Sum(W \union {x}) = f[x] + Sum(W)
    BY <2>1, <2>4, SumAdds
  <2>6. Sum(W) = Sum(S) + Sum(U) /\ S \union (U \union {x}) = W \union {x}
    BY <1>5, <2>3
  <2>7. Sum(W \union {x}) = Sum(S) + Sum(U \union {x})
    <3> HIDE DEF Sum
    <3> QED
      BY <1>2, <2>1, <2>2, <2>5, <2>6
  <2> QED
    BY <2>6, <2>7
<1>6. T \in Family
  <2> HIDE DEF Family
  <2> QED
    BY <1>4, <1>5, EveryFiniteSet
<1> QED
  BY <1>6

(* A sum of nothing but zeroes.                                            *)
LEMMA SumOfZeroes ==
    ASSUME NEW D, NEW f \in [D -> Nat], NEW S \in SUBSET D, IsFiniteSet(S), \A x \in S : f[x] = 0
    PROVE  SumFunctionOnSet(f, S) = 0
<1> DEFINE Family == {U \in SUBSET S : SumFunctionOnSet(f, U) = 0}
<1>1. {} \in Family
  BY SumTakes, FS_EmptySet
<1>2. ASSUME NEW U \in SUBSET S, NEW x \in S \ U, U \in Family
      PROVE  U \union {x} \in Family
  <2>1. IsFiniteSet(U)
    BY FS_Subset
  <2>2. SumFunctionOnSet(f, U \union {x}) = f[x] + SumFunctionOnSet(f, U)
    BY <2>1, SumAdds
  <2> QED
    BY <1>2, <2>2
<1>3. S \in Family
  <2> HIDE DEF Family
  <2> QED
    BY <1>1, <1>2, EveryFiniteSet
<1> QED
  BY <1>3

-----------------------------------------------------------------------------
(***************************************************************************)
(* The chains of a document.                                               *)
(***************************************************************************)

(* A selection put at the end of a chain.                                  *)
LEMMA Longer ==
    ASSUME NEW S, NEW p \in Seq(S), NEW n \in S
    PROVE  /\ Append(p, n) \in Seq(S) /\ Append(p, n) # << >>
           /\ Len(p) \in Nat /\ Len(Append(p, n)) = Len(p) + 1
           /\ \A i \in 1..Len(p) : Append(p, n)[i] = p[i]
           /\ Append(p, n)[Len(p) + 1] = n
           /\ Last(Append(p, n)) = n /\ Front(Append(p, n)) = p
<1> DEFINE q == Append(p, n)
<1>1. /\ q \in Seq(S) /\ Len(p) \in Nat /\ Len(q) = Len(p) + 1
      /\ \A i \in 1..Len(p) : q[i] = p[i]
      /\ q[Len(p) + 1] = n
  BY AppendProperties, LenProperties
<1>2. q # << >>
  BY <1>1, EmptySeq
<1> HIDE DEF q
<1>3. /\ Last(q) = q[Len(q)] /\ Front(q) \in Seq(S) /\ Len(Front(q)) = Len(q) - 1
      /\ \A i \in 1..Len(q) - 1 : Front(q)[i] = q[i]
  BY <1>1, <1>2, FrontLast
<1>4. Len(q) - 1 = Len(p)
  BY <1>1
<1>5. Front(q) = p
  BY <1>1, <1>3, <1>4, SeqEqual
<1> QED
  BY <1>1, <1>2, <1>3, <1>5 DEF q

(* A chain of one selection.                                               *)
LEMMA One ==
    ASSUME NEW S, NEW n \in S
    PROVE  /\ << n >> = Append(<< >>, n) /\ << n >> \in Seq(S) /\ << n >> # << >>
           /\ Len(<< n >>) = 1 /\ << n >>[1] = n
           /\ Last(<< n >>) = n /\ Front(<< n >>) = << >>
<1>1. << n >> \in Seq(S) /\ Len(<< n >>) = 1 /\ << n >>[1] = n /\ << >> \in Seq(S)
  OBVIOUS
<1>2. << n >> = Append(<< >>, n)
  OBVIOUS
<1>3. Last(Append(<< >>, n)) = n /\ Front(Append(<< >>, n)) = << >>
  BY <1>1, Longer
<1>4. << n >> # << >>
  BY <1>1
<1> QED
  BY <1>1, <1>2, <1>3, <1>4

(* What is open on a longer chain.                                         *)
LEMMA SpreadsOfLonger ==
    ASSUME NEW p \in Selections, NEW n \in 1..Len(doc.sel)
    PROVE  SpreadsIn(Append(p, n)) =
             SpreadsIn(p) \union (IF IsSpread(n) THEN {doc.sel[n].name} ELSE {})
<1> DEFINE q == Append(p, n)
<1>1. /\ q \in Selections /\ p \in Selections /\ Len(p) \in Nat /\ Len(q) = Len(p) + 1
      /\ \A i \in 1..Len(p) : q[i] = p[i]
      /\ q[Len(p) + 1] = n
  BY Longer DEF Selections
<1> HIDE DEF q
<1>2. DOMAIN q = 1..Len(p) + 1 /\ DOMAIN p = 1..Len(p)
  BY <1>1, LenProperties DEF Selections
<1> DEFINE At(c) == {j \in DOMAIN c : IsSpread(c[j])}
<1>3. At(q) = At(p) \union (IF IsSpread(n) THEN {Len(p) + 1} ELSE {})
  BY <1>1, <1>2
<1>4. \A i \in At(p) : q[i] = p[i]
  BY <1>1, <1>2
<1>5. {doc.sel[q[i]].name : i \in At(q)} =
        {doc.sel[p[i]].name : i \in At(p)} \union (IF IsSpread(n) THEN {doc.sel[n].name} ELSE {})
  <2> HIDE DEF At
  <2> QED
    BY <1>1, <1>3, <1>4
<1> QED
  BY <1>5 DEF SpreadsIn, q

(* What lies below a chain.                                                *)
LEMMA BelowIs ==
    ASSUME doc \in Documents, NEW c \in Selections, c # << >>
    PROVE  LET n == Last(c) name == doc.sel[Last(c)].name IN
           /\ n \in 1..Len(doc.sel) /\ Below(c) \in Selections
           /\ ~IsSpread(n) => Below(c) = doc.sel[n].set /\ ~Reenters(c)
           /\ IsSpread(n) /\ ~Reenters(c) /\ name \in DOMAIN doc.frags => Below(c) = doc.frags[name]
           /\ IsSpread(n) /\ (Reenters(c) \/ name \notin DOMAIN doc.frags) => Below(c) = << >>
<1>1. Last(c) \in 1..Len(doc.sel)
  BY FrontLast DEF Selections
<1>2. ~IsSpread(Last(c)) => Below(c) = doc.sel[Last(c)].set /\ ~Reenters(c)
  BY DEF Below, Reenters
<1>3. IsSpread(Last(c)) /\ ~Reenters(c) /\ doc.sel[Last(c)].name \in DOMAIN doc.frags =>
         Below(c) = doc.frags[doc.sel[Last(c)].name]
  BY DEF Below
<1>4. IsSpread(Last(c)) /\ (Reenters(c) \/ doc.sel[Last(c)].name \notin DOMAIN doc.frags) =>
         Below(c) = << >>
  BY DEF Below
<1>5. << >> \in Selections
  BY EmptySeq DEF Selections
<1>6. Below(c) \in Selections
  BY <1>1, <1>2, <1>3, <1>4, <1>5, SetsTyped
<1> QED
  BY <1>1, <1>2, <1>3, <1>4, <1>6

(* The chains of a length, from those one shorter.                         *)
Levels(o, L) ==
    [k \in 1..Longest |->
       IF k = 1 THEN {<< n >> : n \in Range(doc.ops[o])}
       ELSE UNION {{Append(c, n) : n \in Range(Below(c))} : c \in L[k - 1]}]

(* The numbers of the selections in a set.                                 *)
LEMMA RangeIs ==
    ASSUME NEW s \in Selections
    PROVE  /\ Range(s) \subseteq 1..Len(doc.sel)
           /\ \A n : n \in Range(s) <=> \E i \in 1..Len(s) : s[i] = n
<1>1. DOMAIN s = 1..Len(s) /\ \A i \in 1..Len(s) : s[i] \in 1..Len(doc.sel)
  BY LenProperties, ElementOfSeq DEF Selections
<1> QED
  BY <1>1 DEF Range

(* The bound on the length of a chain is a natural.                        *)
LEMMA LongestIs ==
    ASSUME doc \in Documents
    PROVE  Longest \in Nat /\ Cardinality(DOMAIN doc.frags) \in Nat
<1>1. Len(doc.sel) \in Nat /\ IsFiniteSet(DOMAIN doc.frags)
  BY DocumentsAssumption
<1>2. Cardinality(DOMAIN doc.frags) \in Nat
  BY <1>1, FS_CardinalityType
<1> QED
  BY <1>1, <1>2 DEF Longest

(* L sorts the chains of operation o by their length.                      *)
ByLength(o, L) ==
    /\ ChainsOf(o) = UNION {L[k] : k \in 1..Longest}
    /\ \A k \in 1..Longest : L[k] \subseteq Selections \ {<< >>}
    /\ 1 \in 1..Longest => \A c : c \in L[1] <=> \E n \in Range(doc.ops[o]) : c = << n >>
    /\ \A k \in 1..Longest : k # 1 =>
          \A c : c \in L[k] <=> \E p \in L[k - 1] : \E n \in Range(Below(p)) : c = Append(p, n)

(* The chains of an operation are counted length by length.                *)
LEMMA ChainsByLength ==
    ASSUME doc \in Documents, NEW o \in DOMAIN doc.ops
    PROVE  \E L : ByLength(o, L)
<1> DEFINE D == SUBSET (Selections \ {<< >>})
           first == {<< n >> : n \in Range(doc.ops[o])}
           Onward(X) == UNION {{Append(c, n) : n \in Range(Below(c))} : c \in X}
<1>1. Longest \in Nat
  BY LongestIs
<1>2. first \in D
  <2>1. doc.ops[o] \in Selections
    BY SetsTyped
  <2>2. \A n \in Range(doc.ops[o]) : << n >> \in Selections \ {<< >>}
    BY <2>1, RangeIs, One DEF Selections
  <2> QED
    BY <2>2
<1>3. ASSUME NEW X \in D PROVE Onward(X) \in D
  <2>1. ASSUME NEW c \in X, NEW n \in Range(Below(c))
        PROVE  Append(c, n) \in Selections \ {<< >>}
    <3>1. c \in Selections /\ c # << >>
      OBVIOUS
    <3>2. Below(c) \in Selections
      BY <3>1, BelowIs
    <3> QED
      BY <3>1, <3>2, RangeIs, Longer DEF Selections
  <2>2. ASSUME NEW q \in Onward(X) PROVE q \in Selections \ {<< >>}
    <3>1. PICK c \in X : q \in {Append(c, n) : n \in Range(Below(c))}
      OBVIOUS
    <3>2. PICK n \in Range(Below(c)) : q = Append(c, n)
      BY <3>1
    <3> QED
      BY <2>1, <3>2
  <2> HIDE DEF Onward
  <2> QED
    BY <2>2
<1>4. PICK F \in [Nat -> [D -> D]] : \A i \in Nat : \A X \in D : F[i][X] = Onward(X)
  <2> HIDE DEF D, Onward
  <2>1. [i \in Nat |-> [X \in D |-> Onward(X)]] \in [Nat -> [D -> D]]
    BY <1>3
  <2> QED
    BY <2>1
<1>5. PICK g : Repeats(g, D, first, F, Longest)
  <2> HIDE DEF D, first
  <2> QED
    BY <1>1, <1>2, Repeated
<1> DEFINE L == [k \in 1..Longest |-> g[k - 1]]
<1>6. \A k \in 1..Longest : L[k] \in D /\ L[k] = IF k = 1 THEN first ELSE Onward(L[k - 1])
  <2> SUFFICES ASSUME NEW k \in 1..Longest
               PROVE  L[k] \in D /\ L[k] = IF k = 1 THEN first ELSE Onward(L[k - 1])
    OBVIOUS
  <2> HIDE DEF D, first, Onward
  <2>1. k - 1 \in 0..Longest
    BY <1>1
  <2>2. L[k] = g[k - 1] /\ g[k - 1] \in D
    BY <1>5, <2>1 DEF Repeats
  <2>3. CASE k = 1
    BY <1>5, <2>2, <2>3 DEF Repeats
  <2>4. CASE k # 1
    <3>1. PICK i \in Nat : i + 1 = k - 1 /\ i \in 0..Longest - 1 /\ i \in 0..Longest /\ k - 1 \in 1..Longest
      <4>1. k - 2 \in Nat /\ k - 2 + 1 = k - 1
        BY <1>1, <2>4
      <4> QED
        BY <1>1, <2>4, <4>1
    <3>2. g[i + 1] = F[i][g[i]] /\ g[i] \in D
      BY <1>5, <3>1 DEF Repeats
    <3>3. g[i + 1] = Onward(g[i])
      BY <1>4, <3>2
    <3>4. L[k - 1] = g[i]
      <4>1. k - 1 - 1 = i
        BY <3>1
      <4> QED
        BY <3>1, <4>1
    <3> QED
      BY <2>2, <2>4, <3>1, <3>3, <3>4
  <2> QED
    BY <2>3, <2>4
<1> HIDE DEF L
<1>7. L = [k \in 1..Longest |-> L[k]]
  BY DEF L
<1>8. L = Levels(o, L)
  <2> HIDE DEF D
  <2> QED
    BY <1>6, <1>7 DEF Levels
<1>9. \E M : M = Levels(o, M)
  BY <1>8
<1> DEFINE M == CHOOSE M : M = Levels(o, M)
<1>10. M = Levels(o, M)
  BY <1>9
<1>11. ChainsOf(o) = UNION {M[k] : k \in DOMAIN M}
  BY DEF ChainsOf, Levels
<1> HIDE DEF M
<1>12. DOMAIN M = 1..Longest
  BY <1>10 DEF Levels
<1>13. \A k \in 1..Longest : M[k] \in D
  <2> DEFINE S == {k \in Nat : k + 1 \in 1..Longest => M[k + 1] \in D}
  <2>1. \A k \in 1..Longest : M[k] = IF k = 1 THEN first ELSE Onward(M[k - 1])
    BY <1>10 DEF Levels
  <2> HIDE DEF D, first, Onward
  <2>2. 0 \in S
    BY <1>2, <2>1
  <2>3. ASSUME NEW k \in Nat, k \in S PROVE k + 1 \in S
    <3> SUFFICES ASSUME k + 2 \in 1..Longest PROVE M[k + 2] \in D
      BY DEF S
    <3>1. k + 1 \in 1..Longest /\ k + 2 # 1 /\ k + 2 - 1 = k + 1
      BY <1>1
    <3>2. M[k + 1] \in D
      BY <2>3, <3>1
    <3>3. M[k + 2] = Onward(M[k + 1])
      BY <2>1, <3>1
    <3> QED
      BY <1>3, <3>2, <3>3
  <2> HIDE DEF S
  <2>4. Nat \subseteq S
    BY <2>2, <2>3, EveryNatural
  <2> QED
    <3> SUFFICES ASSUME NEW k \in 1..Longest PROVE M[k] \in D
      OBVIOUS
    <3>1. k - 1 \in Nat /\ (k - 1) + 1 = k
      OBVIOUS
    <3>2. k - 1 \in S
      BY <2>4, <3>1
    <3> QED
      BY <3>1, <3>2 DEF S
<1>14. ASSUME 1 \in 1..Longest
       PROVE  \A c : c \in M[1] <=> \E n \in Range(doc.ops[o]) : c = << n >>
  <2>1. M[1] = first
    BY <1>10, <1>14 DEF Levels
  <2> QED
    BY <2>1
<1>15. ASSUME NEW k \in 1..Longest, k # 1, NEW c
       PROVE  c \in M[k] <=> \E p \in M[k - 1] : \E n \in Range(Below(p)) : c = Append(p, n)
  <2>1. M[k] = Onward(M[k - 1])
    <3> HIDE DEF Onward
    <3>1. M[k] = UNION {{Append(p, n) : n \in Range(Below(p))} : p \in M[k - 1]}
      BY <1>10, <1>15 DEF Levels
    <3> QED
      BY <3>1 DEF Onward
  <2> QED
    BY <2>1
<1>16. ByLength(o, M)
  BY <1>11, <1>12, <1>13, <1>14, <1>15 DEF ByLength
<1> QED
  BY <1>16

(* A chain of the k-th set has k selections.                               *)
LEMMA LengthIs ==
    ASSUME doc \in Documents, NEW o \in DOMAIN doc.ops, NEW L, ByLength(o, L),
           NEW k \in 1..Longest, NEW c \in L[k]
    PROVE  /\ c \in Selections /\ c # << >> /\ Len(c) = k
           /\ k = 1 => \E n \in 1..Len(doc.sel) : n \in Range(doc.ops[o]) /\ c = << n >>
           /\ k # 1 => \E p \in L[k - 1] : \E n \in 1..Len(doc.sel) :
                          n \in Range(Below(p)) /\ c = Append(p, n)
<1> DEFINE S == {i \in Nat : i + 1 \in 1..Longest => \A d \in L[i + 1] : Len(d) = i + 1}
<1>1. Longest \in Nat
  BY LongestIs
<1>2. \A i \in 1..Longest : \A d \in L[i] : d \in Selections /\ d # << >>
  BY DEF ByLength
<1>3. \A i \in 1..Longest : \A d \in L[i] : Below(d) \in Selections
  BY <1>2, BelowIs
<1>4. doc.ops[o] \in Selections
  BY SetsTyped
<1>5. ASSUME 1 \in 1..Longest, NEW d \in L[1]
      PROVE  \E n \in 1..Len(doc.sel) : n \in Range(doc.ops[o]) /\ d = << n >>
  <2>1. PICK n \in Range(doc.ops[o]) : d = << n >>
    BY <1>5 DEF ByLength
  <2> QED
    BY <1>4, <2>1, RangeIs
<1>6. ASSUME NEW i \in 1..Longest, i # 1, NEW d \in L[i]
      PROVE  \E p \in L[i - 1] : \E n \in 1..Len(doc.sel) :
                n \in Range(Below(p)) /\ d = Append(p, n)
  <2>1. PICK p \in L[i - 1] : \E n \in Range(Below(p)) : d = Append(p, n)
    BY <1>6 DEF ByLength
  <2>2. i - 1 \in 1..Longest
    BY <1>1, <1>6
  <2> QED
    BY <1>3, <2>1, <2>2, RangeIs
<1>7. 0 \in S
  <2> SUFFICES ASSUME 1 \in 1..Longest, NEW d \in L[1] PROVE Len(d) = 1
    OBVIOUS
  <2> QED
    BY <1>5
<1>8. ASSUME NEW i \in Nat, i \in S PROVE i + 1 \in S
  <2> SUFFICES ASSUME i + 2 \in 1..Longest, NEW d \in L[i + 2] PROVE Len(d) = i + 2
    OBVIOUS
  <2>1. i + 1 \in 1..Longest /\ i + 2 # 1 /\ i + 2 - 1 = i + 1
    BY <1>1
  <2>2. PICK p \in L[i + 1] : \E n \in 1..Len(doc.sel) : n \in Range(Below(p)) /\ d = Append(p, n)
    BY <1>6, <2>1
  <2>3. Len(p) = i + 1 /\ p \in Selections
    BY <1>2, <1>8, <2>1
  <2> QED
    BY <2>2, <2>3, Longer DEF Selections
<1>9. Nat \subseteq S
  <2> HIDE DEF S
  <2> QED
    BY <1>7, <1>8, EveryNatural
<1>10. k - 1 \in Nat /\ (k - 1) + 1 = k
  OBVIOUS
<1>11. Len(c) = k
  <2>1. k - 1 \in S
    BY <1>9, <1>10
  <2> QED
    BY <1>10, <2>1
<1> QED
  BY <1>2, <1>5, <1>6, <1>11

(* p is a beginning of c, and shorter.                                     *)
Begins(p, c) ==
    p \in Selections /\ p # << >> /\ Len(p) < Len(c) /\ \A i \in 1..Len(p) : p[i] = c[i]

(* What a chain begins with is a chain, and the selection that comes next  *)
(* stands below it.                                                        *)
LEMMA BeginningsAreChains ==
    ASSUME doc \in Documents, NEW o \in DOMAIN doc.ops, NEW c \in ChainsOf(o)
    PROVE  /\ c \in Selections /\ Len(c) \in Nat \ {0} /\ c # << >>
           /\ c[1] \in Range(doc.ops[o])
           /\ \A p : Begins(p, c) => p \in ChainsOf(o) /\ c[Len(p) + 1] \in Range(Below(p))
<1>1. PICK L : ByLength(o, L)
  BY ChainsByLength
<1>2. PICK k \in 1..Longest : c \in L[k]
  BY <1>1 DEF ByLength
<1> DEFINE Good(d) == /\ d[1] \in Range(doc.ops[o])
                      /\ \A p : Begins(p, d) => p \in ChainsOf(o) /\ d[Len(p) + 1] \in Range(Below(p))
           S == {i \in Nat : i + 1 \in 1..Longest => \A d \in L[i + 1] : Good(d)}
<1>3. Longest \in Nat
  BY LongestIs
<1>4. 0 \in S
  <2> SUFFICES ASSUME 1 \in 1..Longest, NEW d \in L[1] PROVE Good(d)
    OBVIOUS
  <2>1. PICK n \in 1..Len(doc.sel) : n \in Range(doc.ops[o]) /\ d = << n >>
    BY <1>1, LengthIs
  <2>2. Len(d) = 1 /\ d[1] = n
    BY <2>1
  <2>3. \A p : ~Begins(p, d)
    BY <2>2, EmptySeq DEF Begins, Selections
  <2> QED
    BY <2>1, <2>2, <2>3
<1>5. ASSUME NEW i \in Nat, i \in S PROVE i + 1 \in S
  <2> SUFFICES ASSUME i + 2 \in 1..Longest, NEW d \in L[i + 2] PROVE Good(d)
    OBVIOUS
  <2>1. i + 1 \in 1..Longest /\ i + 2 # 1 /\ i + 2 - 1 = i + 1
    BY <1>3
  <2>2. \E b \in L[i + 1] : \E n \in 1..Len(doc.sel) : n \in Range(Below(b)) /\ d = Append(b, n)
    <3>1. PICK j \in 1..Longest : j = i + 2 /\ j # 1 /\ j - 1 = i + 1
      BY <2>1
    <3>2. d \in L[j]
      BY <3>1
    <3> HIDE DEF S
    <3>3. \E b \in L[j - 1] : \E n \in 1..Len(doc.sel) : n \in Range(Below(b)) /\ d = Append(b, n)
      BY <1>1, <3>1, <3>2, LengthIs
    <3> QED
      BY <3>1, <3>3
  <2>3. PICK b \in L[i + 1], n \in 1..Len(doc.sel) : n \in Range(Below(b)) /\ d = Append(b, n)
    BY <2>2
  <2>4. Len(b) = i + 1 /\ b \in Selections
    BY <1>1, <2>1, LengthIs
  <2>5. b \in ChainsOf(o)
    BY <1>1, <2>1 DEF ByLength
  <2>6. Good(b)
    BY <1>5, <2>1
  <2>7. /\ Len(d) = i + 2 /\ \A j \in 1..i + 1 : d[j] = b[j]
        /\ d[i + 2] = n
    BY <2>3, <2>4, Longer DEF Selections
  <2>8. d[1] \in Range(doc.ops[o])
    BY <2>6, <2>7
  <2>9. ASSUME NEW p, Begins(p, d)
        PROVE  p \in ChainsOf(o) /\ d[Len(p) + 1] \in Range(Below(p))
    <3>1. p \in Selections /\ p # << >> /\ Len(p) \in Nat /\ Len(p) <= i + 1
      BY <2>7, <2>9, LenProperties DEF Begins, Selections
    <3>2. CASE Len(p) = i + 1
      <4>1. p = b
        BY <2>4, <2>7, <2>9, <3>1, <3>2, SeqEqual DEF Begins, Selections
      <4> QED
        BY <2>3, <2>4, <2>5, <2>7, <4>1
    <3>3. CASE Len(p) # i + 1
      <4>1. Len(p) < Len(b) /\ \A j \in 1..Len(p) : j \in 1..i + 1 /\ p[j] = d[j]
        BY <2>4, <2>9, <3>1, <3>3 DEF Begins
      <4>2. Begins(p, b)
        BY <2>7, <3>1, <4>1 DEF Begins
      <4>3. Len(p) + 1 \in 1..i + 1
        BY <3>1, <3>3
      <4> QED
        BY <2>6, <2>7, <4>2, <4>3
    <3> QED
      BY <3>2, <3>3
  <2> QED
    BY <2>8, <2>9
<1>6. Nat \subseteq S
  <2> HIDE DEF S
  <2> QED
    BY <1>4, <1>5, EveryNatural
<1>7. Good(c)
  <2>1. k - 1 \in Nat /\ (k - 1) + 1 = k
    OBVIOUS
  <2>2. k - 1 \in S
    BY <1>6, <2>1
  <2> HIDE DEF Good
  <2> QED
    BY <1>2, <2>1, <2>2 DEF S
<1>8. c \in Selections /\ c # << >> /\ Len(c) = k
  BY <1>1, <1>2, LengthIs
<1> QED
  BY <1>7, <1>8

(* A selection of an operation's own set is a chain.                       *)
LEMMA ChainsStart ==
    ASSUME doc \in Documents, NEW o \in DOMAIN doc.ops, NEW n \in Range(doc.ops[o])
    PROVE  << n >> \in ChainsOf(o)
<1>1. PICK L : ByLength(o, L)
  BY ChainsByLength
<1>2. n \in 1..Len(doc.sel) /\ Len(doc.sel) \in Nat
  BY SetsTyped, RangeIs
<1>3. Longest >= 1
  <2> DEFINE F == Cardinality(DOMAIN doc.frags)
             N == Len(doc.sel)
  <2>1. F \in Nat /\ N \in Nat \ {0}
    BY <1>2, LongestIs
  <2> HIDE DEF F, N
  <2>2. N * (F + 1) >= 1
    BY <2>1
  <2> QED
    BY <2>2 DEF F, N, Longest
<1>4. 1 \in 1..Longest
  BY <1>3, LongestIs
<1> QED
  BY <1>1, <1>4 DEF ByLength

(* The fragments that a chain has entered above its last selection.        *)
Entered(c) == SpreadsIn(Front(c)) \cap DOMAIN doc.frags

(* A chain goes on to later selections but where it enters a fragment, and *)
(* it enters each once: it is never longer than Longest.                   *)
LEMMA ChainsAreShort ==
    ASSUME doc \in Documents, NEW o \in DOMAIN doc.ops, NEW c \in ChainsOf(o)
    PROVE  /\ Len(c) <= Len(doc.sel) * Cardinality(Entered(c)) + Last(c)
           /\ \A n \in Range(Below(c)) : Len(c) + 1 <= Longest
<1>1. PICK L : ByLength(o, L)
  BY ChainsByLength
<1>2. PICK k \in 1..Longest : c \in L[k]
  BY <1>1 DEF ByLength
<1> DEFINE N == Len(doc.sel)
           E(d) == Cardinality(Entered(d))
           Short(d) == Len(d) <= N * E(d) + Last(d)
           S == {i \in Nat : i + 1 \in 1..Longest => \A d \in L[i + 1] : Short(d)}
<1>3. Longest \in Nat /\ N \in Nat
  BY LongestIs, SetsTyped
<1>4. \A d : Entered(d) \in SUBSET DOMAIN doc.frags /\ IsFiniteSet(Entered(d)) /\ E(d) \in Nat
             /\ E(d) <= Cardinality(DOMAIN doc.frags)
  <2>1. IsFiniteSet(DOMAIN doc.frags)
    BY DocumentsAssumption
  <2> QED
    BY <2>1, FS_Subset, FS_CardinalityType DEF Entered
<1>5. ASSUME NEW b \in Selections, b # << >>, Short(b), NEW n \in 1..N, n \in Range(Below(b))
      PROVE  Short(Append(b, n))
  <2> DEFINE d == Append(b, n)
             m == Last(b)
  <2>1. /\ b = Append(Front(b), m) /\ Front(b) \in Selections /\ m \in 1..N
        /\ Len(b) \in Nat
    <3>1. /\ Front(b) \in Selections /\ m \in 1..N /\ Len(b) \in Nat \ {0} /\ m = b[Len(b)]
          /\ Len(Front(b)) = Len(b) - 1 /\ \A i \in 1..Len(b) - 1 : Front(b)[i] = b[i]
      BY <1>5, FrontLast DEF Selections
    <3>2. /\ Append(Front(b), m) \in Selections /\ Len(Append(Front(b), m)) = Len(b)
          /\ \A i \in 1..Len(b) - 1 : Append(Front(b), m)[i] = b[i]
          /\ Append(Front(b), m)[Len(b)] = m
      BY <3>1, Longer DEF Selections
    <3>3. \A i \in 1..Len(b) : Append(Front(b), m)[i] = b[i]
      BY <3>1, <3>2
    <3> QED
      BY <3>1, <3>2, <3>3, SeqEqual DEF Selections
  <2>2. Front(d) = b /\ Last(d) = n /\ Len(d) = Len(b) + 1
    BY Longer DEF Selections
  <2>3. Entered(d) = Entered(b) \union ((IF IsSpread(m) THEN {doc.sel[m].name} ELSE {}) \cap DOMAIN doc.frags)
    <3>1. SpreadsIn(b) = SpreadsIn(Front(b)) \union (IF IsSpread(m) THEN {doc.sel[m].name} ELSE {})
      BY <2>1, SpreadsOfLonger
    <3> QED
      BY <2>2, <3>1 DEF Entered
  <2> HIDE DEF d, m
  <2>4. CASE ~IsSpread(m)
    <3>1. Below(b) = doc.sel[m].set
      BY <1>5, <2>4, BelowIs DEF m
    <3>2. n > m
      <4>1. doc.sel[m].set \in Seq(m + 1..N)
        BY <2>1, DocumentsAssumption DEF SetOnce
      <4>2. \A i \in DOMAIN doc.sel[m].set : doc.sel[m].set[i] \in m + 1..N
        BY <4>1, ElementOfSeq, LenProperties
      <4>3. n \in m + 1..N
        BY <1>5, <3>1, <4>2 DEF Range
      <4> QED
        BY <2>1, <4>3, <1>3
    <3>3. Entered(d) = Entered(b)
      BY <2>3, <2>4
    <3>4. PICK e \in Nat : e = N * E(b)
      BY <1>3, <1>4
    <3>5. Len(b) <= e + m
      BY <1>5, <3>4 DEF m
    <3> QED
      BY <2>1, <2>2, <3>2, <3>3, <3>4, <3>5 DEF d
  <2>5. CASE IsSpread(m)
    <3> DEFINE name == doc.sel[m].name
    <3>1. ~Reenters(b) /\ name \in DOMAIN doc.frags
      <4>1. ~(n \in Range(<< >>))
        BY DEF Range
      <4>2. Below(b) # << >>
        BY <1>5, <4>1
      <4> QED
        BY <1>5, <2>5, <4>2, BelowIs DEF m
    <3>2. name \notin Entered(b)
      BY <2>5, <3>1 DEF Reenters, Entered, m
    <3>3. Entered(d) = Entered(b) \union {name}
      BY <2>3, <2>5, <3>1
    <3>4. E(d) = E(b) + 1
      BY <1>4, <3>2, <3>3, FS_AddElement
    <3>5. PICK e \in Nat : e = E(b)
      BY <1>4
    <3>6. PICK a \in Nat : a = N * e /\ N * (e + 1) = a + N
      BY <1>3, <3>5
    <3>7. Len(b) <= a + m
      BY <1>5, <3>5, <3>6 DEF m
    <3>8. Len(d) <= (a + N) + n
      BY <1>3, <2>1, <2>2, <3>7
    <3> QED
      BY <2>2, <3>4, <3>5, <3>6, <3>8 DEF d
  <2> QED
    BY <2>4, <2>5
<1>6. 0 \in S
  <2> SUFFICES ASSUME 1 \in 1..Longest, NEW d \in L[1] PROVE Short(d)
    OBVIOUS
  <2>1. PICK n \in 1..N : d = << n >>
    BY <1>1, LengthIs
  <2>2. Len(d) = 1 /\ Last(d) = n
    BY <2>1, One
  <2>3. PICK e \in Nat : e = N * E(d)
    BY <1>3, <1>4
  <2> QED
    BY <2>2, <2>3
<1>7. ASSUME NEW i \in Nat, i \in S PROVE i + 1 \in S
  <2> SUFFICES ASSUME i + 2 \in 1..Longest, NEW d \in L[i + 2] PROVE Short(d)
    OBVIOUS
  <2>1. i + 1 \in 1..Longest /\ i + 2 # 1 /\ i + 2 - 1 = i + 1
    BY <1>3
  <2>2. PICK b \in L[i + 1] : \E n \in 1..N : n \in Range(Below(b)) /\ d = Append(b, n)
    BY <1>1, <2>1, LengthIs
  <2>3. b \in Selections /\ b # << >>
    BY <1>1, <2>1, LengthIs
  <2>4. Short(b)
    BY <1>7, <2>1
  <2> HIDE DEF Short
  <2> QED
    BY <1>5, <2>2, <2>3, <2>4
<1>8. Nat \subseteq S
  <2> HIDE DEF S
  <2> QED
    BY <1>6, <1>7, EveryNatural
<1>9. Short(c)
  <2>1. k - 1 \in Nat /\ (k - 1) + 1 = k
    OBVIOUS
  <2>2. k - 1 \in S
    BY <1>8, <2>1
  <2> HIDE DEF Short
  <2> QED
    BY <1>2, <2>1, <2>2 DEF S
<1>10. c \in Selections /\ c # << >>
  BY <1>1, <1>2, LengthIs
<1>11. ASSUME NEW n \in Range(Below(c)) PROVE Len(c) + 1 <= Longest
  <2>1. n \in 1..N
    BY <1>10, BelowIs, RangeIs
  <2>2. Short(Append(c, n))
    BY <1>5, <1>9, <1>10, <2>1
  <2>3. Last(Append(c, n)) = n /\ Len(Append(c, n)) = Len(c) + 1 /\ Len(c) \in Nat
    BY <1>10, <2>1, Longer DEF Selections
  <2>4. PICK e \in Nat : e = E(Append(c, n)) /\ e <= Cardinality(DOMAIN doc.frags)
    BY <1>4
  <2>5. PICK F \in Nat : F = Cardinality(DOMAIN doc.frags)
    BY LongestIs
  <2>6. PICK a \in Nat : a = N * e
    BY <1>3, <2>4
  <2>7. PICK f \in Nat : f = N * F /\ N * (F + 1) = f + N /\ a <= f
    BY <1>3, <2>4, <2>5, <2>6
  <2>8. Len(c) + 1 <= a + n
    BY <2>2, <2>3, <2>4, <2>6
  <2>9. Len(c) + 1 <= f + N
    BY <1>3, <2>1, <2>3, <2>7, <2>8
  <2> QED
    BY <2>5, <2>7, <2>9 DEF Longest
<1> QED
  BY <1>9, <1>11

(* A chain goes on with each selection below it.                           *)
LEMMA ChainsGoOn ==
    ASSUME doc \in Documents, NEW o \in DOMAIN doc.ops, NEW c \in ChainsOf(o),
           NEW n \in Range(Below(c))
    PROVE  Append(c, n) \in ChainsOf(o)
<1>1. PICK L : ByLength(o, L)
  BY ChainsByLength
<1>2. PICK k \in 1..Longest : c \in L[k]
  BY <1>1 DEF ByLength
<1>3. Len(c) = k /\ Longest \in Nat
  BY <1>1, <1>2, LengthIs, LongestIs
<1>4. k + 1 <= Longest
  BY <1>3, ChainsAreShort
<1>5. PICK j \in 1..Longest : j = k + 1 /\ j # 1 /\ j - 1 = k
  BY <1>3, <1>4
<1>6. Append(c, n) \in L[j]
  BY <1>1, <1>2, <1>5 DEF ByLength
<1> QED
  BY <1>1, <1>6 DEF ByLength

(* An operation has finitely many chains.                                  *)
LEMMA ChainsAreFinite ==
    ASSUME doc \in Documents, NEW o \in DOMAIN doc.ops
    PROVE  IsFiniteSet(ChainsOf(o))
<1>1. PICK L : ByLength(o, L)
  BY ChainsByLength
<1> DEFINE N == Len(doc.sel)
           S == {i \in Nat : i + 1 \in 1..Longest => IsFiniteSet(L[i + 1])}
<1>2. Longest \in Nat /\ N \in Nat
  BY LongestIs, SetsTyped
<1>3. IsFiniteSet(1..N)
  BY <1>2, FS_Interval
<1>4. 0 \in S
  <2> SUFFICES ASSUME 1 \in 1..Longest PROVE IsFiniteSet(L[1])
    OBVIOUS
  <2> DEFINE T == {<< n >> : n \in 1..N}
             f == [n \in 1..N |-> << n >>]
  <2>1. f \in Surjection(1..N, T)
    BY DEF Surjection
  <2>2. IsFiniteSet(T)
    <3> HIDE DEF f, T
    <3> QED
      BY <1>3, <2>1, FS_Surjection
  <2>3. L[1] \subseteq T
    <3> SUFFICES ASSUME NEW d \in L[1] PROVE d \in T
      OBVIOUS
    <3>1. PICK n \in 1..N : d = << n >>
      BY <1>1, LengthIs
    <3> QED
      BY <3>1
  <2> HIDE DEF T
  <2> QED
    BY <2>2, <2>3, FS_Subset
<1>5. ASSUME NEW i \in Nat, i \in S PROVE i + 1 \in S
  <2> SUFFICES ASSUME i + 2 \in 1..Longest PROVE IsFiniteSet(L[i + 2])
    OBVIOUS
  <2>1. i + 1 \in 1..Longest
    BY <1>2
  <2>2. PICK j \in 1..Longest : j = i + 2 /\ j # 1 /\ j - 1 = i + 1
    BY <1>2
  <2> DEFINE P == L[i + 1] \X (1..N)
             T == {Append(p[1], p[2]) : p \in P}
             f == [p \in P |-> Append(p[1], p[2])]
  <2>3. IsFiniteSet(P)
    BY <1>3, <1>5, <2>1, FS_Product
  <2>4. f \in Surjection(P, T)
    BY DEF Surjection
  <2>5. IsFiniteSet(T)
    <3> HIDE DEF P, T, f
    <3> QED
      BY <2>3, <2>4, FS_Surjection
  <2>6. ASSUME NEW d \in L[j] PROVE d \in T
    <3>1. \E b \in L[j - 1] : \E n \in 1..N : d = Append(b, n)
      BY <1>1, <2>2, LengthIs
    <3>2. PICK b \in L[i + 1], n \in 1..N : d = Append(b, n)
      BY <2>2, <3>1
    <3>3. << b, n >> \in P
      OBVIOUS
    <3>4. << b, n >>[1] = b /\ << b, n >>[2] = n
      OBVIOUS
    <3> HIDE DEF P
    <3> QED
      BY <3>2, <3>3, <3>4
  <2>7. L[j] \subseteq T
    BY <2>6
  <2> HIDE DEF T
  <2> QED
    BY <2>2, <2>5, <2>7, FS_Subset
<1>6. Nat \subseteq S
  <2> HIDE DEF S
  <2> QED
    BY <1>4, <1>5, EveryNatural
<1>7. ASSUME NEW k \in 1..Longest PROVE IsFiniteSet(L[k])
  <2>1. k - 1 \in Nat /\ (k - 1) + 1 = k
    OBVIOUS
  <2>2. k - 1 \in S
    BY <1>6, <2>1
  <2> QED
    BY <2>1, <2>2
<1> DEFINE T == {L[k] : k \in 1..Longest}
           f == [k \in 1..Longest |-> L[k]]
<1>8. IsFiniteSet(T)
  <2>1. f \in Surjection(1..Longest, T)
    BY DEF Surjection
  <2>2. IsFiniteSet(1..Longest)
    BY <1>2, FS_Interval
  <2> HIDE DEF T, f
  <2> QED
    BY <2>1, <2>2, FS_Surjection
<1>9. IsFiniteSet(UNION T)
  <2>1. \A X \in T : IsFiniteSet(X)
    BY <1>7
  <2> HIDE DEF T
  <2> QED
    BY <1>8, <2>1, FS_UNION
<1> QED
  BY <1>1, <1>9 DEF ByLength

-----------------------------------------------------------------------------
(***************************************************************************)
(* What chains cost, and what sets of them come to.                        *)
(***************************************************************************)

(* How often a selection on a chain multiplies the costs below it by the   *)
(* factor.                                                                 *)
TimesBy(n) == IF IsField(n) /\ ~walk.flatten THEN 1 ELSE 0

(* What the last selection of a chain costs, case by case.                 *)
LEMMA OwnCostIs ==
    ASSUME NEW c
    PROVE  LET n == Last(c) IN
           /\ (\E i \in DOMAIN c : Ignored(c[i])) => OwnCost(c) = 0
           /\ ~(\E i \in DOMAIN c : Ignored(c[i])) =>
                /\ IsField(n) /\ doc.sel[n].set = << >> => OwnCost(c) = walk.scalar_cost
                /\ IsField(n) /\ doc.sel[n].set # << >> => OwnCost(c) = walk.object_cost
                /\ IsSpread(n) /\ Reenters(c) => OwnCost(c) = walk.recursion_cost
                /\ ~IsField(n) /\ ~Reenters(c) => OwnCost(c) = 0
<1>1. (\E i \in DOMAIN c : Ignored(c[i])) => OwnCost(c) = 0
  BY DEF OwnCost
<1>2. IsField(Last(c)) => ~IsSpread(Last(c))
  BY DEF IsField, IsSpread
<1>3. ~Reenters(c) \/ IsSpread(Last(c))
  BY DEF Reenters
<1>4. ASSUME ~(\E i \in DOMAIN c : Ignored(c[i]))
      PROVE  /\ IsField(Last(c)) /\ doc.sel[Last(c)].set = << >> => OwnCost(c) = walk.scalar_cost
             /\ IsField(Last(c)) /\ doc.sel[Last(c)].set # << >> => OwnCost(c) = walk.object_cost
             /\ IsSpread(Last(c)) /\ Reenters(c) => OwnCost(c) = walk.recursion_cost
             /\ ~IsField(Last(c)) /\ ~Reenters(c) => OwnCost(c) = 0
  BY <1>2, <1>3, <1>4 DEF OwnCost
<1> QED
  BY <1>1, <1>4

(* How often a chain multiplies the costs below it by the factor.          *)
LEMMA TimesIs ==
    ASSUME doc \in Documents
    PROVE  /\ Times(<< >>) = 0
           /\ \A p \in Selections : Times(p) \in Nat
           /\ \A p \in Selections : \A n \in 1..Len(doc.sel) :
                 Times(Append(p, n)) = Times(p) + TimesBy(n)
<1> DEFINE Multiplying(p) == {i \in DOMAIN p : IsField(p[i]) /\ ~walk.flatten}
<1>1. \A p : Times(p) = Cardinality(Multiplying(p))
  BY DEF Times
<1>2. ASSUME NEW p \in Selections
      PROVE  /\ Len(p) \in Nat /\ DOMAIN p = 1..Len(p)
             /\ IsFiniteSet(Multiplying(p)) /\ Cardinality(Multiplying(p)) \in Nat
  <2>1. Len(p) \in Nat /\ DOMAIN p = 1..Len(p)
    BY LenProperties DEF Selections
  <2>2. IsFiniteSet(1..Len(p)) /\ Multiplying(p) \subseteq 1..Len(p)
    BY <2>1, FS_Interval
  <2>3. IsFiniteSet(Multiplying(p))
    BY <2>2, FS_Subset
  <2> QED
    BY <2>1, <2>3, FS_CardinalityType
<1>3. Times(<< >>) = 0
  <2>1. Multiplying(<< >>) = {}
    OBVIOUS
  <2> QED
    BY <1>1, <2>1, FS_EmptySet
<1>4. ASSUME NEW p \in Selections, NEW n \in 1..Len(doc.sel)
      PROVE  Times(Append(p, n)) = Times(p) + TimesBy(n)
  <2>1. PICK q \in Selections :
           /\ q = Append(p, n) /\ Len(q) = Len(p) + 1
           /\ \A i \in 1..Len(p) : q[i] = p[i]
           /\ q[Len(p) + 1] = n
    BY Longer DEF Selections
  <2>2. Len(p) \in Nat /\ DOMAIN p = 1..Len(p) /\ DOMAIN q = 1..Len(p) + 1
    BY <1>2, <2>1
  <2>3. CASE IsField(n) /\ ~walk.flatten
    <3>1. Multiplying(q) = Multiplying(p) \union {Len(p) + 1} /\ Len(p) + 1 \notin Multiplying(p)
      BY <2>1, <2>2, <2>3
    <3> HIDE DEF Multiplying
    <3>2. Cardinality(Multiplying(q)) = Cardinality(Multiplying(p)) + 1
      BY <1>2, <3>1, FS_AddElement
    <3> QED
      BY <1>1, <2>1, <2>3, <3>2 DEF TimesBy
  <2>4. CASE ~(IsField(n) /\ ~walk.flatten)
    <3>1. Multiplying(q) = Multiplying(p)
      BY <2>1, <2>2, <2>4
    <3> HIDE DEF Multiplying
    <3> QED
      BY <1>1, <1>2, <2>1, <2>4, <3>1 DEF TimesBy
  <2> QED
    BY <2>3, <2>4
<1> QED
  BY <1>1, <1>2, <1>3, <1>4

(* What a chain costs is a natural.                                        *)
LEMMA OwnCostTyped ==
    ASSUME doc \in Documents, walk \in Walks, NEW c
    PROVE  OwnCost(c) \in Nat
<1>1. walk.scalar_cost \in Nat /\ walk.object_cost \in Nat /\ walk.recursion_cost \in Nat
  BY WalksAssumption
<1>2. ~Reenters(c) \/ IsSpread(Last(c))
  BY DEF Reenters
<1> QED
  BY <1>1, <1>2, OwnCostIs

(* The cost of each chain of the document, as far as it is multiplied by   *)
(* the l-th power of the factor.                                           *)
CostOf(l) == [c \in Chains |-> IF Times(Front(c[2])) = l THEN OwnCost(c[2]) ELSE 0]

(* The chains of a document are finitely many, and each has its cost.      *)
LEMMA ChainsTyped ==
    ASSUME doc \in Documents, walk \in Walks
    PROVE  /\ IsFiniteSet(Chains) /\ \A l : CostOf(l) \in [Chains -> Nat]
           /\ \A o \in DOMAIN doc.ops : \A c \in ChainsOf(o) : << o, c >> \in Chains
           /\ \A c \in Chains : c[1] \in DOMAIN doc.ops /\ c[2] \in ChainsOf(c[1]) /\ c = << c[1], c[2] >>
<1>1. \A o \in DOMAIN doc.ops : IsFiniteSet({o} \X ChainsOf(o))
  BY FS_Singleton, FS_Product, ChainsAreFinite
<1>2. IsFiniteSet(DOMAIN doc.ops)
  <2>1. DOMAIN doc.ops = 1..Len(doc.ops) /\ Len(doc.ops) \in Nat
    BY SetsTyped, LenProperties
  <2> QED
    BY <2>1, FS_Interval
<1> DEFINE T == {{o} \X ChainsOf(o) : o \in DOMAIN doc.ops}
<1>3. IsFiniteSet(T)
  <2> DEFINE f == [o \in DOMAIN doc.ops |-> {o} \X ChainsOf(o)]
  <2>1. f \in Surjection(DOMAIN doc.ops, T)
    BY DEF Surjection
  <2> HIDE DEF T, f
  <2> QED
    BY <1>2, <2>1, FS_Surjection
<1>4. \A X \in T : IsFiniteSet(X)
  BY <1>1
<1>5. IsFiniteSet(Chains)
  <2>1. Chains = UNION T
    BY DEF Chains
  <2> HIDE DEF T
  <2> QED
    BY <1>3, <1>4, <2>1, FS_UNION
<1>6. ASSUME NEW o \in DOMAIN doc.ops, NEW c \in ChainsOf(o) PROVE << o, c >> \in Chains
  <2>1. << o, c >> \in {o} \X ChainsOf(o)
    OBVIOUS
  <2> QED
    BY <2>1 DEF Chains
<1>7. ASSUME NEW c \in Chains
      PROVE  c[1] \in DOMAIN doc.ops /\ c[2] \in ChainsOf(c[1]) /\ c = << c[1], c[2] >>
  <2>1. PICK o \in DOMAIN doc.ops : c \in {o} \X ChainsOf(o)
    BY DEF Chains
  <2> QED
    BY <2>1
<1>8. \A c \in Chains : OwnCost(c[2]) \in Nat
  BY OwnCostTyped
<1>9. \A l : CostOf(l) \in [Chains -> Nat]
  BY <1>8 DEF CostOf
<1> QED
  BY <1>5, <1>6, <1>7, <1>9

(* The chains in P, which go on from p, come to a where p ends: the        *)
(* longest goes on for a selections, or they cost a together once it is    *)
(* multiplied by the factor as often as p has it.                          *)
Worth(P, p, a) ==
    /\ walk.of = "depth" => /\ \A c \in P : Len(c[2]) <= Len(p) + a
                            /\ a # 0 => \E c \in P : Len(c[2]) = Len(p) + a
    /\ walk.of = "cost" =>
          \A l \in Nat : SumFunctionOnSet(CostOf(l), P) =
                            IF l < Times(p) THEN 0 ELSE Level(a, l - Times(p))

(* No chains come to nothing.                                              *)
LEMMA NoneWorth ==
    ASSUME doc \in Documents, walk \in Walks, NEW p \in Selections
    PROVE  Worth({}, p, Nothing)
<1>1. \A l \in Nat : SumFunctionOnSet(CostOf(l), {}) = 0
  BY ChainsTyped, FS_EmptySet, SumTakes
<1>2. ASSUME NEW l \in Nat, ~(l < Times(p)) PROVE Level(<< >>, l - Times(p)) = 0
  <2>1. l - Times(p) \in Nat
    BY <1>2, TimesIs
  <2> QED
    BY <2>1, CostsAdd
<1>3. walk.of \in {"depth", "cost"}
  BY WalksAssumption
<1> QED
  BY <1>1, <1>2, <1>3 DEF Worth, Nothing

(* Chains put together come to what Join makes of their values.            *)
LEMMA JoinWorth ==
    ASSUME doc \in Documents, walk \in Walks, NEW p \in Selections,
           NEW P \in SUBSET Chains, NEW Q \in SUBSET Chains, P \cap Q = {},
           NEW a \in Value, NEW v \in Value, Worth(P, p, a), Worth(Q, p, v)
    PROVE  Worth(P \union Q, p, Join(a, v))
<1>1. CASE walk.of = "depth"
  <2>1. Join(a, v) = IF a < v THEN v ELSE a
    BY <1>1 DEF Join
  <2>2. \A c \in Chains : Len(c[2]) \in Nat
    BY ChainsTyped, BeginningsAreChains
  <2>3. Len(p) \in Nat
    BY LenProperties DEF Selections
  <2>4. PICK l \in Nat : l = Len(p)
    BY <2>3
  <2> a \in Nat /\ v \in Nat
    BY <1>1 DEF Value
  <2>5. PICK b \in Nat : b = Join(a, v) /\ a <= b /\ v <= b /\ (b = a \/ b = v)
    BY <2>1
  <2>6. \A c \in P : Len(c[2]) <= l + a
    BY <1>1, <2>4 DEF Worth
  <2>7. \A c \in Q : Len(c[2]) <= l + v
    BY <1>1, <2>4 DEF Worth
  <2>8. \A c \in P \union Q : Len(c[2]) <= l + b
    BY <2>2, <2>5, <2>6, <2>7
  <2>9. ASSUME b # 0 PROVE \E c \in P \union Q : Len(c[2]) = l + b
    BY <1>1, <2>4, <2>5, <2>9 DEF Worth
  <2> QED
    BY <1>1, <2>4, <2>5, <2>8, <2>9 DEF Worth
<1>2. CASE walk.of = "cost"
  <2>1. Join(a, v) = Plus(a, v) /\ a \in Seq(Nat) /\ v \in Seq(Nat)
    BY <1>2 DEF Join, Value
  <2>2. IsFiniteSet(P) /\ IsFiniteSet(Q)
    BY ChainsTyped, FS_Subset
  <2>3. \A l : SumFunctionOnSet(CostOf(l), P \union Q) =
                 SumFunctionOnSet(CostOf(l), P) + SumFunctionOnSet(CostOf(l), Q)
    BY <2>2, ChainsTyped, SumSplits
  <2>4. PICK s \in Nat : s = Times(p)
    BY TimesIs
  <2>5. ASSUME NEW l \in Nat
        PROVE  SumFunctionOnSet(CostOf(l), P \union Q) =
                 IF l < s THEN 0 ELSE Level(Plus(a, v), l - s)
    <3>1. /\ SumFunctionOnSet(CostOf(l), P) = IF l < s THEN 0 ELSE Level(a, l - s)
          /\ SumFunctionOnSet(CostOf(l), Q) = IF l < s THEN 0 ELSE Level(v, l - s)
      BY <1>2, <2>4 DEF Worth
    <3>2. ASSUME ~(l < s) PROVE Level(Plus(a, v), l - s) = Level(a, l - s) + Level(v, l - s)
      <4>1. l - s \in Nat
        BY <3>2
      <4> QED
        BY <2>1, <4>1, CostsAdd
    <3> QED
      BY <2>3, <3>1, <3>2
  <2> QED
    BY <1>2, <2>1, <2>4, <2>5 DEF Worth
<1>3. walk.of \in {"depth", "cost"}
  BY WalksAssumption
<1> QED
  BY <1>1, <1>2, <1>3

(* The chains of operation o that go on from q, without and with q itself. *)
Under(o, q) == {c \in {o} \X ChainsOf(o) : Begins(q, c[2])}
Through(o, q) == Under(o, q) \union {<< o, q >>}

(* A chain with nothing below it is the only one through it.               *)
LEMMA NothingUnder ==
    ASSUME doc \in Documents, NEW o \in DOMAIN doc.ops, NEW q, Below(q) = << >>
    PROVE  Under(o, q) = {}
<1> SUFFICES ASSUME NEW c \in Under(o, q) PROVE FALSE
  OBVIOUS
<1>1. c[2] \in ChainsOf(o) /\ Begins(q, c[2])
  BY DEF Under
<1>2. c[2][Len(q) + 1] \in Range(Below(q))
  BY <1>1, BeginningsAreChains
<1>3. Range(<< >>) = {}
  BY DEF Range
<1> QED
  BY <1>2, <1>3

(* The chains through q are chains of the document.                        *)
LEMMA ThroughTyped ==
    ASSUME doc \in Documents, walk \in Walks, NEW o \in DOMAIN doc.ops, NEW q \in ChainsOf(o)
    PROVE  /\ Under(o, q) \in SUBSET Chains /\ Through(o, q) \in SUBSET Chains
           /\ << o, q >> \in Chains /\ << o, q >> \notin Under(o, q)
           /\ \A c \in Under(o, q) : c[2] \in Selections /\ Begins(q, c[2])
           /\ \A l : SumFunctionOnSet(CostOf(l), Through(o, q)) =
                       (IF Times(Front(q)) = l THEN OwnCost(q) ELSE 0)
                         + SumFunctionOnSet(CostOf(l), Under(o, q))
<1>1. ASSUME NEW c \in Under(o, q) PROVE c \in Chains /\ c[2] \in Selections /\ Begins(q, c[2])
  <2>1. c = << o, c[2] >> /\ c[2] \in ChainsOf(o) /\ Begins(q, c[2])
    BY DEF Under
  <2> QED
    BY <2>1, ChainsTyped, BeginningsAreChains
<1>2. << o, q >> \in Chains
  BY ChainsTyped
<1>3. << o, q >> \notin Under(o, q)
  <2>1. Len(q) \in Nat
    BY BeginningsAreChains
  <2> QED
    BY <2>1 DEF Under, Begins
<1>4. \A l : CostOf(l)[<< o, q >>] = IF Times(Front(q)) = l THEN OwnCost(q) ELSE 0
  BY <1>2 DEF CostOf
<1>5. Under(o, q) \in SUBSET Chains
  BY <1>1
<1>6. IsFiniteSet(Under(o, q))
  BY <1>5, ChainsTyped, FS_Subset
<1>7. \A l : SumFunctionOnSet(CostOf(l), Under(o, q) \union {<< o, q >>}) =
               CostOf(l)[<< o, q >>] + SumFunctionOnSet(CostOf(l), Under(o, q))
  BY <1>2, <1>3, <1>5, <1>6, ChainsTyped, SumAdds
<1> QED
  BY <1>1, <1>2, <1>3, <1>4, <1>5, <1>7 DEF Through

(* What a chain through an ignored field costs.                            *)
LEMMA IgnoredCosts ==
    ASSUME doc \in Documents, NEW c \in Selections, NEW i \in 1..Len(c), Ignored(c[i])
    PROVE  OwnCost(c) = 0
<1>1. i \in DOMAIN c
  BY LenProperties DEF Selections
<1> QED
  BY <1>1, OwnCostIs

(* A selection whose contents are walked comes to what Whole makes of      *)
(* them.                                                                   *)
LEMMA WholeWorth ==
    ASSUME doc \in Documents, walk \in Walks, NEW o \in DOMAIN doc.ops,
           NEW p \in Selections, NEW n \in 1..Len(doc.sel), Append(p, n) \in ChainsOf(o),
           NEW a \in Value, Worth(Under(o, Append(p, n)), Append(p, n), a),
           ~Reenters(Append(p, n)), IsField(n) => doc.sel[n].set # << >>,
           walk.of = "cost" => ~Ignored(n) /\ \A i \in 1..Len(p) : ~Ignored(p[i])
    PROVE  Worth(Through(o, Append(p, n)), p, Whole(n, a))
<1> DEFINE q == Append(p, n)
<1>1. /\ q \in Selections /\ Len(p) \in Nat /\ Len(q) = Len(p) + 1
      /\ \A i \in 1..Len(p) : q[i] = p[i]
      /\ q[Len(p) + 1] = n /\ Last(q) = n /\ Front(q) = p
  BY Longer DEF Selections
<1>2. q \in ChainsOf(o) /\ Worth(Under(o, q), q, a)
  OBVIOUS
<1> HIDE DEF q
<1>3. PICK l \in Nat : l = Len(p) /\ Len(q) = l + 1
  BY <1>1
<1>4. CASE walk.of = "depth"
  <2> a \in Nat
    BY <1>4 DEF Value
  <2>1. Whole(n, a) = 1 + a
    BY <1>4 DEF Whole
  <2>2. \A c \in Under(o, q) : Len(c[2]) <= (l + 1) + a
    BY <1>2, <1>3, <1>4 DEF Worth
  <2>3. a # 0 => \E c \in Under(o, q) : Len(c[2]) = (l + 1) + a
    BY <1>2, <1>3, <1>4 DEF Worth
  <2>4. << o, q >>[2] = q
    OBVIOUS
  <2>5. \A c \in Through(o, q) : Len(c[2]) <= l + (1 + a)
    <3> SUFFICES ASSUME NEW c \in Through(o, q) PROVE Len(c[2]) <= l + (1 + a)
      OBVIOUS
    <3>1. CASE c \in Under(o, q)
      <4>1. Len(c[2]) <= (l + 1) + a /\ c[2] \in Selections
        BY <1>2, <2>2, <3>1, ThroughTyped
      <4>2. Len(c[2]) \in Nat
        BY <4>1, LenProperties DEF Selections
      <4> QED
        BY <4>1, <4>2
    <3>2. CASE c = << o, q >>
      BY <1>3, <2>4, <3>2
    <3> QED
      BY <3>1, <3>2 DEF Through
  <2>6. \E c \in Through(o, q) : Len(c[2]) = l + (1 + a)
    <3>1. CASE a = 0
      <4>1. << o, q >> \in Through(o, q) /\ Len(<< o, q >>[2]) = l + (1 + a)
        BY <1>3, <2>4, <3>1 DEF Through
      <4> QED
        BY <4>1
    <3>2. CASE a # 0
      <4>1. PICK c \in Under(o, q) : Len(c[2]) = (l + 1) + a
        BY <2>3, <3>2
      <4>2. (l + 1) + a = l + (1 + a)
        OBVIOUS
      <4> QED
        BY <4>1, <4>2 DEF Through
    <3> QED
      BY <3>1, <3>2
  <2> QED
    BY <1>3, <1>4, <2>1, <2>5, <2>6 DEF Worth, q
<1>5. CASE walk.of = "cost"
  <2>1. ~\E i \in DOMAIN q : Ignored(q[i])
    <3>1. DOMAIN q = 1..Len(p) + 1
      BY <1>1, LenProperties DEF Selections
    <3> QED
      BY <1>1, <1>5, <3>1
  <2>2. PICK s \in Nat : s = Times(p)
    BY TimesIs
  <2>3. Times(q) = s + TimesBy(n) /\ Front(q) = p
    BY <1>1, <2>2, TimesIs DEF q
  <2>4. ASSUME NEW m \in Nat
        PROVE  SumFunctionOnSet(CostOf(m), Through(o, q)) =
                 (IF s = m THEN OwnCost(q) ELSE 0)
                   + IF m < s + TimesBy(n) THEN 0 ELSE Level(a, m - (s + TimesBy(n)))
    <3>1. SumFunctionOnSet(CostOf(m), Under(o, q)) =
            IF m < s + TimesBy(n) THEN 0 ELSE Level(a, m - (s + TimesBy(n)))
      <4>1. \A k \in Nat : SumFunctionOnSet(CostOf(k), Under(o, q)) =
                              IF k < Times(q) THEN 0 ELSE Level(a, k - Times(q))
        BY <1>2, <1>5 DEF Worth
      <4> QED
        BY <2>3, <4>1
    <3>2. SumFunctionOnSet(CostOf(m), Through(o, q)) =
            (IF Times(Front(q)) = m THEN OwnCost(q) ELSE 0)
              + SumFunctionOnSet(CostOf(m), Under(o, q))
      BY <1>2, ThroughTyped
    <3> QED
      BY <2>2, <2>3, <3>1, <3>2
  <2>5. a \in Seq(Nat) /\ \A m \in Nat : Level(a, m) \in Nat
    BY <1>5, CostsAdd DEF Value
  <2>6. CASE IsField(n)
    <3>1. PICK b \in Nat : b = walk.object_cost
      BY WalksAssumption
    <3>2. OwnCost(q) = b
      BY <1>1, <2>1, <2>6, <3>1, OwnCostIs
    <3>3. PICK own \in Seq(Nat) :
             own = << b >> /\ \A m \in Nat : Level(own, m) = IF m = 0 THEN b ELSE 0
      BY CostsAdd
    <3>4. CASE walk.flatten
      <4>1. Whole(n, a) = Plus(own, a) /\ TimesBy(n) = 0
        BY <1>5, <2>6, <3>1, <3>3, <3>4 DEF Whole, TimesBy
      <4>2. \A m \in Nat : Level(Plus(own, a), m) = Level(own, m) + Level(a, m)
        BY <2>5, CostsAdd
      <4>3. \A m \in Nat : Level(Whole(n, a), m) = (IF m = 0 THEN b ELSE 0) + Level(a, m)
        BY <3>3, <4>1, <4>2
      <4>4. ASSUME NEW m \in Nat
            PROVE  SumFunctionOnSet(CostOf(m), Through(o, q)) =
                     IF m < s THEN 0 ELSE Level(Whole(n, a), m - s)
        <5>1. CASE m < s
          BY <2>4, <4>1, <5>1
        <5>2. CASE ~(m < s)
          <6>1. PICK d \in Nat : d = m - s /\ (s = m <=> d = 0) /\ m - (s + 0) = d
            BY <5>2
          <6>2. SumFunctionOnSet(CostOf(m), Through(o, q)) =
                  (IF d = 0 THEN b ELSE 0) + Level(a, d)
            BY <2>4, <3>2, <4>1, <5>2, <6>1
          <6> QED
            BY <4>3, <5>2, <6>1, <6>2
        <5> QED
          BY <5>1, <5>2
      <4> QED
        BY <1>5, <2>2, <4>4 DEF Worth, q
    <3>5. CASE ~walk.flatten
      <4>1. Whole(n, a) = Plus(own, FactorTimes(a)) /\ TimesBy(n) = 1
        BY <1>5, <2>6, <3>1, <3>3, <3>5 DEF Whole, TimesBy
      <4>2. /\ FactorTimes(a) \in Seq(Nat)
            /\ \A m \in Nat : Level(FactorTimes(a), m) = IF m = 0 THEN 0 ELSE Level(a, m - 1)
        BY <2>5, CostsAdd
      <4>3. \A m \in Nat : Level(Plus(own, FactorTimes(a)), m) =
                              Level(own, m) + Level(FactorTimes(a), m)
        BY <4>2, CostsAdd
      <4>4. ASSUME NEW m \in Nat
            PROVE  Level(Whole(n, a), m) = IF m = 0 THEN b ELSE Level(a, m - 1)
        <5>1. Level(Whole(n, a), m) =
                (IF m = 0 THEN b ELSE 0) + IF m = 0 THEN 0 ELSE Level(a, m - 1)
          BY <3>3, <4>1, <4>2, <4>3
        <5>2. m # 0 => m - 1 \in Nat
          OBVIOUS
        <5> QED
          BY <2>5, <5>1, <5>2
      <4>5. ASSUME NEW m \in Nat
            PROVE  SumFunctionOnSet(CostOf(m), Through(o, q)) =
                     IF m < s THEN 0 ELSE Level(Whole(n, a), m - s)
        <5>1. CASE m < s
          BY <2>4, <4>1, <5>1
        <5>2. CASE m = s
          <6>1. m < s + 1 /\ ~(m < s) /\ m - s = 0
            BY <5>2
          <6> QED
            BY <2>4, <3>2, <4>1, <4>4, <5>2, <6>1
        <5>3. CASE m > s
          <6>1. PICK d \in Nat : d = m - s /\ d # 0 /\ m - (s + 1) = d - 1 /\ d - 1 \in Nat
            BY <5>3
          <6>2. SumFunctionOnSet(CostOf(m), Through(o, q)) = 0 + Level(a, d - 1)
            BY <2>4, <4>1, <5>3, <6>1
          <6>3. Level(a, d - 1) \in Nat
            BY <2>5, <6>1
          <6> QED
            BY <4>4, <5>3, <6>1, <6>2, <6>3
        <5> QED
          BY <5>1, <5>2, <5>3
      <4> QED
        BY <1>5, <2>2, <4>5 DEF Worth, q
    <3> QED
      BY <3>4, <3>5
  <2>7. CASE ~IsField(n)
    <3>1. OwnCost(q) = 0
      BY <1>1, <2>1, <2>7, OwnCostIs DEF q
    <3>2. Whole(n, a) = a /\ TimesBy(n) = 0
      BY <1>5, <2>7 DEF Whole, TimesBy
    <3>3. ASSUME NEW m \in Nat
          PROVE  SumFunctionOnSet(CostOf(m), Through(o, q)) =
                   IF m < s THEN 0 ELSE Level(a, m - s)
      <4>1. SumFunctionOnSet(CostOf(m), Through(o, q)) =
              0 + IF m < s THEN 0 ELSE Level(a, m - s)
        BY <2>4, <3>1, <3>2
      <4>2. ~(m < s) => m - s \in Nat
        OBVIOUS
      <4> QED
        BY <2>5, <4>1, <4>2
    <3> QED
      BY <1>5, <2>2, <3>2, <3>3 DEF Worth, q
  <2> QED
    BY <2>6, <2>7
<1>6. walk.of \in {"depth", "cost"}
  BY WalksAssumption
<1> QED
  BY <1>4, <1>5, <1>6

(* A selection that is alone below p, and goes no deeper.                  *)
LEMMA AloneWorth ==
    ASSUME doc \in Documents, walk \in Walks, NEW o \in DOMAIN doc.ops,
           NEW p \in Selections, NEW n \in 1..Len(doc.sel), Append(p, n) \in ChainsOf(o),
           Below(Append(p, n)) = << >>, NEW v,
           walk.of = "depth" => v = 1,
           walk.of = "cost" =>
              \A l \in Nat : Level(v, l) = IF l = 0 THEN OwnCost(Append(p, n)) ELSE 0
    PROVE  Worth(Through(o, Append(p, n)), p, v)
<1> DEFINE q == Append(p, n)
<1>1. q \in ChainsOf(o) /\ Under(o, q) = {} /\ Len(q) = Len(p) + 1 /\ Front(q) = p
  BY NothingUnder, Longer DEF Selections
<1> HIDE DEF q
<1>2. Through(o, q) = {<< o, q >>}
  BY <1>1 DEF Through
<1>3. CASE walk.of = "depth"
  <2>1. Len(p) \in Nat /\ << o, q >>[2] = q
    BY LenProperties DEF Selections
  <2>2. v = 1
    BY <1>3
  <2> QED
    BY <1>1, <1>2, <1>3, <2>1, <2>2 DEF Worth, q
<1>4. CASE walk.of = "cost"
  <2>1. PICK s \in Nat : s = Times(p)
    BY TimesIs
  <2>2. PICK x \in Nat : x = OwnCost(q)
    BY OwnCostTyped
  <2>3. ASSUME NEW l \in Nat
        PROVE  SumFunctionOnSet(CostOf(l), Through(o, q)) =
                 IF l < s THEN 0 ELSE Level(v, l - s)
    <3>1. SumFunctionOnSet(CostOf(l), {}) = 0
      BY ChainsTyped, FS_EmptySet, SumTakes
    <3>2. SumFunctionOnSet(CostOf(l), Through(o, q)) = (IF s = l THEN x ELSE 0) + 0
      <4>1. SumFunctionOnSet(CostOf(l), Through(o, q)) =
              (IF Times(Front(q)) = l THEN OwnCost(q) ELSE 0)
                + SumFunctionOnSet(CostOf(l), Under(o, q))
        BY <1>1, ThroughTyped
      <4> QED
        BY <1>1, <2>1, <2>2, <3>1, <4>1
    <3>3. ~(l < s) => Level(v, l - s) = IF l - s = 0 THEN x ELSE 0
      <4>1. ~(l < s) => l - s \in Nat
        OBVIOUS
      <4> QED
        BY <1>4, <2>2, <4>1 DEF q
    <3> QED
      BY <3>2, <3>3
  <2> QED
    BY <1>4, <2>1, <2>3 DEF Worth, q
<1>5. walk.of \in {"depth", "cost"}
  BY WalksAssumption
<1> QED
  BY <1>3, <1>4, <1>5

(* A selection with nothing to walk below it comes to Leaf.                *)
LEMMA LeafWorth ==
    ASSUME doc \in Documents, walk \in Walks, NEW o \in DOMAIN doc.ops,
           NEW p \in Selections, NEW n \in 1..Len(doc.sel), Append(p, n) \in ChainsOf(o),
           Below(Append(p, n)) = << >>, ~Reenters(Append(p, n)),
           IsField(n) => doc.sel[n].set = << >>,
           walk.of = "cost" => ~Ignored(n) /\ \A i \in 1..Len(p) : ~Ignored(p[i])
    PROVE  Worth(Through(o, Append(p, n)), p, Leaf(n))
<1> DEFINE q == Append(p, n)
<1>1. /\ q \in Selections /\ Len(p) \in Nat /\ Len(q) = Len(p) + 1
      /\ \A i \in 1..Len(p) : q[i] = p[i]
      /\ q[Len(p) + 1] = n /\ Last(q) = n /\ Front(q) = p
  BY Longer DEF Selections
<1>2. ~Reenters(q)
  OBVIOUS
<1> HIDE DEF q
<1>3. walk.of \in {"depth", "cost"} /\ walk.scalar_cost \in Nat
  BY WalksAssumption
<1>4. /\ walk.of = "depth" => Leaf(n) = 1
      /\ walk.of = "cost" => Leaf(n) = IF IsField(n) THEN << walk.scalar_cost >> ELSE << >>
  BY <1>3 DEF Leaf
<1>5. ASSUME walk.of = "cost", NEW l \in Nat
      PROVE  Level(Leaf(n), l) = IF l = 0 THEN OwnCost(q) ELSE 0
  <2>1. ~\E i \in DOMAIN q : Ignored(q[i])
    <3>1. DOMAIN q = 1..Len(p) + 1
      BY <1>1, LenProperties DEF Selections
    <3> QED
      BY <1>1, <1>5, <3>1
  <2>2. IsField(n) => OwnCost(q) = walk.scalar_cost
    BY <1>1, <2>1, OwnCostIs
  <2>3. ~IsField(n) => OwnCost(q) = 0
    BY <1>1, <1>2, <2>1, OwnCostIs
  <2>4. /\ Level(<< walk.scalar_cost >>, l) = IF l = 0 THEN walk.scalar_cost ELSE 0
        /\ Level(<< >>, l) = 0
    BY <1>3, CostsAdd
  <2> QED
    BY <1>4, <1>5, <2>2, <2>3, <2>4
<1> QED
  BY <1>4, <1>5, AloneWorth DEF q

(* A spread that would enter its fragment again comes to Revisit.          *)
LEMMA RevisitWorth ==
    ASSUME doc \in Documents, walk \in Walks, NEW o \in DOMAIN doc.ops,
           NEW p \in Selections, NEW n \in 1..Len(doc.sel), Append(p, n) \in ChainsOf(o),
           Reenters(Append(p, n)),
           walk.of = "cost" => ~Ignored(n) /\ \A i \in 1..Len(p) : ~Ignored(p[i])
    PROVE  Worth(Through(o, Append(p, n)), p, Revisit)
<1> DEFINE q == Append(p, n)
<1>1. /\ q \in Selections /\ q # << >> /\ Len(p) \in Nat /\ Len(q) = Len(p) + 1
      /\ \A i \in 1..Len(p) : q[i] = p[i]
      /\ q[Len(p) + 1] = n /\ Last(q) = n /\ Front(q) = p
  BY Longer DEF Selections
<1>2. Reenters(q)
  OBVIOUS
<1> HIDE DEF q
<1>3. IsSpread(n)
  BY <1>1, <1>2 DEF Reenters
<1>4. Below(q) = << >>
  BY <1>1, <1>2, <1>3, BelowIs
<1>5. walk.of \in {"depth", "cost"} /\ walk.recursion_cost \in Nat
  BY WalksAssumption
<1>6. /\ walk.of = "depth" => Revisit = 1
      /\ walk.of = "cost" => Revisit = << walk.recursion_cost >>
  BY <1>5 DEF Revisit
<1>7. ASSUME walk.of = "cost", NEW l \in Nat
      PROVE  Level(Revisit, l) = IF l = 0 THEN OwnCost(q) ELSE 0
  <2>1. ~\E i \in DOMAIN q : Ignored(q[i])
    <3>1. DOMAIN q = 1..Len(p) + 1
      BY <1>1, LenProperties DEF Selections
    <3> QED
      BY <1>1, <1>7, <3>1
  <2>2. OwnCost(q) = walk.recursion_cost
    BY <1>1, <1>2, <1>3, <2>1, OwnCostIs
  <2>3. Level(<< walk.recursion_cost >>, l) = IF l = 0 THEN walk.recursion_cost ELSE 0
    BY <1>5, CostsAdd
  <2> QED
    BY <1>6, <1>7, <2>2, <2>3
<1> QED
  BY <1>4, <1>6, <1>7, AloneWorth DEF q

(* An ignored field costs nothing, nor does what is below it.              *)
LEMMA IgnoredWorth ==
    ASSUME doc \in Documents, walk \in Walks, NEW o \in DOMAIN doc.ops,
           NEW p \in Selections, NEW n \in 1..Len(doc.sel), Append(p, n) \in ChainsOf(o),
           Ignored(n)
    PROVE  Worth(Through(o, Append(p, n)), p, Nothing)
<1> DEFINE q == Append(p, n)
<1>1. /\ q \in Selections /\ q # << >> /\ Len(p) \in Nat /\ Len(q) = Len(p) + 1
      /\ q[Len(p) + 1] = n
  BY Longer DEF Selections
<1>2. q \in ChainsOf(o)
  OBVIOUS
<1> HIDE DEF q
<1>3. ASSUME NEW l \in Nat, NEW c \in Through(o, q) PROVE CostOf(l)[c] = 0
  <2>1. CASE c = << o, q >>
    <3>1. OwnCost(q) = 0
      BY <1>1, IgnoredCosts
    <3> QED
      BY <1>2, <2>1, <3>1, ThroughTyped DEF CostOf
  <2>2. CASE c \in Under(o, q)
    <3>1. c \in Chains /\ c[2] \in Selections /\ Begins(q, c[2])
      BY <1>2, <2>2, ThroughTyped
    <3>2. Len(p) + 1 \in 1..Len(c[2]) /\ c[2][Len(p) + 1] = n
      <4>1. Len(c[2]) \in Nat
        BY <3>1, LenProperties DEF Selections
      <4> QED
        BY <1>1, <3>1, <4>1 DEF Begins
    <3>3. OwnCost(c[2]) = 0
      BY <3>1, <3>2, IgnoredCosts
    <3> QED
      BY <3>1, <3>3 DEF CostOf
  <2> QED
    BY <2>1, <2>2 DEF Through
<1>4. \A l \in Nat : SumFunctionOnSet(CostOf(l), Through(o, q)) = 0
  <2>1. Through(o, q) \in SUBSET Chains
    BY <1>2, ThroughTyped
  <2>2. IsFiniteSet(Through(o, q))
    BY <2>1, ChainsTyped, FS_Subset
  <2> QED
    BY <1>3, <2>1, <2>2, ChainsTyped, SumOfZeroes
<1>5. ASSUME NEW l \in Nat, ~(l < Times(p)) PROVE Level(<< >>, l - Times(p)) = 0
  <2>1. l - Times(p) \in Nat
    BY <1>5, TimesIs
  <2> QED
    BY <2>1, CostsAdd
<1>6. walk.of = "cost"
  BY DEF Ignored
<1>7. Nothing = << >>
  BY <1>6 DEF Nothing
<1> QED
  BY <1>4, <1>5, <1>6, <1>7 DEF Worth, q

-----------------------------------------------------------------------------
(***************************************************************************)
(* The frames of a walk, and the chains each has taken the value of.       *)
(***************************************************************************)

(* The set that frame i of the stack s walks, in operation o.              *)
SetAt(o, s, i) == IF i = 1 THEN doc.ops[o] ELSE Below(Path(s, i))

(* The chains of operation o that frame i of the stack s has taken the     *)
(* value of.                                                               *)
Handled(o, s, i) == {c \in {o} \X ChainsOf(o) : Taken(s, i, c[2])}

(* Frame i of the stack s is for a chain of operation o, has selections of *)
(* its set still to do, each once, and is worth the chains it handled.     *)
FrameSound(o, s, i) ==
    /\ IsInjective(s[i].todo) /\ Range(s[i].todo) \subseteq Range(SetAt(o, s, i))
    /\ i > 1 => /\ Path(s, i) \in ChainsOf(o)
                /\ IsField(s[i].node) => doc.sel[s[i].node].set # << >>
                /\ walk.of = "cost" => ~Ignored(s[i].node)
    /\ Worth(Handled(o, s, i), Path(s, i), s[i].acc)

(* The chains of the operations before o.                                  *)
Finished(o) == {c \in Chains : c[1] < o}

(* Between steps every frame of the call stack is sound, and the total is  *)
(* worth the chains of the operations that are done (max_depth_document    *)
(* and compute_cost, graphql_security.rs:326-408, 454-553).                *)
WalkInv ==
    /\ Inv
    /\ stack = << >> => op \notin DOMAIN doc.ops
    /\ \A i \in 1..Len(stack) : FrameSound(op, stack, i)
    /\ Worth(Finished(op), << >>, total)
(* A selection put at the end of a path.                                   *)
LEMMA LongerChain ==
    \A p \in Selections : \A n \in 1..Len(doc.sel) :
       /\ Append(p, n) \in Selections /\ Append(p, n) # << >>
       /\ Len(Append(p, n)) = Len(p) + 1
       /\ \A j \in 1..Len(p) : Append(p, n)[j] = p[j]
       /\ Append(p, n)[Len(p) + 1] = n
  BY Longer DEF Selections

(* The path of a sound frame.                                              *)
LEMMA PathIs ==
    ASSUME doc \in Documents, walk \in Walks, NEW o \in DOMAIN doc.ops, NEW s,
           NEW i \in Nat \ {0}, FrameSound(o, s, i)
    PROVE  /\ Path(s, i) \in Selections /\ Len(Path(s, i)) = i - 1
           /\ \A j \in 1..i - 1 : Path(s, i)[j] = s[j + 1].node
           /\ i = 1 => Path(s, i) = << >>
           /\ i > 1 => Path(s, i) # << >>
           /\ SetAt(o, s, i) \in Selections
<1>1. \A j \in 1..i - 1 : Path(s, i)[j] = s[j + 1].node
  BY DEF Path
<1>2. CASE i = 1
  <2>1. Path(s, i) = << >>
    BY <1>2 DEF Path
  <2>2. << >> \in Selections /\ Len(<< >>) = 0
    BY EmptySeq DEF Selections
  <2> QED
    BY <1>1, <1>2, <2>1, <2>2, SetsTyped DEF SetAt
<1>3. CASE i > 1
  <2>1. Path(s, i) \in ChainsOf(o)
    BY <1>3 DEF FrameSound
  <2>2. Path(s, i) \in Selections /\ Path(s, i) # << >>
    BY <2>1, BeginningsAreChains
  <2>3. DOMAIN Path(s, i) = 1..i - 1
    BY DEF Path
  <2>4. DOMAIN Path(s, i) = 1..Len(Path(s, i)) /\ Len(Path(s, i)) \in Nat
    BY <2>2, LenProperties DEF Selections
  <2>5. Len(Path(s, i)) = i - 1
    BY <1>3, <2>3, <2>4
  <2> QED
    BY <1>1, <1>3, <2>2, <2>5, BelowIs DEF SetAt
<1> QED
  BY <1>2, <1>3

(* What a frame has handled, in terms of its path.                         *)
LEMMA HandledIs ==
    ASSUME doc \in Documents, walk \in Walks, NEW o \in DOMAIN doc.ops, NEW s,
           NEW i \in Nat \ {0}, FrameSound(o, s, i)
    PROVE  /\ Handled(o, s, i) \in SUBSET Chains
           /\ i > 1 => Handled(o, s, i) = {c \in Under(o, Path(s, i)) : c[2][i] \notin Range(s[i].todo)}
           /\ i = 1 => Handled(o, s, i) = {c \in {o} \X ChainsOf(o) : c[2][1] \notin Range(s[1].todo)}
<1>1. \A c \in {o} \X ChainsOf(o) : c \in Chains /\ Len(c[2]) \in Nat \ {0}
  <2> SUFFICES ASSUME NEW c \in {o} \X ChainsOf(o) PROVE c \in Chains /\ Len(c[2]) \in Nat \ {0}
    OBVIOUS
  <2>1. c = << o, c[2] >> /\ c[2] \in ChainsOf(o)
    OBVIOUS
  <2> QED
    BY <2>1, ChainsTyped, BeginningsAreChains
<1>2. Handled(o, s, i) \in SUBSET Chains
  BY <1>1 DEF Handled, Taken
<1>3. ASSUME i > 1
      PROVE  Handled(o, s, i) = {c \in Under(o, Path(s, i)) : c[2][i] \notin Range(s[i].todo)}
  <2>1. /\ Path(s, i) \in Selections /\ Path(s, i) # << >> /\ Len(Path(s, i)) = i - 1
        /\ \A j \in 1..i - 1 : Path(s, i)[j] = s[j + 1].node
    BY <1>3, PathIs
  <2>2. \A c \in {o} \X ChainsOf(o) :
           Begins(Path(s, i), c[2]) <=> Len(c[2]) >= i /\ \A j \in 1..i - 1 : c[2][j] = s[j + 1].node
    BY <1>1, <2>1 DEF Begins
  <2> QED
    BY <2>2 DEF Handled, Taken, Under
<1>4. ASSUME i = 1
      PROVE  Handled(o, s, i) = {c \in {o} \X ChainsOf(o) : c[2][1] \notin Range(s[1].todo)}
  <2>1. \A c \in {o} \X ChainsOf(o) : Len(c[2]) >= i /\ \A j \in 1..i - 1 : c[2][j] = s[j + 1].node
    BY <1>1, <1>4
  <2> QED
    BY <1>4, <2>1 DEF Handled, Taken
<1> QED
  BY <1>2, <1>3, <1>4

(* A frame just pushed has handled nothing, and all of its set is to do.   *)
LEMMA FreshSound ==
    ASSUME doc \in Documents, walk \in Walks, NEW o \in DOMAIN doc.ops, NEW s,
           NEW i \in Nat \ {0}, IsInjective(s[i].todo), s[i].todo = SetAt(o, s, i), s[i].acc = Nothing,
           i = 1 => Path(s, i) = << >>,
           i > 1 => /\ Path(s, i) \in ChainsOf(o) /\ Len(Path(s, i)) = i - 1
                    /\ IsField(s[i].node) => doc.sel[s[i].node].set # << >>
                    /\ walk.of = "cost" => ~Ignored(s[i].node)
    PROVE  FrameSound(o, s, i)
<1>1. Path(s, i) \in Selections
  <2>1. << >> \in Selections
    BY EmptySeq DEF Selections
  <2>2. CASE i = 1
    BY <2>1, <2>2
  <2>3. CASE i > 1
    BY <2>3, BeginningsAreChains
  <2> QED
    BY <2>2, <2>3
<1>2. ASSUME NEW c \in Handled(o, s, i) PROVE FALSE
  <2>1. /\ c[2] \in ChainsOf(o) /\ Len(c[2]) >= i /\ \A j \in 1..i - 1 : c[2][j] = s[j + 1].node
        /\ c[2][i] \notin Range(SetAt(o, s, i))
    BY <1>2 DEF Handled, Taken
  <2>2. CASE i = 1
    BY <2>1, <2>2, BeginningsAreChains DEF SetAt
  <2>3. CASE i > 1
    <3>1. Path(s, i) # << >> /\ \A j \in 1..i - 1 : Path(s, i)[j] = s[j + 1].node
      BY <2>3, BeginningsAreChains DEF Path
    <3>2. Len(c[2]) \in Nat
      BY <2>1, BeginningsAreChains
    <3>3. Begins(Path(s, i), c[2])
      <4>1. Len(Path(s, i)) = i - 1 /\ i - 1 < Len(c[2])
        BY <2>1, <2>3, <3>2
      <4>2. \A j \in 1..i - 1 : Path(s, i)[j] = c[2][j]
        BY <2>1, <3>1
      <4> QED
        BY <1>1, <3>1, <4>1, <4>2 DEF Begins
    <3>4. c[2][i - 1 + 1] \in Range(Below(Path(s, i)))
      BY <2>1, <2>3, <3>3, BeginningsAreChains
    <3>5. i - 1 + 1 = i
      OBVIOUS
    <3> QED
      BY <2>1, <2>3, <3>4, <3>5 DEF SetAt
  <2> QED
    BY <2>2, <2>3
<1>3. Handled(o, s, i) = {}
  BY <1>2
<1>4. Worth(Handled(o, s, i), Path(s, i), Nothing)
  BY <1>1, <1>3, NoneWorth
<1> QED
  BY <1>4 DEF FrameSound

(* The selection at the head of a set, and those after it.                 *)
LEMMA HeadAndTail ==
    ASSUME NEW todo \in Selections, todo # << >>, IsInjective(todo)
    PROVE  /\ Head(todo) \in Range(todo) /\ Head(todo) \in 1..Len(doc.sel)
           /\ Tail(todo) \in Selections /\ IsInjective(Tail(todo))
           /\ Range(Tail(todo)) = Range(todo) \ {Head(todo)}
<1>1. /\ Head(todo) \in 1..Len(doc.sel) /\ Tail(todo) \in Selections
      /\ Len(Tail(todo)) = Len(todo) - 1 /\ Len(todo) \in Nat \ {0}
      /\ \A i \in 1..Len(Tail(todo)) : Tail(todo)[i] = todo[i + 1]
      /\ Head(todo) = todo[1]
  BY HeadTailProperties, EmptySeq DEF Selections
<1>2. DOMAIN todo = 1..Len(todo) /\ DOMAIN Tail(todo) = 1..Len(todo) - 1
  BY <1>1, LenProperties DEF Selections
<1>3. Head(todo) \in Range(todo)
  BY <1>1, <1>2 DEF Range
<1>4. IsInjective(Tail(todo))
  BY <1>1, <1>2 DEF IsInjective
<1>5. ASSUME NEW n PROVE n \in Range(Tail(todo)) <=> n \in Range(todo) /\ n # Head(todo)
  <2>1. ASSUME n \in Range(Tail(todo)) PROVE n \in Range(todo) /\ n # Head(todo)
    <3>1. PICK i \in 1..Len(todo) - 1 : n = todo[i + 1]
      BY <1>1, <1>2, <2>1 DEF Range
    <3>2. i + 1 \in DOMAIN todo /\ 1 \in DOMAIN todo /\ i + 1 # 1
      BY <1>1, <1>2
    <3> QED
      BY <1>1, <3>1, <3>2 DEF Range, IsInjective
  <2>2. ASSUME n \in Range(todo), n # Head(todo) PROVE n \in Range(Tail(todo))
    <3>1. PICK i \in 1..Len(todo) : n = todo[i]
      BY <1>2, <2>2 DEF Range
    <3>2. i # 1
      BY <1>1, <2>2, <3>1
    <3>3. PICK j \in 1..Len(todo) - 1 : j + 1 = i
      <4>1. i - 1 \in 1..Len(todo) - 1 /\ (i - 1) + 1 = i
        BY <1>1, <3>2
      <4> QED
        BY <4>1
    <3> QED
      BY <1>1, <1>2, <3>1, <3>3 DEF Range
  <2> QED
    BY <2>1, <2>2
<1> QED
  BY <1>1, <1>3, <1>4, <1>5

(* The chain that ends with the selection a frame is at.                   *)
LEMMA HereIsAChain ==
    ASSUME doc \in Documents, walk \in Walks, NEW o \in DOMAIN doc.ops, NEW s,
           NEW i \in Nat \ {0}, FrameSound(o, s, i), s[i].todo \in Selections, s[i].todo # << >>
    PROVE  /\ Head(s[i].todo) \in 1..Len(doc.sel)
           /\ Append(Path(s, i), Head(s[i].todo)) \in ChainsOf(o)
<1>1. Head(s[i].todo) \in Range(s[i].todo) /\ Head(s[i].todo) \in 1..Len(doc.sel)
  BY HeadAndTail DEF FrameSound
<1>2. Head(s[i].todo) \in Range(SetAt(o, s, i))
  BY <1>1 DEF FrameSound
<1>3. CASE i = 1
  <2>1. Path(s, i) = << >> /\ SetAt(o, s, i) = doc.ops[o]
    BY <1>3, PathIs DEF SetAt
  <2>2. << Head(s[i].todo) >> \in ChainsOf(o)
    BY <1>2, <2>1, ChainsStart
  <2>3. << Head(s[i].todo) >> = Append(<< >>, Head(s[i].todo))
    BY <1>1, One
  <2> QED
    BY <1>1, <2>1, <2>2, <2>3
<1>4. CASE i > 1
  <2>1. Path(s, i) \in ChainsOf(o) /\ SetAt(o, s, i) = Below(Path(s, i))
    BY <1>4 DEF FrameSound, SetAt
  <2> QED
    BY <1>1, <1>2, <2>1, ChainsGoOn
<1> QED
  BY <1>3, <1>4

(* A frame that takes the value of the selection it is at has handled the  *)
(* chains through that selection too.                                      *)
LEMMA TakeHandles ==
    ASSUME doc \in Documents, walk \in Walks, NEW o \in DOMAIN doc.ops, NEW s, NEW t,
           NEW i \in Nat \ {0}, FrameSound(o, s, i), s[i].todo \in Selections, s[i].todo # << >>,
           \A j \in 1..i - 1 : t[j + 1].node = s[j + 1].node,
           t[i].todo = Tail(s[i].todo)
    PROVE  LET q == Append(Path(s, i), Head(s[i].todo)) IN
           /\ Handled(o, t, i) = Handled(o, s, i) \union Through(o, q)
           /\ Handled(o, s, i) \cap Through(o, q) = {}
<1> DEFINE p == Path(s, i)
           n == Head(s[i].todo)
           q == Append(p, n)
<1>1. /\ p \in Selections /\ Len(p) = i - 1 /\ \A j \in 1..i - 1 : p[j] = s[j + 1].node
      /\ n \in 1..Len(doc.sel) /\ q \in ChainsOf(o)
      /\ n \in Range(s[i].todo) /\ Range(Tail(s[i].todo)) = Range(s[i].todo) \ {n}
  BY PathIs, HereIsAChain, HeadAndTail DEF FrameSound
<1> HIDE DEF p, n
<1>2. /\ q \in Selections /\ q # << >> /\ Len(q) = i
      /\ \A j \in 1..i - 1 : q[j] = p[j]
      /\ q[i] = n
  <2>1. p \in Selections /\ n \in 1..Len(doc.sel)
    BY <1>1
  <2>2. /\ q \in Selections /\ q # << >> /\ Len(q) = Len(p) + 1
        /\ \A j \in 1..Len(p) : q[j] = p[j]
    BY <2>1, LongerChain
  <2>3. q[Len(p) + 1] = n
    BY <2>1, LongerChain
  <2>4. Len(p) + 1 = i
    BY <1>1
  <2> HIDE DEF q
  <2> QED
    BY <1>1, <2>2, <2>3, <2>4
<1> HIDE DEF q
<1>3. \A c \in {o} \X ChainsOf(o) : c = << o, c[2] >> /\ c[2] \in Selections /\ Len(c[2]) \in Nat
  BY BeginningsAreChains
<1> DEFINE On(d) == Len(d) >= i /\ \A j \in 1..i - 1 : d[j] = s[j + 1].node
<1>4. ASSUME NEW c \in {o} \X ChainsOf(o)
      PROVE  c \in Through(o, q) <=> On(c[2]) /\ c[2][i] = n
  <2>1. ASSUME c \in Through(o, q) PROVE On(c[2]) /\ c[2][i] = n
    <3>1. CASE c \in Under(o, q)
      <4>1. /\ Len(q) < Len(c[2]) /\ \A j \in 1..Len(q) : q[j] = c[2][j]
        BY <3>1 DEF Under, Begins
      <4>2. \A j \in 1..i - 1 : j \in 1..i
        OBVIOUS
      <4> QED
        BY <1>1, <1>2, <1>3, <4>1, <4>2
    <3>2. CASE c = << o, q >>
      BY <1>1, <1>2, <3>2
    <3> QED
      BY <2>1, <3>1, <3>2 DEF Through
  <2>2. ASSUME On(c[2]), c[2][i] = n PROVE c \in Through(o, q)
    <3>1. \A j \in 1..i : q[j] = c[2][j]
      BY <1>1, <1>2, <2>2
    <3>2. CASE Len(c[2]) = i
      <4>1. c[2] = q
        BY <1>2, <1>3, <3>1, <3>2, SeqEqual DEF Selections
      <4> QED
        BY <1>3, <4>1 DEF Through
    <3>3. CASE Len(c[2]) # i
      <4>1. Begins(q, c[2])
        BY <1>2, <1>3, <2>2, <3>1, <3>3 DEF Begins
      <4> QED
        BY <4>1 DEF Through, Under
    <3> QED
      BY <3>2, <3>3
  <2> QED
    BY <2>1, <2>2
<1>5. \A c \in Through(o, q) : c \in {o} \X ChainsOf(o)
  BY <1>1 DEF Through, Under
<1>6. Handled(o, s, i) = {c \in {o} \X ChainsOf(o) : On(c[2]) /\ c[2][i] \notin Range(s[i].todo)}
  BY DEF Handled, Taken
<1>7. Handled(o, t, i) = {c \in {o} \X ChainsOf(o) : On(c[2]) /\ c[2][i] \notin Range(Tail(s[i].todo))}
  BY DEF Handled, Taken
<1>8. Handled(o, t, i) = Handled(o, s, i) \union Through(o, q)
  <2> HIDE DEF On
  <2> QED
    BY <1>1, <1>4, <1>5, <1>6, <1>7
<1>9. Handled(o, s, i) \cap Through(o, q) = {}
  <2> HIDE DEF On
  <2> QED
    BY <1>1, <1>4, <1>5, <1>6
<1> QED
  BY <1>8, <1>9 DEF p, n, q

(* It is sound for that if the value is what those chains are worth.       *)
LEMMA TakeSound ==
    ASSUME doc \in Documents, walk \in Walks, NEW o \in DOMAIN doc.ops, NEW s, NEW t,
           NEW i \in Nat \ {0}, FrameSound(o, s, i), s[i].todo \in Selections, s[i].todo # << >>,
           s[i].acc \in Value, NEW v \in Value,
           \A j \in 1..i - 1 : t[j + 1].node = s[j + 1].node,
           i > 1 => t[i].node = s[i].node,
           t[i].todo = Tail(s[i].todo), t[i].acc = Join(s[i].acc, v),
           Worth(Through(o, Append(Path(s, i), Head(s[i].todo))), Path(s, i), v)
    PROVE  FrameSound(o, t, i)
<1> DEFINE q == Append(Path(s, i), Head(s[i].todo))
<1>1. Path(s, i) \in Selections /\ Handled(o, s, i) \in SUBSET Chains
  BY PathIs, HandledIs
<1>2. q \in ChainsOf(o)
  BY HereIsAChain
<1>3. /\ Handled(o, t, i) = Handled(o, s, i) \union Through(o, q)
      /\ Handled(o, s, i) \cap Through(o, q) = {}
  BY TakeHandles
<1>4. Worth(Through(o, q), Path(s, i), v) /\ Worth(Handled(o, s, i), Path(s, i), s[i].acc)
  BY DEF FrameSound
<1>5. Path(t, i) = Path(s, i)
  BY DEF Path
<1> HIDE DEF q
<1>6. Through(o, q) \in SUBSET Chains
  BY <1>2, ThroughTyped
<1>7. Worth(Handled(o, t, i), Path(t, i), t[i].acc)
  BY <1>1, <1>3, <1>4, <1>5, <1>6, JoinWorth
<1>8. SetAt(o, t, i) = SetAt(o, s, i)
  BY <1>5 DEF SetAt
<1>9. IsInjective(t[i].todo) /\ Range(t[i].todo) \subseteq Range(s[i].todo)
  BY HeadAndTail DEF FrameSound
<1> QED
  BY <1>5, <1>7, <1>8, <1>9 DEF FrameSound

(* A frame is as sound in one stack as in another that agrees up to it.    *)
LEMMA SameSound ==
    ASSUME NEW o, NEW s, NEW t, NEW i \in Nat \ {0}, FrameSound(o, s, i),
           \A j \in 1..i : t[j] = s[j]
    PROVE  FrameSound(o, t, i)
<1>1. t[i] = s[i] /\ \A j \in 1..i - 1 : t[j + 1] = s[j + 1]
  OBVIOUS
<1>2. Path(t, i) = Path(s, i) /\ Handled(o, t, i) = Handled(o, s, i)
  BY <1>1 DEF Path, Handled, Taken
<1> QED
  BY <1>1, <1>2 DEF FrameSound, SetAt

-----------------------------------------------------------------------------
(***************************************************************************)
(* The steps of a walk.                                                    *)
(***************************************************************************)

(* What is sound of a document and a walk stays so, for neither changes.   *)
LEMMA SameDocument ==
    ASSUME UNCHANGED <<doc, walk>>
    PROVE  /\ \A o, s, i : FrameSound(o, s, i)' <=> FrameSound(o, s, i)
           /\ \A o, a : Worth(Finished(o), << >>, a)' <=> Worth(Finished(o), << >>, a)
<1>1. \A o, s, i : FrameSound(o, s, i)' <=> FrameSound(o, s, i)
  BY DEF FrameSound, SetAt, Worth, Handled, Taken, Path, CostOf, Level, Chains, ChainsOf, OwnCost, Times,
         Ignored, IsField, Below, Reenters, SpreadsIn, IsSpread, Longest
<1>2. \A o, a : Worth(Finished(o), << >>, a)' <=> Worth(Finished(o), << >>, a)
  BY DEF Finished, Worth, CostOf, Level, Chains, ChainsOf, OwnCost, Times,
         Ignored, IsField, Below, Reenters, SpreadsIn, IsSpread, Longest
<1> QED
  BY <1>1, <1>2

(* What is left to show of a step that keeps Inv.                          *)
LEMMA StepIsSound ==
    ASSUME UNCHANGED <<doc, walk>>, Inv',
           stack' = << >> => op' \notin DOMAIN doc.ops,
           \A i \in 1..Len(stack') : FrameSound(op', stack', i),
           Worth(Finished(op'), << >>, total')
    PROVE  WalkInv'
<1>1. (\A i \in 1..Len(stack) : FrameSound(op, stack, i))'
  <2>1. \A o, s, i : FrameSound(o, s, i)' <=> FrameSound(o, s, i)
    BY SameDocument
  <2> QED
    BY <2>1
<1>2. Worth(Finished(op), << >>, total)'
  <2>1. \A o, a : Worth(Finished(o), << >>, a)' <=> Worth(Finished(o), << >>, a)
    BY SameDocument
  <2> QED
    BY <2>1
<1> QED
  BY <1>1, <1>2 DEF WalkInv

(* What a walk that is not done knows of its stack.                        *)
LEMMA WalkFacts ==
    ASSUME WalkInv, stack # << >>
    PROVE  /\ doc \in Documents /\ walk \in Walks /\ op \in DOMAIN doc.ops /\ op \in Nat /\ total \in Value
           /\ stack \in Seq(FrameType) /\ Len(stack) \in Nat \ {0} /\ Top = stack[Len(stack)]
           /\ \A i \in 1..Len(stack) : /\ FrameSound(op, stack, i)
                                       /\ stack[i].todo \in Selections /\ stack[i].acc \in Value
                                       /\ stack[i].node \in 0..Len(doc.sel)
           /\ \A i \in 2..Len(stack) :
                 stack[i - 1].todo # << >> /\ stack[i].node = Head(stack[i - 1].todo)
<1>1. TypeOK
  BY DEF WalkInv, Inv
<1>2. stack \in Seq(FrameType) /\ Len(stack) \in Nat \ {0} /\ Top = stack[Len(stack)]
  BY <1>1, FrontLast DEF TypeOK, Top
<1>3. doc \in Documents /\ walk \in Walks /\ op \in DOMAIN doc.ops /\ op \in Nat /\ total \in Value
  <2>1. DOMAIN doc.ops = 1..Len(doc.ops)
    BY <1>1, SetsTyped, LenProperties DEF TypeOK
  <2> QED
    BY <1>1, <2>1 DEF TypeOK
<1>4. \A i \in 1..Len(stack) : stack[i] \in FrameType
  BY <1>2, ElementOfSeq
<1> QED
  BY <1>1, <1>2, <1>3, <1>4 DEF WalkInv, FrameType, Selections, TypeOK

(* The path of a frame goes on from that of the frame below it.            *)
LEMMA PathGrows ==
    ASSUME WalkInv, NEW i \in 2..Len(stack)
    PROVE  /\ i - 1 \in 1..Len(stack) /\ stack[i].node \in 1..Len(doc.sel)
           /\ stack[i].node = Head(stack[i - 1].todo)
           /\ Path(stack, i - 1) \in Selections
           /\ Path(stack, i) = Append(Path(stack, i - 1), stack[i].node)
           /\ Path(stack, i) \in ChainsOf(op)
<1>1. stack # << >>
  BY EmptySeq
<1>2. Len(stack) \in Nat \ {0} /\ i - 1 \in 1..Len(stack) /\ i \in 1..Len(stack)
  BY <1>1, WalkFacts
<1>3. stack[i - 1].todo # << >> /\ stack[i].node = Head(stack[i - 1].todo)
  BY <1>1, WalkFacts
<1>4. stack[i - 1].todo \in Selections
  BY <1>1, <1>2, WalkFacts
<1>5. stack[i].node \in 1..Len(doc.sel)
  BY <1>3, <1>4, HeadTailProperties DEF Selections
<1> DEFINE p == Path(stack, i - 1)
           n == stack[i].node
<1>6. p \in Selections /\ Len(p) = i - 2 /\ \A j \in 1..i - 2 : p[j] = stack[j + 1].node
  <2>1. /\ doc \in Documents /\ walk \in Walks /\ op \in DOMAIN doc.ops
        /\ i - 1 \in Nat \ {0} /\ FrameSound(op, stack, i - 1) /\ (i - 1) - 1 = i - 2
    BY <1>1, <1>2, WalkFacts
  <2> HIDE DEF p
  <2> QED
    BY <2>1, PathIs DEF p
<1>7. Path(stack, i) \in Selections /\ Path(stack, i) \in ChainsOf(op) /\ Len(Path(stack, i)) = i - 1
  <2>1. /\ doc \in Documents /\ walk \in Walks /\ op \in DOMAIN doc.ops
        /\ i \in Nat \ {0} /\ FrameSound(op, stack, i) /\ i > 1
    BY <1>1, <1>2, WalkFacts
  <2> QED
    BY <2>1, PathIs DEF FrameSound
<1>8. \A j \in 1..i - 1 : Path(stack, i)[j] = stack[j + 1].node
  BY DEF Path
<1> HIDE DEF p, n
<1>9. /\ Append(p, n) \in Selections /\ Len(Append(p, n)) = i - 1
      /\ \A j \in 1..i - 2 : Append(p, n)[j] = stack[j + 1].node
      /\ Append(p, n)[i - 1] = n
  <2>1. n \in 1..Len(doc.sel)
    BY <1>5 DEF n
  <2>2. /\ Append(p, n) \in Selections /\ Len(Append(p, n)) = Len(p) + 1
        /\ \A j \in 1..Len(p) : Append(p, n)[j] = p[j]
        /\ Append(p, n)[Len(p) + 1] = n
    BY <1>6, <2>1, LongerChain
  <2>3. Len(p) + 1 = i - 1
    BY <1>2, <1>6
  <2> QED
    BY <1>6, <2>2, <2>3
<1>10. \A j \in 1..i - 1 : Append(p, n)[j] = Path(stack, i)[j]
  <2> SUFFICES ASSUME NEW j \in 1..i - 1 PROVE Append(p, n)[j] = Path(stack, i)[j]
    OBVIOUS
  <2>1. CASE j = i - 1
    BY <1>2, <1>8, <1>9, <2>1 DEF n
  <2>2. CASE j # i - 1
    <3>1. j \in 1..i - 2
      BY <1>2, <2>2
    <3> QED
      BY <1>8, <1>9, <3>1
  <2> QED
    BY <2>1, <2>2
<1>11. Path(stack, i) = Append(p, n)
  BY <1>7, <1>9, <1>10, SeqEqual DEF Selections
<1> QED
  BY <1>2, <1>3, <1>5, <1>6, <1>7, <1>11 DEF p, n

(* The fragments open on the path of a frame.                              *)
LEMMA OpenOnPath ==
    ASSUME WalkInv, NEW i \in 1..Len(stack)
    PROVE  SpreadsIn(Path(stack, i)) =
             {doc.sel[stack[j].node].name : j \in {j \in 2..i : IsSpread(stack[j].node)}}
<1>1. stack # << >>
  BY EmptySeq
<1>2. i \in Nat \ {0}
  BY <1>1, WalkFacts
<1>3. DOMAIN Path(stack, i) = 1..i - 1 /\ \A j \in 1..i - 1 : Path(stack, i)[j] = stack[j + 1].node
  BY DEF Path
<1> DEFINE A == {doc.sel[Path(stack, i)[j]].name : j \in {j \in 1..i - 1 : IsSpread(Path(stack, i)[j])}}
           B == {doc.sel[stack[j].node].name : j \in {j \in 2..i : IsSpread(stack[j].node)}}
<1>4. SpreadsIn(Path(stack, i)) = A
  BY <1>3 DEF SpreadsIn
<1>5. ASSUME NEW x \in A PROVE x \in B
  <2>1. PICK j \in 1..i - 1 : IsSpread(Path(stack, i)[j]) /\ x = doc.sel[Path(stack, i)[j]].name
    BY <1>5
  <2>2. j + 1 \in 2..i
    BY <1>2
  <2> QED
    BY <1>3, <2>1, <2>2
<1>6. ASSUME NEW x \in B PROVE x \in A
  <2>1. PICK j \in 2..i : IsSpread(stack[j].node) /\ x = doc.sel[stack[j].node].name
    BY <1>6
  <2>2. PICK l \in 1..i - 1 : l + 1 = j
    <3>1. j - 1 \in 1..i - 1 /\ (j - 1) + 1 = j
      BY <1>2
    <3> QED
      BY <3>1
  <2>3. Path(stack, i)[l] = stack[j].node
    BY <1>3, <2>2
  <2> QED
    BY <2>1, <2>3
<1> QED
  BY <1>4, <1>5, <1>6

(* What the selections above the one a walk is at have open is `visiting'. *)
LEMMA VisitingIsOnThePath ==
    ASSUME WalkInv, Walking
    PROVE  LET p == Path(stack, Len(stack)) IN
           /\ p \in Selections /\ Here \in 1..Len(doc.sel)
           /\ Append(p, Here) \in ChainsOf(op) /\ Append(p, Here) \in Selections
           /\ Append(p, Here) # << >> /\ Last(Append(p, Here)) = Here
           /\ Reenters(Append(p, Here)) <=> IsSpread(Here) /\ doc.sel[Here].name \in visiting
           /\ walk.of = "cost" => \A i \in 1..Len(p) : ~Ignored(p[i])
<1> DEFINE k == Len(stack)
           p == Path(stack, k)
<1>1. /\ doc \in Documents /\ walk \in Walks /\ op \in DOMAIN doc.ops
      /\ k \in Nat \ {0} /\ k \in 1..k /\ Top = stack[k] /\ FrameSound(op, stack, k)
      /\ stack[k].todo \in Selections /\ stack[k].todo # << >> /\ Here = Head(stack[k].todo)
      /\ \A i \in 1..k : FrameSound(op, stack, i)
  BY WalkFacts DEF Walking, Here
<1>2. /\ p \in Selections /\ Len(p) = k - 1
      /\ \A j \in 1..k - 1 : p[j] = stack[j + 1].node
  <2> HIDE DEF k
  <2> QED
    BY <1>1, PathIs
<1>3. Here \in 1..Len(doc.sel) /\ Append(p, Here) \in ChainsOf(op)
  <2> HIDE DEF k
  <2> QED
    BY <1>1, HereIsAChain
<1>4. SpreadsIn(p) = visiting
  <2>1. visiting = {doc.sel[stack[j].node].name : j \in {j \in 2..k : IsSpread(stack[j].node)}}
    BY DEF WalkInv, Inv, VisitingIsTheOpenPath
  <2> QED
    BY <1>1, <2>1, OpenOnPath
<1> HIDE DEF p
<1>5. /\ Append(p, Here) \in Selections /\ Append(p, Here) # << >>
      /\ Last(Append(p, Here)) = Here /\ Front(Append(p, Here)) = p
  <2>1. p \in Seq(1..Len(doc.sel))
    BY <1>2 DEF Selections
  <2> QED
    BY <1>3, <2>1, Longer DEF Selections
<1>6. Reenters(Append(p, Here)) <=> IsSpread(Here) /\ doc.sel[Here].name \in visiting
  BY <1>4, <1>5 DEF Reenters
<1>7. ASSUME walk.of = "cost", NEW j \in 1..Len(p) PROVE ~Ignored(p[j])
  <2>1. j \in 1..k - 1 /\ j + 1 \in 1..k /\ j + 1 > 1 /\ p[j] = stack[j + 1].node
    BY <1>1, <1>2
  <2>2. FrameSound(op, stack, j + 1)
    BY <1>1, <2>1
  <2> HIDE DEF k
  <2> QED
    BY <1>7, <2>1, <2>2 DEF FrameSound
<1> QED
  BY <1>2, <1>3, <1>5, <1>6, <1>7 DEF p, k

(* The frame on top takes the value of a selection whose contents are not  *)
(* walked.                                                                 *)
LEMMA SettleKeepsWalkInv ==
    ASSUME WalkInv, Walking, NEW v \in Value, Settle(v),
           LET p == Path(stack, Len(stack)) IN Worth(Through(op, Append(p, Here)), p, v)
    PROVE  WalkInv'
<1> DEFINE k == Len(stack)
<1>1. /\ doc \in Documents /\ walk \in Walks /\ op \in DOMAIN doc.ops
      /\ k \in Nat \ {0} /\ Top = stack[k] /\ FrameSound(op, stack, k)
      /\ stack[k].todo \in Selections /\ stack[k].todo # << >> /\ Here = Head(stack[k].todo)
      /\ stack[k].acc \in Value /\ stack \in Seq(FrameType)
      /\ \A i \in 1..k : FrameSound(op, stack, i)
  BY WalkFacts DEF Walking, Here
<1>2. Inv /\ TypeOK /\ UNCHANGED <<doc, walk, op, visiting, total>>
  BY DEF WalkInv, Inv, Settle
<1>3. Inv'
  BY <1>2, SettleKeepsInv
<1>4. /\ Len(stack') = k /\ \A i \in 1..k - 1 : stack'[i] = stack[i]
      /\ stack'[k].node = stack[k].node /\ stack'[k] = Take(stack[k], v)
  BY <1>1, <1>2, SettleStack
<1>5. stack'[k].todo = Tail(stack[k].todo) /\ stack'[k].acc = Join(stack[k].acc, v)
  <2>1. stack[k] \in FrameType
    BY <1>1, ElementOfSeq
  <2> HIDE DEF k
  <2> QED
    BY <1>4, <2>1 DEF Take, FrameType
<1>6. Worth(Through(op, Append(Path(stack, k), Head(stack[k].todo))), Path(stack, k), v)
  BY <1>1
<1> HIDE DEF k
<1>7. FrameSound(op, stack', k)
  <2>1. \A j \in 1..k - 1 : stack'[j + 1].node = stack[j + 1].node
    <3> SUFFICES ASSUME NEW j \in 1..k - 1 PROVE stack'[j + 1].node = stack[j + 1].node
      OBVIOUS
    <3>1. j + 1 \in 1..k - 1 \/ j + 1 = k
      BY <1>1
    <3> QED
      BY <1>4, <3>1
  <2> QED
    BY <1>1, <1>4, <1>5, <1>6, <2>1, TakeSound
<1>8. \A i \in 1..k : FrameSound(op, stack', i)
  <2> SUFFICES ASSUME NEW i \in 1..k, i # k PROVE FrameSound(op, stack', i)
    BY <1>7
  <2>1. FrameSound(op, stack, i) /\ i \in Nat \ {0} /\ \A j \in 1..i : j \in 1..k - 1
    BY <1>1
  <2>2. \A j \in 1..i : stack'[j] = stack[j]
    BY <1>4, <2>1
  <2> QED
    BY <2>1, <2>2, SameSound
<1>9. Worth(Finished(op), << >>, total)
  BY DEF WalkInv
<1>10. stack' # << >>
  BY <1>1, <1>4, EmptySeq
<1> QED
  BY <1>2, <1>3, <1>4, <1>8, <1>9, <1>10, StepIsSound

(* The set below a selection is entered.                                   *)
LEMMA DescendKeepsWalkInv ==
    ASSUME WalkInv, Walking, NEW set \in Selections, IsInjective(set), Descend(Here, set),
           \/ ~IsSpread(Here) /\ visiting' = visiting
           \/ /\ IsSpread(Here)
              /\ doc.sel[Here].name \in DOMAIN doc.frags \ visiting
              /\ visiting' = visiting \union {doc.sel[Here].name},
           set = Below(Append(Path(stack, Len(stack)), Here)),
           IsField(Here) => doc.sel[Here].set # << >>,
           walk.of = "cost" => ~Ignored(Here)
    PROVE  WalkInv'
<1> DEFINE k == Len(stack)
           p == Path(stack, k)
           q == Append(p, Here)
<1>1. /\ doc \in Documents /\ walk \in Walks /\ op \in DOMAIN doc.ops
      /\ k \in Nat \ {0} /\ FrameSound(op, stack, k)
      /\ \A i \in 1..k : FrameSound(op, stack, i)
  BY WalkFacts DEF Walking
<1>2. Inv /\ TypeOK /\ UNCHANGED <<doc, walk, op, total>>
  BY DEF WalkInv, Inv, Descend
<1>3. Inv'
  BY <1>2, DescendKeepsInv
<1>4. p \in Selections /\ Here \in 1..Len(doc.sel) /\ q \in ChainsOf(op)
  BY VisitingIsOnThePath
<1>5. /\ Len(stack') = k + 1 /\ \A i \in 1..k : stack'[i] = stack[i]
      /\ stack'[k + 1] = Frame(Here, set)
  BY <1>2, <1>4, DescendStack
<1>6. stack'[k + 1].node = Here /\ stack'[k + 1].todo = set /\ stack'[k + 1].acc = Nothing
  BY <1>5 DEF Frame
<1>7. Len(p) = k - 1 /\ \A j \in 1..k - 1 : p[j] = stack[j + 1].node
  <2> HIDE DEF k
  <2> QED
    BY <1>1, PathIs
<1>8. set = Below(q)
  OBVIOUS
<1> HIDE DEF k, p, q
<1>9. /\ q \in Selections /\ Len(q) = k /\ \A j \in 1..k - 1 : q[j] = p[j]
      /\ q[k] = Here
  <2>1. Len(p) + 1 = k
    BY <1>1, <1>7
  <2> QED
    BY <1>4, <1>7, <2>1, LongerChain DEF q
<1>10. Path(stack', k + 1) = q
  <2>1. \A j \in 1..k : q[j] = stack'[j + 1].node
    <3> SUFFICES ASSUME NEW j \in 1..k PROVE q[j] = stack'[j + 1].node
      OBVIOUS
    <3>1. CASE j = k
      BY <1>6, <1>9, <3>1
    <3>2. CASE j # k
      <4>1. j \in 1..k - 1 /\ j + 1 \in 1..k
        BY <1>1, <3>2
      <4> QED
        BY <1>5, <1>7, <1>9, <4>1
    <3> QED
      BY <3>1, <3>2
  <2>2. q = [j \in 1..k |-> q[j]]
    BY <1>9, LenProperties DEF Selections
  <2>3. (k + 1) - 1 = k
    BY <1>1
  <2> QED
    BY <2>1, <2>2, <2>3 DEF Path
<1>11. FrameSound(op, stack', k + 1)
  <2>1. k + 1 \in Nat \ {0} /\ k + 1 # 1 /\ (k + 1) - 1 = k
    BY <1>1
  <2>2. stack'[k + 1].todo = SetAt(op, stack', k + 1)
    BY <1>6, <1>8, <1>10, <2>1 DEF SetAt
  <2> QED
    BY <1>1, <1>4, <1>6, <1>9, <1>10, <2>1, <2>2, FreshSound
<1>12. \A i \in 1..k + 1 : FrameSound(op, stack', i)
  <2> SUFFICES ASSUME NEW i \in 1..k + 1, i # k + 1 PROVE FrameSound(op, stack', i)
    BY <1>11
  <2>1. i \in 1..k /\ i \in Nat \ {0} /\ \A j \in 1..i : j \in 1..k
    BY <1>1
  <2> QED
    BY <1>1, <1>5, <2>1, SameSound
<1>13. Worth(Finished(op), << >>, total)
  BY DEF WalkInv
<1>14. stack' # << >>
  BY <1>1, <1>5, EmptySeq
<1> QED
  BY <1>2, <1>3, <1>5, <1>12, <1>13, <1>14, StepIsSound

(* A frame with nothing left to do has handled all the chains below it.    *)
LEMMA DoneIsHandled ==
    ASSUME doc \in Documents, walk \in Walks, NEW o \in DOMAIN doc.ops, NEW s,
           NEW i \in Nat \ {0}, FrameSound(o, s, i), s[i].todo = << >>
    PROVE  Handled(o, s, i) = IF i = 1 THEN {o} \X ChainsOf(o) ELSE Under(o, Path(s, i))
<1>1. Range(<< >>) = {}
  BY DEF Range
<1>2. CASE i = 1
  <2>1. Handled(o, s, i) = {c \in {o} \X ChainsOf(o) : c[2][1] \notin Range(s[1].todo)}
    BY <1>2, HandledIs
  <2>2. Range(s[1].todo) = {}
    BY <1>1, <1>2
  <2> QED
    BY <1>2, <2>1, <2>2
<1>3. CASE i # 1
  <2>1. Handled(o, s, i) = {c \in Under(o, Path(s, i)) : c[2][i] \notin Range(s[i].todo)}
    BY <1>3, HandledIs
  <2> QED
    BY <1>1, <1>3, <2>1
<1> QED
  BY <1>2, <1>3

(* A set is done, and the frame below it takes what it comes to.           *)
LEMMA ReturnKeepsWalkInv ==
    ASSUME WalkInv, Return
    PROVE  WalkInv'
<1> DEFINE k == Len(stack)
           b == k - 1
           n == Top.node
           p == Path(stack, b)
           v == Whole(Top.node, Top.acc)
<1>1. Inv /\ TypeOK /\ UNCHANGED <<doc, walk, op, total>>
  BY DEF WalkInv, Inv, Return
<1>2. Inv'
  BY <1>1, ReturnKeepsInv
<1>3. /\ Len(stack') = k - 1 /\ k \in Nat /\ k > 1 /\ Top = stack[k]
      /\ \A i \in 1..k - 2 : stack'[i] = stack[i]
      /\ stack'[b].node = stack[b].node /\ stack'[b] = Take(stack[b], v)
  BY <1>1, ReturnStack
<1>4. stack # << >> /\ Top.todo = << >>
  BY <1>3 DEF Return
<1>5. /\ doc \in Documents /\ walk \in Walks /\ op \in DOMAIN doc.ops
      /\ k \in 1..k /\ b \in 1..k /\ k \in 2..k /\ b \in Nat \ {0} /\ k \in Nat \ {0}
      /\ \A i \in 1..k : FrameSound(op, stack, i)
      /\ stack[b].todo \in Selections /\ stack[b].acc \in Value /\ stack[b].todo # << >>
      /\ stack[k].acc \in Value
  <2>1. k \in 1..k /\ b \in 1..k /\ k \in 2..k /\ b \in Nat \ {0} /\ k \in Nat \ {0} /\ b = k - 1
    BY <1>3
  <2> HIDE DEF b, k
  <2>2. stack[k - 1].todo # << >>
    BY <1>4, <2>1, WalkFacts DEF k
  <2>3. /\ doc \in Documents /\ walk \in Walks /\ op \in DOMAIN doc.ops
        /\ \A i \in 1..k : /\ FrameSound(op, stack, i)
                           /\ stack[i].todo \in Selections /\ stack[i].acc \in Value
    BY <1>4, WalkFacts DEF k
  <2> QED
    BY <2>1, <2>2, <2>3
<1>6. /\ n \in 1..Len(doc.sel) /\ n = Head(stack[b].todo) /\ p \in Selections
      /\ Path(stack, k) = Append(p, n) /\ Append(p, n) \in ChainsOf(op)
  BY <1>3, <1>5, PathGrows
<1>7. v \in Value
  BY <1>1, <1>3, <1>5, ValuesTyped
<1>8. stack'[b].todo = Tail(stack[b].todo) /\ stack'[b].acc = Join(stack[b].acc, v)
  <2>1. stack[b] \in FrameType
    BY <1>4, <1>5, WalkFacts, ElementOfSeq
  <2> HIDE DEF k, b, v
  <2> QED
    BY <1>3, <2>1 DEF Take, FrameType
<1>9. ~Reenters(Append(p, n))
  <2>1. Last(Append(p, n)) = n /\ Front(Append(p, n)) = p
    BY <1>6, Longer DEF Selections
  <2>2. SpreadsIn(p) = {doc.sel[stack[j].node].name : j \in {j \in 2..b : IsSpread(stack[j].node)}}
    BY <1>5, OpenOnPath
  <2>3. ASSUME IsSpread(n), doc.sel[n].name \in SpreadsIn(p) PROVE FALSE
    <3>1. PICK j \in 2..b : IsSpread(stack[j].node) /\ doc.sel[n].name = doc.sel[stack[j].node].name
      BY <2>2, <2>3
    <3>2. j \in 2..k /\ j # k
      BY <1>5
    <3>3. \A i, l \in {m \in 2..k : IsSpread(stack[m].node)} :
             doc.sel[stack[i].node].name = doc.sel[stack[l].node].name => i = l
      BY <1>1 DEF Inv, VisitingIsTheOpenPath
    <3> QED
      BY <1>3, <1>5, <2>3, <3>1, <3>2, <3>3
  <2> HIDE DEF p, n
  <2> QED
    BY <2>1, <2>3 DEF Reenters
<1>10. Worth(Through(op, Append(p, n)), p, v)
  <2>1. FrameSound(op, stack, k) /\ k > 1
    BY <1>3, <1>5
  <2>2. /\ IsField(n) => doc.sel[n].set # << >>
        /\ walk.of = "cost" => ~Ignored(n)
    BY <1>3, <2>1 DEF FrameSound
  <2>3. Worth(Handled(op, stack, k), Path(stack, k), Top.acc)
    BY <1>3, <2>1 DEF FrameSound
  <2>4. Handled(op, stack, k) = Under(op, Path(stack, k))
    <3>1. stack[k].todo = << >> /\ k # 1
      BY <1>3, <1>4
    <3> HIDE DEF k
    <3> QED
      BY <1>5, <2>1, <3>1, DoneIsHandled
  <2>5. ASSUME walk.of = "cost", NEW j \in 1..Len(p) PROVE ~Ignored(p[j])
    <3>1. Len(p) = b - 1 /\ \A i \in 1..b - 1 : p[i] = stack[i + 1].node
      <4>1. FrameSound(op, stack, b)
        BY <1>5
      <4> HIDE DEF b
      <4> QED
        BY <1>5, <4>1, PathIs
    <3>2. j + 1 \in 1..k /\ j + 1 > 1 /\ p[j] = stack[j + 1].node
      BY <1>5, <3>1
    <3>3. FrameSound(op, stack, j + 1)
      BY <1>5, <3>2
    <3> HIDE DEF k, p
    <3> QED
      BY <2>5, <3>2, <3>3 DEF FrameSound
  <2>6. Top.acc \in Value
    BY <1>3, <1>5
  <2>7. Worth(Under(op, Append(p, n)), Append(p, n), Top.acc)
    BY <1>6, <2>3, <2>4
  <2> HIDE DEF p, n
  <2>8. v = Whole(n, Top.acc)
    BY DEF n
  <2> QED
    BY <1>5, <1>6, <1>9, <2>2, <2>5, <2>6, <2>7, <2>8, WholeWorth
<1> HIDE DEF v, n
<1>11. Worth(Through(op, Append(Path(stack, b), Head(stack[b].todo))), Path(stack, b), v)
  BY <1>6, <1>10
<1> HIDE DEF p, b
<1>12. b = k - 1
  BY DEF b
<1> HIDE DEF k
<1>13. FrameSound(op, stack', b)
  <2>1. \A j \in 1..b - 1 : stack'[j + 1].node = stack[j + 1].node
    <3> SUFFICES ASSUME NEW j \in 1..b - 1 PROVE stack'[j + 1].node = stack[j + 1].node
      OBVIOUS
    <3>1. j + 1 \in 1..k - 2 \/ j + 1 = b
      BY <1>5, <1>12
    <3> QED
      BY <1>3, <3>1
  <2>2. FrameSound(op, stack, b)
    BY <1>5
  <2> QED
    BY <1>3, <1>5, <1>7, <1>8, <1>11, <2>1, <2>2, TakeSound
<1>14. \A i \in 1..b : FrameSound(op, stack', i)
  <2> SUFFICES ASSUME NEW i \in 1..b, i # b PROVE FrameSound(op, stack', i)
    BY <1>13
  <2>1. i \in 1..k /\ i \in Nat \ {0} /\ \A j \in 1..i : j \in 1..k - 2
    BY <1>5, <1>12
  <2> QED
    BY <1>3, <1>5, <2>1, SameSound
<1>15. Worth(Finished(op), << >>, total)
  BY DEF WalkInv
<1>16. stack' # << >> /\ Len(stack') = b
  BY <1>3, <1>5, <1>12, EmptySeq
<1> QED
  BY <1>1, <1>2, <1>14, <1>15, <1>16, StepIsSound

(* A field or an inline fragment.                                          *)
LEMMA WalkFieldKeepsWalkInv ==
    ASSUME WalkInv, WalkField
    PROVE  WalkInv'
<1> DEFINE p == Path(stack, Len(stack))
           q == Append(p, Here)
<1>1. Walking /\ ~IsSpread(Here) /\ TypeOK
  BY DEF WalkField, WalkInv, Inv
<1>2. /\ p \in Selections /\ Here \in 1..Len(doc.sel) /\ q \in ChainsOf(op)
      /\ q \in Selections /\ q # << >> /\ Last(q) = Here
      /\ walk.of = "cost" => \A i \in 1..Len(p) : ~Ignored(p[i])
  BY <1>1, VisitingIsOnThePath
<1>3. /\ doc \in Documents /\ walk \in Walks /\ op \in DOMAIN doc.ops
  BY <1>1, WalkFacts DEF Walking
<1>4. ~Reenters(q) /\ Below(q) = doc.sel[Here].set
  <2> HIDE DEF q
  <2> QED
    BY <1>1, <1>2, <1>3, BelowIs
<1>5. CASE Ignored(Here) /\ Settle(Nothing)
  <2>1. Worth(Through(op, q), p, Nothing)
    <3> HIDE DEF p
    <3> QED
      BY <1>2, <1>3, <1>5, IgnoredWorth
  <2>2. Nothing \in Value
    BY <1>3, ValuesTyped
  <2> QED
    BY <1>1, <1>5, <2>1, <2>2, SettleKeepsWalkInv
<1>6. CASE ~Ignored(Here) /\ doc.sel[Here].set = << >> /\ Settle(Leaf(Here))
  <2>1. Worth(Through(op, q), p, Leaf(Here))
    <3> HIDE DEF p
    <3> QED
      BY <1>2, <1>3, <1>4, <1>6, LeafWorth
  <2>2. Leaf(Here) \in Value
    BY <1>3, ValuesTyped
  <2> QED
    BY <1>1, <1>6, <2>1, <2>2, SettleKeepsWalkInv
<1>7. CASE /\ ~Ignored(Here) /\ doc.sel[Here].set # << >>
           /\ Descend(Here, doc.sel[Here].set)
           /\ UNCHANGED visiting
  <2>1. doc.sel[Here].set \in Selections /\ IsInjective(doc.sel[Here].set)
    BY <1>1, <1>2, <1>3, SetsTyped, DocumentsAssumption DEF SetOnce
  <2>2. doc.sel[Here].set = Below(Append(Path(stack, Len(stack)), Here))
    BY <1>4
  <2> QED
    BY <1>1, <1>7, <2>1, <2>2, DescendKeepsWalkInv
<1> QED
  BY <1>5, <1>6, <1>7 DEF WalkField

(* A spread.                                                               *)
LEMMA WalkSpreadKeepsWalkInv ==
    ASSUME WalkInv, WalkSpread
    PROVE  WalkInv'
<1> DEFINE p == Path(stack, Len(stack))
           q == Append(p, Here)
           name == doc.sel[Here].name
<1>1. Walking /\ IsSpread(Here) /\ TypeOK
  BY DEF WalkSpread, WalkInv, Inv
<1>2. /\ p \in Selections /\ Here \in 1..Len(doc.sel) /\ q \in ChainsOf(op)
      /\ q \in Selections /\ q # << >> /\ Last(q) = Here
      /\ Reenters(q) <=> name \in visiting
      /\ walk.of = "cost" => \A i \in 1..Len(p) : ~Ignored(p[i])
  BY <1>1, VisitingIsOnThePath
<1>3. /\ doc \in Documents /\ walk \in Walks /\ op \in DOMAIN doc.ops
  BY <1>1, WalkFacts DEF Walking
<1>4. ~IsField(Here) /\ ~Ignored(Here)
  BY <1>1 DEF IsSpread, IsField, Ignored
<1>5. /\ ~Reenters(q) /\ name \in DOMAIN doc.frags => Below(q) = doc.frags[name]
      /\ name \notin DOMAIN doc.frags => Below(q) = << >>
  <2> HIDE DEF q
  <2> QED
    BY <1>1, <1>2, <1>3, BelowIs
<1>6. CASE name \in visiting /\ Settle(Revisit)
  <2>1. Worth(Through(op, q), p, Revisit)
    <3> HIDE DEF p
    <3> QED
      BY <1>2, <1>3, <1>4, <1>6, RevisitWorth
  <2>2. Revisit \in Value
    BY <1>3, ValuesTyped
  <2> QED
    BY <1>1, <1>6, <2>1, <2>2, SettleKeepsWalkInv
<1>7. CASE name \notin visiting \union DOMAIN doc.frags /\ Settle(Leaf(Here))
  <2>1. Worth(Through(op, q), p, Leaf(Here))
    <3> HIDE DEF p
    <3> QED
      BY <1>2, <1>3, <1>4, <1>5, <1>7, LeafWorth
  <2>2. Leaf(Here) \in Value
    BY <1>3, ValuesTyped
  <2> QED
    BY <1>1, <1>7, <2>1, <2>2, SettleKeepsWalkInv
<1>8. CASE /\ name \in DOMAIN doc.frags \ visiting
           /\ Descend(Here, doc.frags[name])
           /\ visiting' = visiting \union {name}
  <2>1. doc.frags[name] \in Selections /\ IsInjective(doc.frags[name])
    BY <1>3, <1>8, SetsTyped, DocumentsAssumption DEF SetOnce
  <2>2. doc.frags[name] = Below(Append(Path(stack, Len(stack)), Here))
    BY <1>2, <1>5, <1>8
  <2> QED
    BY <1>1, <1>4, <1>8, <2>1, <2>2, DescendKeepsWalkInv
<1> QED
  BY <1>6, <1>7, <1>8 DEF WalkSpread

(* The stack an operation starts on is sound: its frame is fresh.          *)
LEMMA OperationSound ==
    ASSUME doc \in Documents, walk \in Walks, NEW o
    PROVE  /\ OperationFrame(o) = << >> => o \notin DOMAIN doc.ops
           /\ \A i \in 1..Len(OperationFrame(o)) : FrameSound(o, OperationFrame(o), i)
<1>1. CASE o \in DOMAIN doc.ops
  <2> DEFINE s == OperationFrame(o)
  <2>1. s = << Frame(0, doc.ops[o]) >>
    BY <1>1 DEF OperationFrame
  <2>2. Len(s) = 1 /\ s # << >> /\ s[1].todo = doc.ops[o] /\ s[1].acc = Nothing
    BY <2>1 DEF Frame
  <2> HIDE DEF s
  <2>3. IsInjective(doc.ops[o])
    BY <1>1, DocumentsAssumption DEF SetOnce
  <2>4. SetAt(o, s, 1) = doc.ops[o] /\ Path(s, 1) = << >>
    BY DEF SetAt, Path
  <2>5. FrameSound(o, s, 1)
    BY <1>1, <2>2, <2>3, <2>4, FreshSound
  <2> QED
    BY <2>2, <2>5 DEF s
<1>2. CASE o \notin DOMAIN doc.ops
  BY <1>2 DEF OperationFrame
<1> QED
  BY <1>1, <1>2

(* An operation is done: its chains are finished.                          *)
LEMMA NextOperationKeepsWalkInv ==
    ASSUME WalkInv, NextOperation
    PROVE  WalkInv'
<1>1. /\ Inv /\ UNCHANGED <<doc, walk>> /\ Len(stack) = 1 /\ Top.todo = << >>
      /\ total' = Join(total, Top.acc) /\ op' = op + 1 /\ stack' = OperationFrame(op + 1)
  BY DEF WalkInv, NextOperation
<1>2. Inv'
  BY <1>1, NextOperationKeepsInv
<1>3. stack # << >>
  BY <1>1
<1>4. /\ doc \in Documents /\ walk \in Walks /\ op \in DOMAIN doc.ops /\ op \in Nat /\ total \in Value
      /\ Top = stack[1] /\ FrameSound(op, stack, 1) /\ stack[1].acc \in Value
  BY <1>1, <1>3, WalkFacts
<1> DEFINE P == {op} \X ChainsOf(op)
<1>5. Worth(P, << >>, Top.acc)
  <2>1. Handled(op, stack, 1) = P
    BY <1>1, <1>4, DoneIsHandled
  <2>2. Path(stack, 1) = << >>
    BY DEF Path
  <2>3. Worth(Handled(op, stack, 1), Path(stack, 1), stack[1].acc)
    BY <1>4 DEF FrameSound
  <2> HIDE DEF P
  <2> QED
    BY <1>4, <2>1, <2>2, <2>3
<1>6. \A c \in P : c \in Chains /\ c[1] = op
  <2> SUFFICES ASSUME NEW c \in P PROVE c \in Chains /\ c[1] = op
    OBVIOUS
  <2>1. c = << op, c[2] >> /\ c[2] \in ChainsOf(op)
    OBVIOUS
  <2> QED
    BY <1>4, <2>1, ChainsTyped
<1>7. \A c \in Chains : c[1] = op => c \in P
  <2> SUFFICES ASSUME NEW c \in Chains, c[1] = op PROVE c \in P
    OBVIOUS
  <2>1. c[2] \in ChainsOf(op) /\ c = << op, c[2] >>
    BY <1>4, ChainsTyped
  <2> QED
    BY <2>1
<1>8. \A c \in Chains : c[1] \in Nat
  <2>1. DOMAIN doc.ops = 1..Len(doc.ops)
    BY <1>4, SetsTyped, LenProperties
  <2> QED
    BY <1>4, <2>1, ChainsTyped
<1> HIDE DEF P
<1>9. Finished(op + 1) = Finished(op) \union P /\ Finished(op) \cap P = {}
  <2>1. \A c \in Chains : c[1] < op + 1 <=> c[1] < op \/ c[1] = op
    BY <1>4, <1>8
  <2>2. \A c \in Chains : ~(c[1] < op /\ c[1] = op)
    BY <1>4, <1>8
  <2> QED
    BY <1>6, <1>7, <2>1, <2>2 DEF Finished
<1>10. Worth(Finished(op + 1), << >>, Join(total, Top.acc))
  <2>1. << >> \in Selections
    BY EmptySeq DEF Selections
  <2>2. Finished(op) \in SUBSET Chains /\ P \in SUBSET Chains
    BY <1>6 DEF Finished
  <2>3. Worth(Finished(op), << >>, total)
    BY DEF WalkInv
  <2> QED
    BY <1>4, <1>5, <1>9, <2>1, <2>2, <2>3, JoinWorth
<1>11. /\ stack' = << >> => op' \notin DOMAIN doc.ops
       /\ \A i \in 1..Len(stack') : FrameSound(op', stack', i)
  BY <1>1, <1>4, OperationSound
<1> QED
  BY <1>1, <1>2, <1>10, <1>11, StepIsSound

(* Init: the first operation, and none finished.                           *)
LEMMA InitWalkInv == Init => WalkInv
<1> SUFFICES ASSUME Init PROVE WalkInv
  OBVIOUS
<1>1. /\ doc \in Documents /\ walk \in Walks /\ op = 1 /\ total = Nothing
      /\ stack = OperationFrame(1)
  BY DEF Init
<1>2. Inv
  BY InitInv
<1>3. Finished(1) = {}
  <2>1. \A c \in Chains : c[1] \in 1..Len(doc.ops)
    BY <1>1, SetsTyped, LenProperties, ChainsTyped
  <2> QED
    BY <2>1, <1>1, SetsTyped, LenProperties DEF Finished
<1>4. Worth(Finished(1), << >>, Nothing)
  <2>1. << >> \in Selections
    BY EmptySeq DEF Selections
  <2> QED
    BY <1>1, <1>3, <2>1, NoneWorth
<1> QED
  BY <1>1, <1>2, <1>4, OperationSound DEF WalkInv

(* Every step of a walk keeps its frames worth what they have handled.     *)
LEMMA StepKeepsWalkInv == WalkInv /\ [Next]_vars => WalkInv'
<1> SUFFICES ASSUME WalkInv, [Next]_vars PROVE WalkInv'
  OBVIOUS
<1>1. CASE UNCHANGED vars
  <2>1. UNCHANGED <<doc, walk, op, stack, total>> /\ Inv'
    BY <1>1, StepKeepsInv DEF vars, WalkInv
  <2> QED
    BY <2>1, StepIsSound DEF WalkInv
<1> QED
  BY <1>1, WalkFieldKeepsWalkInv, WalkSpreadKeepsWalkInv, ReturnKeepsWalkInv,
     NextOperationKeepsWalkInv DEF Next

-----------------------------------------------------------------------------
(***************************************************************************)
(* What a walk ends with.                                                  *)
(***************************************************************************)

(* A walk that is done is worth all the chains of its document.            *)
LEMMA DoneIsWorthAll ==
    ASSUME WalkInv, Done
    PROVE  Worth(Chains, << >>, total) /\ doc \in Documents /\ walk \in Walks /\ total \in Value
<1>1. TypeOK /\ op \notin DOMAIN doc.ops /\ Worth(Finished(op), << >>, total)
  BY DEF WalkInv, Inv, Done
<1>2. DOMAIN doc.ops = 1..Len(doc.ops) /\ Len(doc.ops) \in Nat /\ doc \in Documents /\ walk \in Walks
  BY <1>1, SetsTyped, LenProperties DEF TypeOK
<1>3. op = Len(doc.ops) + 1
  BY <1>1, <1>2 DEF TypeOK
<1>4. \A c \in Chains : c[1] \in 1..Len(doc.ops)
  BY <1>2, ChainsTyped
<1>5. Finished(op) = Chains
  BY <1>2, <1>3, <1>4 DEF Finished
<1> QED
  BY <1>1, <1>2, <1>5 DEF TypeOK

(* A member of a set that no other member exceeds is its maximum.          *)
LEMMA GreatestIs ==
    ASSUME NEW S \in SUBSET Nat, NEW m \in S, \A x \in S : x <= m
    PROVE  Max(S) = m
<1>1. \A y \in S : m >= y
  OBVIOUS
<1>2. Max(S) \in S /\ \A y \in S : Max(S) >= y
  BY <1>1 DEF Max
<1>3. Max(S) >= m /\ Max(S) <= m /\ Max(S) \in Nat
  BY <1>2
<1> QED
  BY <1>3

(* The depth a walk ends with is the length of the longest chain.          *)
LEMMA DepthIs == WalkInv => DepthIsTheLongestChain
<1> SUFFICES ASSUME WalkInv, Done, walk.of = "depth" PROVE total = Depth
  BY DEF DepthIsTheLongestChain
<1>1. Worth(Chains, << >>, total) /\ doc \in Documents /\ walk \in Walks /\ total \in Value
  BY DoneIsWorthAll
<1> total \in Nat
  BY <1>1 DEF Value
<1> DEFINE S == {0} \union {Len(c[2]) : c \in Chains}
<1>2. S \in SUBSET Nat
  <2>1. \A c \in Chains : Len(c[2]) \in Nat
    BY <1>1, ChainsTyped, BeginningsAreChains
  <2> QED
    BY <2>1
<1>3. Len(<< >>) = 0
  OBVIOUS
<1>4. /\ \A c \in Chains : Len(c[2]) <= 0 + total
      /\ total # 0 => \E c \in Chains : Len(c[2]) = 0 + total
  BY <1>1, <1>3 DEF Worth
<1>5. total \in S /\ \A x \in S : x <= total
  BY <1>1, <1>2, <1>4
<1> HIDE DEF S
<1>6. Max(S) = total
  BY <1>2, <1>5, GreatestIs
<1> QED
  BY <1>6 DEF Depth, S

(* The cost a walk ends with is the sum over the chains.                   *)
LEMMA CostIs == WalkInv => CostIsTheSumOverChains
<1> SUFFICES ASSUME WalkInv, Done, walk.of = "cost",
                    NEW l \in 0..Len(total) \union {Times(Front(c[2])) : c \in Chains}
             PROVE  Level(total, l) = CostAt(l)
  BY DEF CostIsTheSumOverChains
<1>1. Worth(Chains, << >>, total) /\ doc \in Documents /\ walk \in Walks
  BY DoneIsWorthAll
<1> l \in Nat
  <2>1. ASSUME NEW c \in Chains PROVE Times(Front(c[2])) \in Nat
    <3>1. c[2] \in Selections /\ c[2] # << >>
      BY <1>1, ChainsTyped, BeginningsAreChains
    <3> QED
      BY <1>1, <3>1, FrontLast, TimesIs DEF Selections
  <2> QED
    BY <2>1
<1>2. /\ Times(<< >>) = 0
      /\ SumFunctionOnSet(CostOf(l), Chains) =
           IF l < Times(<< >>) THEN 0 ELSE Level(total, l - Times(<< >>))
  BY <1>1, TimesIs DEF Worth
<1>3. SumFunctionOnSet(CostOf(l), Chains) = Level(total, l)
  <2>1. ~(l < 0) /\ l - 0 = l
    OBVIOUS
  <2> QED
    BY <1>2, <2>1
<1>4. DOMAIN CostOf(l) = Chains
  BY DEF CostOf
<1>5. CostAt(l) = SumFunctionOnSet(CostOf(l), DOMAIN CostOf(l))
  BY DEF CostAt, SumFunction, CostOf
<1> QED
  BY <1>3, <1>4, <1>5

(* The chains of a document come to one depth, or one cost.                *)
LEMMA OneWorth ==
    ASSUME doc \in Documents, walk \in Walks, NEW P \in SUBSET Chains,
           NEW a \in Value, NEW v \in Value, Worth(P, << >>, a), Worth(P, << >>, v)
    PROVE  /\ walk.of = "depth" => a = v
           /\ walk.of = "cost" => \A l \in Nat : Level(a, l) = Level(v, l)
<1>1. Len(<< >>) = 0
  OBVIOUS
<1>2. ASSUME walk.of = "depth" PROVE a = v
  <2>1. a \in Nat /\ v \in Nat
    BY <1>2 DEF Value
  <2>2. \A c \in P : Len(c[2]) <= 0 + a /\ Len(c[2]) <= 0 + v
    BY <1>1, <1>2 DEF Worth
  <2>3. /\ a # 0 => \E c \in P : Len(c[2]) = 0 + a
        /\ v # 0 => \E c \in P : Len(c[2]) = 0 + v
    BY <1>1, <1>2 DEF Worth
  <2>4. a <= v
    BY <2>1, <2>2, <2>3
  <2>5. v <= a
    BY <2>1, <2>2, <2>3
  <2> QED
    BY <2>1, <2>4, <2>5
<1>3. ASSUME walk.of = "cost", NEW l \in Nat PROVE Level(a, l) = Level(v, l)
  <2>1. Times(<< >>) = 0 /\ ~(l < 0) /\ l - 0 = l
    BY TimesIs
  <2>2. /\ SumFunctionOnSet(CostOf(l), P) = IF l < 0 THEN 0 ELSE Level(a, l - 0)
        /\ SumFunctionOnSet(CostOf(l), P) = IF l < 0 THEN 0 ELSE Level(v, l - 0)
    BY <1>3, <2>1 DEF Worth
  <2> QED
    BY <2>1, <2>2
<1> QED
  BY <1>2, <1>3

(* A probe has one selection, and one chain: that selection.               *)
LEMMA ProbeHasOneChain ==
    ASSUME doc \in Documents, walk \in Walks, IsTypenameHealthProbe
    PROVE  \E n \in 1..Len(doc.sel) :
              /\ OnlyTypename(n) /\ \A m \in 1..Len(doc.sel) : m = n
              /\ 1 \in DOMAIN doc.ops /\ << n >> \in ChainsOf(1)
              /\ Chains = Through(1, << n >>)
<1>1. /\ Len(doc.ops) = 1 /\ DOMAIN doc.frags = {}
      /\ Len(doc.ops[1]) = 1 /\ OnlyTypename(doc.ops[1][1])
  BY DEF IsTypenameHealthProbe
<1>2. DOMAIN doc.ops = {1} /\ doc.ops[1] \in Selections
  <2>1. DOMAIN doc.ops = 1..Len(doc.ops)
    BY SetsTyped, LenProperties
  <2>2. DOMAIN doc.ops = {1}
    BY <1>1, <2>1
  <2> QED
    BY <2>2, SetsTyped
<1>3. PICK n \in 1..Len(doc.sel) : n = doc.ops[1][1] /\ OnlyTypename(n) /\ Range(doc.ops[1]) = {n}
  <2>1. doc.ops[1][1] \in 1..Len(doc.sel)
    BY <1>1, <1>2, ElementOfSeq DEF Selections
  <2>2. Range(doc.ops[1]) = {doc.ops[1][1]}
    <3>1. \A m : m \in Range(doc.ops[1]) <=> \E i \in 1..Len(doc.ops[1]) : doc.ops[1][i] = m
      BY <1>2, RangeIs
    <3> QED
      BY <1>1, <3>1
  <2> QED
    BY <1>1, <2>1, <2>2
<1>4. doc.sel[n].set = << >> /\ ~IsSpread(n)
  BY <1>3 DEF OnlyTypename, IsField, IsSpread
<1>5. Range(<< >>) = {}
  BY DEF Range
<1>6. \A m \in 1..Len(doc.sel) : m = n
  <2>1. Len(doc.sel) \in Nat
    BY SetsTyped
  <2>2. \A m \in 1..Len(doc.sel) : m = n \/ \E l \in 1..m - 1 : m \in Range(doc.sel[l].set)
    BY <1>1, <1>2, <1>3, DocumentsAssumption
  <2> DEFINE S == {m \in Nat : \A l \in 1..m : l <= Len(doc.sel) => l = n}
  <2>3. 0 \in S
    OBVIOUS
  <2>4. ASSUME NEW m \in Nat, m \in S PROVE m + 1 \in S
    <3> SUFFICES ASSUME NEW l \in 1..m + 1, l <= Len(doc.sel) PROVE l = n
      OBVIOUS
    <3>1. CASE l \in 1..m
      BY <2>4, <3>1
    <3>2. CASE l = m + 1
      <4>1. l \in 1..Len(doc.sel) /\ l - 1 = m
        BY <2>1, <3>2
      <4>2. ASSUME NEW j \in 1..m, l \in Range(doc.sel[j].set) PROVE FALSE
        <5>1. j = n
          BY <2>1, <2>4, <4>1
        <5> QED
          BY <1>4, <1>5, <4>2, <5>1
      <4> QED
        BY <2>2, <4>1, <4>2
    <3> QED
      BY <3>1, <3>2
  <2>5. Nat \subseteq S
    <3> HIDE DEF S
    <3> QED
      BY <2>3, <2>4, EveryNatural
  <2> QED
    BY <2>1, <2>5
<1>7. << n >> \in ChainsOf(1)
  BY <1>2, <1>3, ChainsStart
<1>8. PICK p \in Selections : p = << n >> /\ p # << >> /\ Len(p) = 1 /\ p[1] = n /\ Last(p) = n
  BY One DEF Selections
<1>9. Below(<< n >>) = << >>
  BY <1>4, <1>8, BelowIs
<1>10. ASSUME NEW c \in Chains PROVE c = << 1, << n >> >>
  <2>1. c[1] = 1 /\ c = << c[1], c[2] >> /\ c[2] \in ChainsOf(1)
    BY <1>2, ChainsTyped
  <2>2. PICK d \in Selections : d = c[2] /\ Len(d) \in Nat \ {0} /\ d[1] = n
    BY <1>2, <1>3, <2>1, BeginningsAreChains
  <2>3. Len(d) = 1
    <3> SUFFICES ASSUME Len(d) # 1 PROVE FALSE
      OBVIOUS
    <3>1. Begins(p, d)
      <4>1. Len(p) < Len(d)
        <5>1. Len(d) \in Nat \ {0} /\ Len(p) = 1
          BY <1>8, <2>2
        <5> QED
          BY <5>1
      <4>2. \A i \in 1..Len(p) : p[i] = d[i]
        BY <1>8, <2>2
      <4>3. p # << >>
        BY <1>8
      <4> QED
        BY <4>1, <4>2, <4>3 DEF Begins
    <3>2. d[Len(p) + 1] \in Range(Below(p))
      BY <1>2, <2>1, <2>2, <3>1, BeginningsAreChains
    <3> QED
      BY <1>5, <1>8, <1>9, <3>2
  <2>4. d = p
    BY <1>8, <2>2, <2>3, SeqEqual DEF Selections
  <2> QED
    BY <1>8, <2>1, <2>2, <2>4
<1>11. << 1, << n >> >> \in Chains
  BY <1>2, <1>7, ChainsTyped
<1>12. Through(1, << n >>) = {<< 1, << n >> >>}
  BY <1>2, <1>9, NothingUnder DEF Through
<1>13. Chains = Through(1, << n >>)
  BY <1>10, <1>11, <1>12
<1> QED
  BY <1>2, <1>3, <1>6, <1>7, <1>13

(* A probe has no alias and no directive.                                  *)
LEMMA ProbeIsBare ==
    ASSUME doc \in Documents, IsTypenameHealthProbe,
           NEW n \in 1..Len(doc.sel), OnlyTypename(n), \A m \in 1..Len(doc.sel) : m = n
    PROVE  Aliases = 0 /\ Directives = 0
<1>1. Len(doc.sel) \in Nat /\ DOMAIN doc.sel = 1..Len(doc.sel)
  BY SetsTyped
<1>2. \A m \in DOMAIN doc.sel : ~doc.sel[m].aliased /\ doc.sel[m].directives = 0
  BY <1>1 DEF OnlyTypename
<1>3. Aliases = 0
  <2>1. {m \in DOMAIN doc.sel : IsField(m) /\ doc.sel[m].aliased} = {}
    BY <1>2
  <2> QED
    BY <2>1, FS_EmptySet DEF Aliases
<1> DEFINE f == [m \in DOMAIN doc.sel |-> doc.sel[m].directives]
           D == DOMAIN doc.sel
<1>4. f \in [D -> Nat] /\ DOMAIN f = D /\ \A m \in D : f[m] = 0
  BY <1>2
<1>5. IsFiniteSet(D) /\ D \in SUBSET D
  BY <1>1, FS_Interval
<1>6. Directives = SumFunctionOnSet(f, DOMAIN f) + doc.frag_directives
  BY DEF Directives, SumFunction
<1>7. doc.frag_directives = 0
  BY DocumentsAssumption DEF IsTypenameHealthProbe
<1> HIDE DEF f, D
<1>8. SumFunctionOnSet(f, D) = 0
  BY <1>4, <1>5, SumOfZeroes
<1> QED
  BY <1>3, <1>4, <1>6, <1>7, <1>8

(* What a probe comes to.                                                  *)
LEMMA ProbeIs == WalkInv => ProbeIsMinimal
<1> SUFFICES ASSUME WalkInv, Done, IsTypenameHealthProbe
             PROVE  /\ walk.of = "depth" => total = 1
                    /\ walk.of = "cost" =>
                          \A l \in Nat : Level(total, l) = IF l = 0 THEN walk.scalar_cost ELSE 0
                    /\ Aliases = 0 /\ Directives = 0
  <2>1. 0..Len(total) \subseteq Nat
    OBVIOUS
  <2> QED
    BY <2>1 DEF ProbeIsMinimal
<1>1. Worth(Chains, << >>, total) /\ doc \in Documents /\ walk \in Walks /\ total \in Value
  BY DoneIsWorthAll
<1>2. PICK n \in 1..Len(doc.sel) :
         /\ OnlyTypename(n) /\ \A m \in 1..Len(doc.sel) : m = n
         /\ 1 \in DOMAIN doc.ops /\ << n >> \in ChainsOf(1)
         /\ Chains = Through(1, << n >>)
  BY <1>1, ProbeHasOneChain
<1>3. IsField(n) /\ ~IsSpread(n) /\ ~Ignored(n) /\ doc.sel[n].set = << >>
  BY <1>2 DEF OnlyTypename, IsField, IsSpread, Ignored
<1>4. /\ << n >> = Append(<< >>, n) /\ << n >> \in Selections /\ << n >> # << >> /\ Last(<< n >>) = n
      /\ << >> \in Selections /\ Len(<< >>) = 0
  BY One, EmptySeq DEF Selections
<1>5. Below(<< n >>) = << >> /\ ~Reenters(<< n >>)
  BY <1>1, <1>3, <1>4, BelowIs
<1>6. Worth(Through(1, << n >>), << >>, Leaf(n))
  <2>1. \A i \in 1..Len(<< >>) : ~Ignored(<< >>[i])
    BY <1>4
  <2> DEFINE p == << >>
  <2>2. Append(p, n) = << n >>
    BY <1>4
  <2> QED
    BY <1>1, <1>2, <1>3, <1>4, <1>5, <2>1, LeafWorth
<1>7. walk.of \in {"depth", "cost"} /\ walk.scalar_cost \in Nat
  BY <1>1, WalksAssumption
<1>8. /\ walk.of = "depth" => Leaf(n) = 1
      /\ walk.of = "cost" =>
            \A l \in Nat : Level(Leaf(n), l) = IF l = 0 THEN walk.scalar_cost ELSE 0
  BY <1>3, <1>7, CostsAdd DEF Leaf
<1>9. /\ walk.of = "depth" => total = Leaf(n)
      /\ walk.of = "cost" => \A l \in Nat : Level(total, l) = Level(Leaf(n), l)
  <2>1. Leaf(n) \in Value /\ Chains \in SUBSET Chains
    BY <1>1, ValuesTyped
  <2> QED
    BY <1>1, <1>2, <1>6, <2>1, OneWorth
<1> QED
  BY <1>1, <1>2, <1>8, <1>9, ProbeIsBare

-----------------------------------------------------------------------------
(***************************************************************************)
(* How long a walk is.                                                     *)
(***************************************************************************)

(* The chains ahead are chains, and finitely many.                         *)
LEMMA AheadTyped ==
    ASSUME doc \in Documents, walk \in Walks, NEW o, NEW s
    PROVE  /\ Ahead(o, s) \in SUBSET Chains /\ IsFiniteSet(Ahead(o, s))
           /\ Cardinality(Ahead(o, s)) \in Nat
<1>1. Ahead(o, s) \in SUBSET Chains
  BY DEF Ahead
<1>2. IsFiniteSet(Ahead(o, s))
  BY <1>1, ChainsTyped, FS_Subset
<1> QED
  BY <1>1, <1>2, FS_CardinalityType

(* Fewer chains are ahead of a walk when it has reached one.               *)
LEMMA FewerAhead ==
    ASSUME doc \in Documents, walk \in Walks, NEW o, NEW s, NEW oo, NEW t,
           Ahead(oo, t) \subseteq Ahead(o, s)
    PROVE  /\ Cardinality(Ahead(oo, t)) <= Cardinality(Ahead(o, s))
           /\ \A c \in Ahead(o, s) \ Ahead(oo, t) :
                 Cardinality(Ahead(oo, t)) <= Cardinality(Ahead(o, s)) - 1
<1> DEFINE A == Ahead(o, s)
           B == Ahead(oo, t)
<1>1. IsFiniteSet(A) /\ IsFiniteSet(B) /\ Cardinality(A) \in Nat /\ Cardinality(B) \in Nat /\ B \subseteq A
  BY AheadTyped
<1> HIDE DEF A, B
<1>2. Cardinality(B) <= Cardinality(A)
  BY <1>1, FS_Subset
<1>3. ASSUME NEW c \in A \ B PROVE Cardinality(B) <= Cardinality(A) - 1
  <2>1. IsFiniteSet(A \ {c}) /\ Cardinality(A \ {c}) = Cardinality(A) - 1
    BY <1>1, <1>3, FS_RemoveElement
  <2>2. B \subseteq A \ {c}
    BY <1>1, <1>3
  <2> QED
    BY <2>1, <2>2, FS_Subset
<1> QED
  BY <1>2, <1>3 DEF A, B

(* What is ahead does not depend on the state but for the document.        *)
LEMMA SameAhead ==
    ASSUME UNCHANGED doc
    PROVE  \A o, s : Ahead(o, s)' = Ahead(o, s)
  BY DEF Ahead, Taken, Path, Chains, ChainsOf, Below, Reenters, SpreadsIn, IsSpread, Longest

(* The chain that ends with the selection a walk is at is ahead of it.     *)
LEMMA HereIsAhead ==
    ASSUME WalkInv, Walking
    PROVE  LET k == Len(stack) q == Append(Path(stack, k), Here) IN
           /\ << op, q >> \in Ahead(op, stack)
           /\ Len(q) = k /\ \A j \in 1..k - 1 : q[j] = stack[j + 1].node
           /\ q[k] = Here /\ q \in Selections
<1> DEFINE k == Len(stack)
           p == Path(stack, k)
           q == Append(p, Here)
<1>1. /\ doc \in Documents /\ walk \in Walks /\ op \in DOMAIN doc.ops /\ op \in Nat
      /\ k \in Nat \ {0} /\ Top = stack[k] /\ DOMAIN stack = 1..k
      /\ stack[k].todo \in Selections /\ stack[k].todo # << >> /\ Here = Head(stack[k].todo)
      /\ \A i \in 1..k : FrameSound(op, stack, i) /\ stack[i].todo \in Selections
      /\ \A i \in 2..k : stack[i - 1].todo # << >> /\ stack[i].node = Head(stack[i - 1].todo)
  BY WalkFacts, LenProperties DEF Walking, Here
<1>2. p \in Selections /\ Here \in 1..Len(doc.sel) /\ q \in ChainsOf(op)
  BY VisitingIsOnThePath
<1>3. << op, q >> \in Chains
  BY <1>1, <1>2, ChainsTyped
<1>4. Len(p) = k - 1 /\ \A j \in 1..k - 1 : p[j] = stack[j + 1].node
  <2> HIDE DEF k
  <2> QED
    BY <1>1, PathIs
<1> HIDE DEF k, p
<1>5. /\ Len(q) = k /\ \A j \in 1..k - 1 : q[j] = stack[j + 1].node
      /\ q[k] = Here /\ q \in Selections
  <2>1. Len(p) + 1 = k
    BY <1>1, <1>4
  <2> QED
    BY <1>2, <1>4, <2>1, LongerChain
<1> HIDE DEF q
<1>6. ASSUME NEW i \in 1..k PROVE ~Taken(stack, i, q) /\ (i > 1 => q # Path(stack, i))
  <2>1. stack[i].todo # << >> /\ q[i] = Head(stack[i].todo)
    <3>1. CASE i = k
      BY <1>1, <1>5, <3>1
    <3>2. CASE i # k
      <4>1. i + 1 \in 2..k /\ (i + 1) - 1 = i /\ i \in 1..k - 1
        BY <1>1, <3>2
      <4> QED
        BY <1>1, <1>5, <4>1
    <3> QED
      BY <3>1, <3>2
  <2>2. q[i] \in Range(stack[i].todo)
    BY <1>1, <2>1, HeadAndTail DEF FrameSound
  <2>3. Len(Path(stack, i)) = i - 1
    BY <1>1, PathIs
  <2> QED
    BY <1>1, <1>5, <2>2, <2>3 DEF Taken
<1>7. << op, q >> \in Ahead(op, stack)
  BY <1>1, <1>3, <1>6 DEF Ahead
<1> QED
  BY <1>5, <1>7 DEF k, p, q

(* What a frame has taken stays taken when it takes another value.         *)
LEMMA TakenStaysTaken ==
    ASSUME NEW s, NEW t, NEW i \in Nat \ {0}, NEW c, Taken(s, i, c),
           \A j \in 1..i - 1 : t[j + 1].node = s[j + 1].node,
           Range(t[i].todo) \subseteq Range(s[i].todo)
    PROVE  Taken(t, i, c)
  BY DEF Taken

(* A chain that stands under the selection a frame is at is taken with it. *)
LEMMA TakenWithHere ==
    ASSUME NEW s, NEW t, NEW i \in Nat \ {0}, NEW c, s[i].todo \in Selections,
           s[i].todo # << >>, IsInjective(s[i].todo), t[i].todo = Tail(s[i].todo),
           \A j \in 1..i - 1 : t[j + 1].node = s[j + 1].node,
           Len(c) \in Nat, Len(c) >= i, \A j \in 1..i - 1 : c[j] = s[j + 1].node,
           c[i] = Head(s[i].todo)
    PROVE  Taken(t, i, c)
<1>1. Head(s[i].todo) \notin Range(t[i].todo)
  BY HeadAndTail
<1> QED
  BY <1>1 DEF Taken

(* Chains ahead after a step in an operation were ahead before it, if what *)
(* had been reached has been reached.                                      *)
LEMMA StillAhead ==
    ASSUME NEW o, NEW s, NEW t,
           \A c \in Chains : \A i \in DOMAIN s :
              Taken(s, i, c[2]) \/ (i > 1 /\ c[2] = Path(s, i)) =>
                 \E l \in DOMAIN t : Taken(t, l, c[2]) \/ (l > 1 /\ c[2] = Path(t, l))
    PROVE  Ahead(o, t) \subseteq Ahead(o, s)
<1> SUFFICES ASSUME NEW c \in Ahead(o, t) PROVE c \in Ahead(o, s)
  OBVIOUS
<1>1. c \in Chains
  BY DEF Ahead
<1>2. CASE c[1] > o
  BY <1>1, <1>2 DEF Ahead
<1>3. CASE c[1] = o /\ \A i \in DOMAIN t : ~Taken(t, i, c[2]) /\ (i > 1 => c[2] # Path(t, i))
  <2>1. ASSUME NEW i \in DOMAIN s PROVE ~Taken(s, i, c[2]) /\ (i > 1 => c[2] # Path(s, i))
    BY <1>1, <1>3
  <2> QED
    BY <1>1, <1>3, <2>1 DEF Ahead
<1> QED
  BY <1>2, <1>3 DEF Ahead

(* A selection whose contents are not walked has been reached.             *)
LEMMA SettleShortens ==
    ASSUME WalkInv, Walking, NEW v \in Value, Settle(v)
    PROVE  StepsLeft' < StepsLeft
<1> DEFINE k == Len(stack)
           q == Append(Path(stack, k), Here)
<1>1. /\ doc \in Documents /\ walk \in Walks /\ op \in DOMAIN doc.ops /\ op \in Nat
      /\ k \in Nat \ {0} /\ Top = stack[k] /\ FrameSound(op, stack, k) /\ DOMAIN stack = 1..k
      /\ stack[k].todo \in Selections /\ stack[k].todo # << >> /\ Here = Head(stack[k].todo)
      /\ stack \in Seq(FrameType)
  BY WalkFacts, LenProperties DEF Walking, Here
<1>2. TypeOK /\ UNCHANGED <<doc, walk, op>>
  BY DEF WalkInv, Inv, Settle
<1>3. /\ Len(stack') = k /\ \A i \in 1..k - 1 : stack'[i] = stack[i]
      /\ stack'[k].node = stack[k].node /\ stack'[k] = Take(stack[k], v)
      /\ stack' \in Seq(FrameType)
  BY <1>1, <1>2, SettleStack
<1>4. stack'[k].todo = Tail(stack[k].todo)
  <2>1. stack[k] \in FrameType
    BY <1>1, ElementOfSeq
  <2> HIDE DEF k
  <2> QED
    BY <1>3, <2>1 DEF Take, FrameType
<1>5. /\ << op, q >> \in Ahead(op, stack) /\ q \in Selections
      /\ Len(q) = k /\ \A j \in 1..k - 1 : q[j] = stack[j + 1].node
      /\ q[k] = Here
  BY HereIsAhead
<1>6. DOMAIN stack' = 1..k
  BY <1>3, LenProperties
<1>7. IsInjective(stack[k].todo)
  BY <1>1 DEF FrameSound
<1> HIDE DEF k, q
<1>8. \A i \in 1..k : stack'[i].node = stack[i].node
  BY <1>1, <1>3
<1>9. \A i \in 1..k : \A j \in 1..i - 1 : stack'[j + 1].node = stack[j + 1].node
  <2> SUFFICES ASSUME NEW i \in 1..k, NEW j \in 1..i - 1 PROVE stack'[j + 1].node = stack[j + 1].node
    OBVIOUS
  <2>1. j + 1 \in 1..k
    BY <1>1
  <2> QED
    BY <1>8, <2>1
<1>10. \A i \in 1..k : Range(stack'[i].todo) \subseteq Range(stack[i].todo)
  <2> SUFFICES ASSUME NEW i \in 1..k PROVE Range(stack'[i].todo) \subseteq Range(stack[i].todo)
    OBVIOUS
  <2>1. CASE i = k
    BY <1>1, <1>4, <1>7, <2>1, HeadAndTail
  <2>2. CASE i # k
    <3>1. i \in 1..k - 1
      BY <1>1, <2>2
    <3> QED
      BY <1>3, <3>1
  <2> QED
    BY <2>1, <2>2
<1>11. Ahead(op, stack') \subseteq Ahead(op, stack)
  <2>1. ASSUME NEW c \in Chains, NEW i \in 1..k, Taken(stack, i, c[2]) \/ (i > 1 /\ c[2] = Path(stack, i))
        PROVE  Taken(stack', i, c[2]) \/ (i > 1 /\ c[2] = Path(stack', i))
    <3>1. Path(stack', i) = Path(stack, i)
      BY <1>9 DEF Path
    <3>2. Taken(stack, i, c[2]) => Taken(stack', i, c[2])
      <4>1. /\ i \in Nat \ {0} /\ Range(stack'[i].todo) \subseteq Range(stack[i].todo)
            /\ \A j \in 1..i - 1 : stack'[j + 1].node = stack[j + 1].node
        <5>1. i \in Nat \ {0}
          BY <1>1
        <5> QED
          BY <1>9, <1>10, <5>1
      <4> QED
        BY <4>1, TakenStaysTaken
    <3> QED
      BY <2>1, <3>1, <3>2
  <2> QED
    BY <1>1, <1>6, <2>1, StillAhead
<1>12. << op, q >> \notin Ahead(op, stack')
  <2>1. k \in 1..k
    BY <1>1
  <2>2. Taken(stack', k, q)
    <3>1. Len(q) \in Nat /\ Len(q) >= k /\ q[k] = Head(stack[k].todo)
      BY <1>1, <1>5
    <3>2. \A j \in 1..k - 1 : stack'[j + 1].node = stack[j + 1].node
      BY <1>9, <2>1
    <3> QED
      BY <1>1, <1>4, <1>5, <1>7, <3>1, <3>2, TakenWithHere
  <2>3. ~(op > op)
    BY <1>1
  <2> QED
    BY <1>6, <2>1, <2>2, <2>3 DEF Ahead
<1>13. Cardinality(Ahead(op, stack')) <= Cardinality(Ahead(op, stack)) - 1
  BY <1>1, <1>5, <1>11, <1>12, FewerAhead
<1>14. StepsLeft' = 2 * Cardinality(Ahead(op, stack')) + k + (Len(doc.ops) + 1 - op)
  <2>1. Ahead(op, stack)' = Ahead(op, stack')
    BY <1>2, SameAhead
  <2> QED
    BY <1>2, <1>3, <2>1 DEF StepsLeft
<1>15. Cardinality(Ahead(op, stack')) \in Nat /\ Cardinality(Ahead(op, stack)) \in Nat /\ Len(doc.ops) \in Nat
  BY <1>1, AheadTyped, SetsTyped, LenProperties
<1> QED
  BY <1>1, <1>13, <1>14, <1>15 DEF StepsLeft, k

(* A set that is entered has been reached.                                 *)
LEMMA DescendShortens ==
    ASSUME WalkInv, Walking, NEW set \in Selections, Descend(Here, set)
    PROVE  StepsLeft' < StepsLeft
<1> DEFINE k == Len(stack)
           q == Append(Path(stack, k), Here)
<1>1. /\ doc \in Documents /\ walk \in Walks /\ op \in DOMAIN doc.ops /\ op \in Nat
      /\ k \in Nat \ {0} /\ DOMAIN stack = 1..k
  BY WalkFacts, LenProperties DEF Walking
<1>2. TypeOK /\ UNCHANGED <<doc, walk, op>>
  BY DEF WalkInv, Inv, Descend
<1>3. Here \in 1..Len(doc.sel)
  BY VisitingIsOnThePath
<1>4. /\ Len(stack') = k + 1 /\ \A i \in 1..k : stack'[i] = stack[i]
      /\ stack'[k + 1] = Frame(Here, set) /\ stack' \in Seq(FrameType)
  BY <1>2, <1>3, DescendStack
<1>5. /\ << op, q >> \in Ahead(op, stack) /\ q \in Selections
      /\ Len(q) = k /\ \A j \in 1..k - 1 : q[j] = stack[j + 1].node
      /\ q[k] = Here
  BY HereIsAhead
<1>6. DOMAIN stack' = 1..k + 1
  BY <1>4, LenProperties
<1> HIDE DEF k, q
<1>7. stack'[k + 1].node = Here
  BY <1>4 DEF Frame
<1>8. Ahead(op, stack') \subseteq Ahead(op, stack)
  <2>1. ASSUME NEW c \in Chains, NEW i \in 1..k, Taken(stack, i, c[2]) \/ (i > 1 /\ c[2] = Path(stack, i))
        PROVE  i \in 1..k + 1 /\ (Taken(stack', i, c[2]) \/ (i > 1 /\ c[2] = Path(stack', i)))
    <3>1. /\ i \in Nat \ {0} /\ i \in 1..k + 1 /\ stack'[i] = stack[i]
          /\ \A j \in 1..i - 1 : stack'[j + 1] = stack[j + 1]
      BY <1>1, <1>4
    <3>2. Path(stack', i) = Path(stack, i)
      BY <3>1 DEF Path
    <3>3. Taken(stack, i, c[2]) => Taken(stack', i, c[2])
      BY <3>1, TakenStaysTaken
    <3> QED
      BY <2>1, <3>1, <3>2, <3>3
  <2> QED
    BY <1>1, <1>6, <2>1, StillAhead
<1>9. Path(stack', k + 1) = q
  <2>1. \A j \in 1..k : q[j] = stack'[j + 1].node
    <3> SUFFICES ASSUME NEW j \in 1..k PROVE q[j] = stack'[j + 1].node
      OBVIOUS
    <3>1. CASE j = k
      BY <1>5, <1>7, <3>1
    <3>2. CASE j # k
      <4>1. j \in 1..k - 1 /\ j + 1 \in 1..k
        BY <1>1, <3>2
      <4> QED
        BY <1>4, <1>5, <4>1
    <3> QED
      BY <3>1, <3>2
  <2>2. q = [j \in 1..k |-> q[j]]
    BY <1>5, LenProperties DEF Selections
  <2>3. (k + 1) - 1 = k
    BY <1>1
  <2> QED
    BY <2>1, <2>2, <2>3 DEF Path
<1>10. << op, q >> \notin Ahead(op, stack')
  <2>1. k + 1 \in 1..k + 1 /\ k + 1 > 1 /\ ~(op > op)
    BY <1>1
  <2> QED
    BY <1>6, <1>9, <2>1 DEF Ahead
<1>11. Cardinality(Ahead(op, stack')) <= Cardinality(Ahead(op, stack)) - 1
  BY <1>1, <1>5, <1>8, <1>10, FewerAhead
<1>12. StepsLeft' = 2 * Cardinality(Ahead(op, stack')) + (k + 1) + (Len(doc.ops) + 1 - op)
  <2>1. Ahead(op, stack)' = Ahead(op, stack')
    BY <1>2, SameAhead
  <2> QED
    BY <1>2, <1>4, <2>1 DEF StepsLeft
<1>13. Cardinality(Ahead(op, stack')) \in Nat /\ Cardinality(Ahead(op, stack)) \in Nat /\ Len(doc.ops) \in Nat
  BY <1>1, AheadTyped, SetsTyped, LenProperties
<1> QED
  BY <1>1, <1>11, <1>12, <1>13 DEF StepsLeft, k

(* A set that is left was one of the frames to be left, and the chains     *)
(* under it stay reached: the frame below has taken them.                  *)
LEMMA ReturnShortens ==
    ASSUME WalkInv, Return
    PROVE  StepsLeft' < StepsLeft
<1> DEFINE k == Len(stack)
           b == k - 1
           v == Whole(Top.node, Top.acc)
<1>1. TypeOK /\ UNCHANGED <<doc, walk, op>>
  BY DEF WalkInv, Inv, Return
<1>2. /\ Len(stack') = b /\ k \in Nat /\ k > 1
      /\ \A i \in 1..k - 2 : stack'[i] = stack[i]
      /\ stack'[b].node = stack[b].node /\ stack'[b] = Take(stack[b], v)
      /\ stack' \in Seq(FrameType)
  BY <1>1, ReturnStack
<1>3. stack # << >>
  BY <1>2
<1>4. k \in 2..k /\ b \in 1..k /\ b \in Nat \ {0} /\ b = k - 1
  BY <1>2
<1> HIDE DEF b
<1>5. /\ doc \in Documents /\ walk \in Walks /\ op \in DOMAIN doc.ops /\ op \in Nat
      /\ DOMAIN stack = 1..k /\ DOMAIN stack' = 1..b
      /\ stack[b] \in FrameType /\ stack[b].todo \in Selections /\ stack[b].todo # << >>
      /\ stack[k].node = Head(stack[b].todo) /\ IsInjective(stack[b].todo)
  <2>1. stack[k - 1].todo # << >> /\ stack[k].node = Head(stack[k - 1].todo)
    BY <1>3, <1>4, WalkFacts
  <2>2. /\ doc \in Documents /\ walk \in Walks /\ op \in DOMAIN doc.ops /\ op \in Nat
        /\ stack \in Seq(FrameType) /\ stack[b].todo \in Selections
        /\ FrameSound(op, stack, b)
    BY <1>3, <1>4, WalkFacts
  <2> QED
    BY <1>2, <1>4, <2>1, <2>2, ElementOfSeq, LenProperties DEF FrameSound
<1>6. stack'[b].todo = Tail(stack[b].todo)
  <2> HIDE DEF v, k
  <2> QED
    BY <1>2, <1>5 DEF Take, FrameType
<1> HIDE DEF v, k
<1>7. Range(stack'[b].todo) \subseteq Range(stack[b].todo)
  BY <1>5, <1>6, HeadAndTail
<1>8. \A j \in 1..b : stack'[j].node = stack[j].node
  BY <1>2, <1>4
<1>9. \A i \in 1..b : \A j \in 1..i - 1 : stack'[j + 1].node = stack[j + 1].node
  <2> SUFFICES ASSUME NEW i \in 1..b, NEW j \in 1..i - 1 PROVE stack'[j + 1].node = stack[j + 1].node
    OBVIOUS
  <2>1. j + 1 \in 1..b
    BY <1>4
  <2> QED
    BY <1>8, <2>1
<1>10. \A i \in 1..b : Range(stack'[i].todo) \subseteq Range(stack[i].todo)
  <2> SUFFICES ASSUME NEW i \in 1..b, i # b PROVE Range(stack'[i].todo) \subseteq Range(stack[i].todo)
    BY <1>7
  <2>1. i \in 1..k - 2
    BY <1>4
  <2> QED
    BY <1>2, <2>1
<1>11. ASSUME NEW c \in Chains, NEW i \in 1..k, Taken(stack, i, c[2]) \/ (i > 1 /\ c[2] = Path(stack, i))
       PROVE  \E l \in 1..b : Taken(stack', l, c[2]) \/ (l > 1 /\ c[2] = Path(stack', l))
  <2>1. c[2] \in Selections /\ Len(c[2]) \in Nat
    BY <1>5, ChainsTyped, BeginningsAreChains
  <2>2. CASE i # k
    <3>1. /\ i \in 1..b /\ i \in Nat \ {0} /\ Range(stack'[i].todo) \subseteq Range(stack[i].todo)
          /\ \A j \in 1..i - 1 : stack'[j + 1].node = stack[j + 1].node
      BY <1>4, <1>9, <1>10, <2>2
    <3>2. Path(stack', i) = Path(stack, i)
      BY <3>1 DEF Path
    <3>3. Taken(stack, i, c[2]) => Taken(stack', i, c[2])
      BY <3>1, TakenStaysTaken
    <3> QED
      BY <1>11, <3>1, <3>2, <3>3
  <2>3. CASE i = k
    <3>1. Len(c[2]) >= b /\ \A j \in 1..b : c[2][j] = stack[j + 1].node
      <4>1. CASE Taken(stack, k, c[2])
        BY <1>4, <2>1, <4>1 DEF Taken
      <4>2. CASE c[2] = Path(stack, k)
        <5>1. DOMAIN c[2] = 1..b /\ \A j \in 1..b : c[2][j] = stack[j + 1].node
          BY <1>4, <4>2 DEF Path
        <5>2. DOMAIN c[2] = 1..Len(c[2])
          BY <2>1, LenProperties DEF Selections
        <5>3. Len(c[2]) >= b
          BY <1>4, <2>1, <5>1, <5>2
        <5> QED
          BY <5>1, <5>3
      <4> QED
        BY <1>11, <2>3, <4>1, <4>2
    <3>2. b \in 1..b /\ b + 1 = k
      BY <1>4
    <3>3. c[2][b] = Head(stack[b].todo) /\ \A j \in 1..b - 1 : c[2][j] = stack[j + 1].node
      BY <1>4, <1>5, <3>1, <3>2
    <3>4. \A j \in 1..b - 1 : stack'[j + 1].node = stack[j + 1].node
      BY <1>9, <3>2
    <3>5. Taken(stack', b, c[2])
      BY <1>4, <1>5, <1>6, <2>1, <3>1, <3>3, <3>4, TakenWithHere
    <3> QED
      BY <3>2, <3>5
  <2> QED
    BY <2>2, <2>3
<1>12. Ahead(op, stack') \subseteq Ahead(op, stack)
  BY <1>5, <1>11, StillAhead
<1>13. Cardinality(Ahead(op, stack')) <= Cardinality(Ahead(op, stack))
  BY <1>5, <1>12, FewerAhead
<1>14. StepsLeft' = 2 * Cardinality(Ahead(op, stack')) + b + (Len(doc.ops) + 1 - op)
  <2>1. Ahead(op, stack)' = Ahead(op, stack')
    BY <1>1, SameAhead
  <2> QED
    BY <1>1, <1>2, <2>1 DEF StepsLeft
<1>15. Cardinality(Ahead(op, stack')) \in Nat /\ Cardinality(Ahead(op, stack)) \in Nat /\ Len(doc.ops) \in Nat
  BY <1>5, AheadTyped, SetsTyped, LenProperties
<1> QED
  BY <1>4, <1>5, <1>13, <1>14, <1>15 DEF StepsLeft, k

(* An operation that is done leaves one operation fewer.                   *)
LEMMA NextOperationShortens ==
    ASSUME WalkInv, NextOperation
    PROVE  StepsLeft' < StepsLeft
<1>1. /\ UNCHANGED <<doc, walk>> /\ Len(stack) = 1
      /\ op' = op + 1 /\ stack' = OperationFrame(op + 1)
  BY DEF NextOperation
<1>2. stack # << >>
  BY <1>1
<1>3. doc \in Documents /\ walk \in Walks /\ op \in Nat
  BY <1>2, WalkFacts
<1>4. Len(stack') \in {0, 1}
  BY <1>1, <1>3, OperationFrameTyped DEF OperationStack
<1>5. \A c \in Chains : c[1] \in Nat
  <2>1. DOMAIN doc.ops = 1..Len(doc.ops)
    BY <1>3, SetsTyped, LenProperties
  <2> QED
    BY <1>3, <2>1, ChainsTyped
<1>6. Ahead(op + 1, stack') \subseteq Ahead(op, stack)
  <2> SUFFICES ASSUME NEW c \in Ahead(op + 1, stack') PROVE c \in Ahead(op, stack)
    OBVIOUS
  <2>1. c \in Chains /\ (c[1] > op + 1 \/ c[1] = op + 1)
    BY DEF Ahead
  <2>2. c[1] > op
    BY <1>3, <1>5, <2>1
  <2> QED
    BY <2>1, <2>2 DEF Ahead
<1>7. Cardinality(Ahead(op + 1, stack')) <= Cardinality(Ahead(op, stack))
  BY <1>3, <1>6, FewerAhead
<1>8. StepsLeft' = 2 * Cardinality(Ahead(op + 1, stack')) + Len(stack') + (Len(doc.ops) + 1 - (op + 1))
  <2>1. Ahead(op', stack') = Ahead(op, stack)'
    <3>1. \A o, s : Ahead(o, s)' = Ahead(o, s)
      BY <1>1, SameAhead
    <3> QED
      BY <3>1
  <2> QED
    BY <1>1, <2>1 DEF StepsLeft
<1>9. /\ Cardinality(Ahead(op + 1, stack')) \in Nat /\ Cardinality(Ahead(op, stack)) \in Nat
      /\ Len(doc.ops) \in Nat
  BY <1>3, AheadTyped, SetsTyped, LenProperties
<1>10. StepsLeft = 2 * Cardinality(Ahead(op, stack)) + 1 + (Len(doc.ops) + 1 - op)
  BY <1>1 DEF StepsLeft
<1>11. \A a, b, m, n \in Nat : \A l \in {0, 1} :
          a <= b => 2 * a + l + (n + 1 - (m + 1)) < 2 * b + 1 + (n + 1 - m)
  OBVIOUS
<1> QED
  BY <1>3, <1>4, <1>7, <1>8, <1>9, <1>10, <1>11

(* Each step of a walk is one of these.                                    *)
LEMMA StepShortens == WalkInv /\ Next => StepsLeft' < StepsLeft
<1> SUFFICES ASSUME WalkInv, Next PROVE StepsLeft' < StepsLeft
  OBVIOUS
<1>1. TypeOK
  BY DEF WalkInv, Inv
<1>2. ASSUME Walking
      PROVE  /\ doc.sel[Here].set \in Selections
             /\ \A f \in DOMAIN doc.frags : doc.frags[f] \in Selections
             /\ Leaf(Here) \in Value /\ Revisit \in Value /\ Nothing \in Value
  BY <1>1, <1>2, HereTyped, ValuesTyped DEF TypeOK
<1>3. CASE WalkField
  BY <1>2, <1>3, SettleShortens, DescendShortens DEF WalkField
<1>4. CASE WalkSpread
  BY <1>2, <1>4, SettleShortens, DescendShortens DEF WalkSpread
<1> QED
  BY <1>3, <1>4, ReturnShortens, NextOperationShortens DEF Next

(* What is left of a walk is a number of steps.                            *)
LEMMA StepsLeftTyped == WalkInv => StepsLeft \in Nat
<1> SUFFICES ASSUME WalkInv PROVE StepsLeft \in Nat
  OBVIOUS
<1>1. /\ doc \in Documents /\ walk \in Walks /\ op \in 1..Len(doc.ops) + 1
      /\ stack \in Seq(FrameType)
  BY DEF WalkInv, Inv, TypeOK
<1>2. /\ Cardinality(Ahead(op, stack)) \in Nat /\ Len(stack) \in Nat /\ Len(doc.ops) \in Nat
  BY <1>1, AheadTyped, SetsTyped, LenProperties
<1> QED
  BY <1>1, <1>2 DEF StepsLeft

-----------------------------------------------------------------------------
(* A walk of the depth ends with the length of the longest chain of the    *)
(* expanded document: neither a cycle of fragments nor an undefined        *)
(* fragment, nor the order in which siblings are walked, hides a level.    *)
(* (max_depth_document, graphql_security.rs:326-408)                       *)
THEOREM DepthOfChains == Spec => []DepthIsTheLongestChain
  BY InitWalkInv, StepKeepsWalkInv, DepthIs, PTL DEF Spec

(* A walk of the cost ends with the sum over all chains of the expanded    *)
(* document of what the last selection costs where it stands: each is      *)
(* counted once, at one power of the factor for each field above it.  Each *)
(* power is multiplied by the right natural, so this holds for every value *)
(* of cost_depth_cost_factor.  (compute_cost, graphql_security.rs:454-553) *)
THEOREM CostOfChains == Spec => []CostIsTheSumOverChains
  BY InitWalkInv, StepKeepsWalkInv, CostIs, PTL DEF Spec

(* Whatever document is_typename_health_probe lets through costs one       *)
(* scalar field, and has neither alias nor directive.                      *)
(* (graphql_security.rs:224-266, 648-652)                                  *)
THEOREM ProbeCosts == Spec => []ProbeIsMinimal
  BY InitWalkInv, StepKeepsWalkInv, ProbeIs, PTL DEF Spec

(* A walk of any document, cyclic or not, reaches each chain of the        *)
(* expanded document at most once, and every step of it makes the number   *)
(* of steps that can be left smaller: its length is bounded before it      *)
(* starts.  (graphql_security.rs:326-380, 476-535)                         *)
THEOREM WalksAreBounded == Spec => [](StepsLeft \in Nat) /\ EveryStepShortens
<1>1. WalkInv /\ [Next]_vars => [StepsLeft' < StepsLeft]_vars
  BY StepShortens
<1> QED
  BY <1>1, InitWalkInv, StepKeepsWalkInv, StepsLeftTyped, PTL DEF Spec, EveryStepShortens
=============================================================================
