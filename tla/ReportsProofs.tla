---------------------------- MODULE ReportsProofs ----------------------------
(***************************************************************************)
(* The reports agree, for any orders, lines, amounts, names and carriers.  *)
(* First come the sums and counts they are made of: the induction over     *)
(* finite sets that defines them, and what they do with the parts of a     *)
(* set.                                                                    *)
(***************************************************************************)
EXTENDS Reports, DeskProofs

-----------------------------------------------------------------------------
(* Induction, and folds over a finite set.                                 *)

LEMMA NatLeast ==
    ASSUME NEW T \in SUBSET Nat, T # {}
    PROVE  \E n \in T : \A m \in T : n <= m
<1> DEFINE R == OpToRel(<, Nat)
<1>1. IsWellFoundedOn(R, Nat)
  BY NatLessThanWellFounded
<1>2. PICK n \in T : \A m \in T : <<m, n>> \notin R
  <2> HIDE DEF R
  <2> QED
    BY <1>1, WFMin
<1>3. \A m \in T : ~(m < n)
  BY <1>2 DEF OpToRel
<1> QED
  BY <1>3

\* Induction on natural numbers, over the set of those with the property.
LEMMA Induct ==
    ASSUME NEW P \in SUBSET Nat, 0 \in P, \A n \in P : n + 1 \in P
    PROVE  P = Nat
<1> SUFFICES ASSUME Nat \ P # {} PROVE FALSE
  OBVIOUS
<1>1. PICK n \in Nat \ P : \A m \in Nat \ P : n <= m
  <2> DEFINE T == Nat \ P
  <2>1. T \in SUBSET Nat /\ T # {}
    OBVIOUS
  <2> HIDE DEF T
  <2>2. \E n \in T : \A m \in T : n <= m
    BY <2>1, NatLeast
  <2> QED
    BY <2>2 DEF T
<1>2. n - 1 \in Nat /\ n = (n - 1) + 1
  OBVIOUS
<1>3. n - 1 \in P
  BY <1>1, <1>2
<1> QED
  BY <1>2, <1>3

\* A property of the subsets of a finite set holds if it holds for the empty
\* one, and for each with whose parts that lack one element it holds.
LEMMA InductSets ==
    ASSUME NEW X, IsFiniteSet(X), NEW F, {} \in F,
           \A A \in SUBSET X : A # {} /\ (\A x \in A : A \ {x} \in F) => A \in F
    PROVE  SUBSET X \subseteq F
<1> DEFINE P == {n \in Nat : \A A \in SUBSET X : Cardinality(A) = n => A \in F}
<1>0. \A A \in SUBSET X : IsFiniteSet(A) /\ Cardinality(A) \in Nat
  BY FS_Subset, FS_CardinalityType
<1>1. 0 \in P
  <2>1. \A A \in SUBSET X : Cardinality(A) = 0 => A = {}
    BY <1>0, FS_EmptySet
  <2> QED
    BY <2>1
<1>2. ASSUME NEW n \in P
      PROVE  n + 1 \in P
  <2>1. n \in Nat /\ n + 1 \in Nat /\ n + 1 # 0
    OBVIOUS
  <2>2. ASSUME NEW A \in SUBSET X, Cardinality(A) = n + 1
        PROVE  A \in F
    <3>1. IsFiniteSet(A) /\ A # {}
      BY <1>0, <2>1, <2>2, FS_EmptySet
    <3>2. ASSUME NEW x \in A
          PROVE  A \ {x} \in F
      <4>1. Cardinality(A \ {x}) = Cardinality(A) - 1
        BY <3>1, FS_RemoveElement
      <4>2. Cardinality(A \ {x}) = n
        BY <2>1, <2>2, <4>1
      <4> QED
        BY <4>2
    <3> QED
      BY <3>1, <3>2
  <2> QED
    BY <2>1, <2>2
<1>3. P = Nat
  <2>1. P \in SUBSET Nat
    OBVIOUS
  <2> HIDE DEF P
  <2> QED
    BY <1>1, <1>2, <2>1, Induct
<1> QED
  BY <1>0, <1>3

\* g[s] is the fold of s, an element of it at a time, as c chooses.
Folds(g, X, base, c, D) ==
    \A s \in SUBSET X : g[s] = IF s = {} THEN base ELSE D[s][g[s \ {c[s]}]]

\* A fold over a finite set has a value.
LEMMA FoldExists ==
    ASSUME NEW X, IsFiniteSet(X), NEW T, NEW base \in T, NEW c,
           \A s \in SUBSET X : s # {} => c[s] \in s,
           NEW D, \A s \in SUBSET X, v \in T : D[s][v] \in T
    PROVE  \E g \in [SUBSET X -> T] : Folds(g, X, base, c, D)
<1> DEFINE Below(n) == {s \in SUBSET X : Cardinality(s) <= n}
           Good(g, n) == \A s \in Below(n) :
              g[s] = IF s = {} THEN base ELSE D[s][g[s \ {c[s]}]]
           P == {n \in Nat : \E g \in [Below(n) -> T] : Good(g, n)}
<1>0. \A s \in SUBSET X : /\ IsFiniteSet(s) /\ Cardinality(s) \in Nat
                          /\ Cardinality(s) <= Cardinality(X)
  BY FS_Subset, FS_CardinalityType
<1>1. 0 \in P
  <2> DEFINE g == [s \in Below(0) |-> base]
  <2>1. Below(0) = {{}}
    BY <1>0, FS_EmptySet
  <2>2. g \in [Below(0) -> T] /\ Good(g, 0)
    BY <2>1
  <2> QED
    BY <2>2
<1>2. ASSUME NEW n \in P
      PROVE  n + 1 \in P
  <2>0. n \in Nat /\ n + 1 \in Nat
    OBVIOUS
  <2>1. PICK g \in [Below(n) -> T] : Good(g, n)
    OBVIOUS
  <2> DEFINE h == [s \in Below(n + 1) |->
                     IF Cardinality(s) <= n THEN g[s] ELSE D[s][g[s \ {c[s]}]]]
  <2>2. ASSUME NEW s \in Below(n + 1), s # {}
        PROVE  s \ {c[s]} \in Below(n)
    <3>1. IsFiniteSet(s) /\ c[s] \in s /\ Cardinality(s) \in Nat /\ s \in SUBSET X
      BY <1>0, <2>2
    <3> DEFINE x == c[s]
    <3>2. IsFiniteSet(s) /\ x \in s
      BY <3>1
    <3> HIDE DEF x
    <3>3. Cardinality(s \ {x}) = Cardinality(s) - 1
      BY <3>2, FS_RemoveElement
    <3> QED
      BY <3>1, <3>3 DEF x
  <2>3. ASSUME NEW s \in Below(n + 1)
        PROVE  /\ h[s] \in T
               /\ h[s] = IF s = {} THEN base ELSE D[s][h[s \ {c[s]}]]
    <3>1. CASE Cardinality(s) <= n
      <4>1. s \in Below(n) /\ h[s] = g[s]
        BY <3>1
      <4>2. CASE s = {}
        BY <2>1, <4>1, <4>2
      <4>3. CASE s # {}
        <5>1. s \ {c[s]} \in Below(n) /\ s \ {c[s]} \in Below(n + 1)
          BY <2>2, <4>3, <1>0
        <5>2. h[s \ {c[s]}] = g[s \ {c[s]}]
          BY <5>1
        <5> QED
          BY <2>1, <4>1, <4>3, <5>2
      <4> QED
        BY <4>2, <4>3
    <3>2. CASE ~(Cardinality(s) <= n)
      <4>1. s # {}
        <5>1. Cardinality({}) <= n
          BY <2>0, FS_EmptySet
        <5> QED
          BY <3>2, <5>1
      <4>2. s \ {c[s]} \in Below(n) /\ s \ {c[s]} \in Below(n + 1)
          BY <2>2, <4>1, <1>0
      <4>3. h[s \ {c[s]}] = g[s \ {c[s]}] /\ g[s \ {c[s]}] \in T
          BY <4>2
      <4> QED
        BY <3>2, <4>1, <4>3
    <3> QED
      BY <3>1, <3>2
  <2>4. h \in [Below(n + 1) -> T] /\ Good(h, n + 1)
    BY <2>3
  <2> HIDE DEF h
  <2>5. \E k \in [Below(n + 1) -> T] : Good(k, n + 1)
    BY <2>4
  <2> QED
    BY <2>0, <2>5
<1>3. P = Nat
  <2>1. P \in SUBSET Nat
    OBVIOUS
  <2> HIDE DEF P
  <2> QED
    BY <1>1, <1>2, <2>1, Induct
<1>4. Cardinality(X) \in P /\ Below(Cardinality(X)) = SUBSET X
  BY <1>0, <1>3, FS_CardinalityType
<1> QED
  BY <1>4 DEF Folds

-----------------------------------------------------------------------------
(* Sums of integers.                                                       *)

Ints(f, S) == IsFiniteSet(S) /\ \A x \in S : f[x] \in Int
First(s) == CHOOSE x \in s : TRUE

LEMMA IntsInside ==
    ASSUME NEW f, NEW S, Ints(f, S), NEW A \in SUBSET S
    PROVE  Ints(f, A)
BY FS_Subset DEF Ints

\* One function gives the sums over all parts of a set.
LEMMA TotalFolds ==
    ASSUME NEW f, NEW S, Ints(f, S)
    PROVE  \E g \in [SUBSET S -> Int] : \A s \in SUBSET S :
              /\ Total(f, s) = g[s]
              /\ g[s] = IF s = {} THEN 0
                        ELSE f[First(s)] + g[s \ {First(s)}]
<1> DEFINE c == [s \in SUBSET S |-> First(s)]
           D == [s \in SUBSET S |-> [v \in Int |-> IF s = {} THEN 0 ELSE f[First(s)] + v]]
<1>1. \A s : s # {} => First(s) \in s
  BY DEF First
<1>2. PICK g \in [SUBSET S -> Int] : \A s \in SUBSET S :
         g[s] = IF s = {} THEN 0 ELSE D[s][g[s \ {c[s]}]]
  <2>1. \A s \in SUBSET S : s # {} => c[s] \in s
    BY <1>1
  <2>2. \A s \in SUBSET S, v \in Int : D[s][v] \in Int
    BY <1>1 DEF Ints
  <2> DEFINE T == Int
  <2>3. IsFiniteSet(S) /\ 0 \in T
    BY DEF Ints
  <2> HIDE DEF c, D
  <2>4. \A s \in SUBSET S, v \in T : D[s][v] \in T
    BY <2>2
  <2> HIDE DEF T
  <2>5. \E g \in [SUBSET S -> T] : Folds(g, S, 0, c, D)
    BY <2>1, <2>3, <2>4, FoldExists
  <2> QED
    BY <2>5 DEF T, Folds
<1>3. \A s \in SUBSET S : g[s] = IF s = {} THEN 0 ELSE f[First(s)] + g[s \ {First(s)}]
  BY <1>2
<1>4. ASSUME NEW A \in SUBSET S
      PROVE  Total(f, A) = g[A]
  <2> DEFINE Eq(h) == h = [s \in SUBSET A |->
                             IF s = {} THEN 0 ELSE f[First(s)] + h[s \ {First(s)}]]
             it == CHOOSE h : Eq(h)
             r == [s \in SUBSET A |-> g[s]]
  <2>1. Total(f, A) = it[A]
    BY DEF Total, SumFunctionOnSet, FoldFunctionOnSet, MapThenFoldSet, First
  <2>2. Eq(r)
    <3>1. \A s \in SUBSET A : s \ {First(s)} \in SUBSET A
      OBVIOUS
    <3>2. \A s \in SUBSET A :
             r[s] = IF s = {} THEN 0 ELSE f[First(s)] + r[s \ {First(s)}]
      BY <1>3, <3>1
    <3> QED
      BY <3>2
  <2>3. Eq(it)
    BY <2>2
  <2> HIDE DEF it
  <2>4. \A s \in SUBSET A : it[s] = IF s = {} THEN 0 ELSE f[First(s)] + it[s \ {First(s)}]
    BY <2>3
  <2> DEFINE F == {s \in SUBSET A : it[s] = g[s]}
  <2>5. {} \in F
    BY <1>3, <2>4
  <2>6. ASSUME NEW s \in SUBSET A, s # {}, \A x \in s : s \ {x} \in F
        PROVE  s \in F
    <3>1. it[s \ {First(s)}] = g[s \ {First(s)}]
      BY <1>1, <2>6
    <3> QED
      BY <1>3, <2>4, <2>6, <3>1
  <2>7. IsFiniteSet(A)
    BY FS_Subset DEF Ints
  <2> HIDE DEF F
  <2>8. SUBSET A \subseteq F
    BY <2>5, <2>6, <2>7, InductSets
  <2> QED
    BY <2>1, <2>8 DEF F
<1>5. \A s \in SUBSET S :
         /\ Total(f, s) = g[s]
         /\ g[s] = IF s = {} THEN 0 ELSE f[First(s)] + g[s \ {First(s)}]
  BY <1>3, <1>4
<1> QED
  BY <1>5

LEMMA TotalIs ==
    ASSUME NEW f, NEW S, Ints(f, S)
    PROVE  /\ Total(f, S) \in Int
           /\ Total(f, {}) = 0
           /\ \A x \in S : Total(f, S) = f[x] + Total(f, S \ {x})
<1>1. PICK g \in [SUBSET S -> Int] : \A s \in SUBSET S :
         /\ Total(f, s) = g[s]
         /\ g[s] = IF s = {} THEN 0
                   ELSE f[First(s)] + g[s \ {First(s)}]
  BY TotalFolds
<1> DEFINE F == {s \in SUBSET S : \A x \in s : g[s] = f[x] + g[s \ {x}]}
<1>2. ASSUME NEW s \in SUBSET S, s # {}, \A x \in s : s \ {x} \in F, NEW x \in s
      PROVE  g[s] = f[x] + g[s \ {x}]
  <2>1. PICK p \in s : g[s] = f[p] + g[s \ {p}]
    BY <1>1, <1>2 DEF First
  <2>2. CASE p = x
    BY <2>1, <2>2
  <2>3. CASE p # x
    <3>1. g[s \ {p}] = f[x] + g[(s \ {p}) \ {x}]
      BY <1>2, <2>3
    <3>2. g[s \ {x}] = f[p] + g[(s \ {x}) \ {p}]
      BY <1>2, <2>3
    <3>3. (s \ {p}) \ {x} = (s \ {x}) \ {p}
      OBVIOUS
    <3>4. f[x] \in Int /\ f[p] \in Int /\ (s \ {x}) \ {p} \in SUBSET S
      BY DEF Ints
    <3>5. g[(s \ {x}) \ {p}] \in Int
      BY <3>4
    <3>6. \A a, b, c \in Int : a + (b + c) = b + (a + c)
      OBVIOUS
    <3>7. f[p] + (f[x] + g[(s \ {x}) \ {p}]) = f[x] + (f[p] + g[(s \ {x}) \ {p}])
      BY <3>4, <3>5, <3>6, Zenon
    <3> QED
      BY <2>1, <3>1, <3>2, <3>3, <3>7, Zenon
  <2> QED
    BY <2>2, <2>3
<1>3. {} \in F
  OBVIOUS
<1>4. \A s \in SUBSET S : s # {} /\ (\A x \in s : s \ {x} \in F) => s \in F
  BY <1>2
<1>5. SUBSET S \subseteq F
  <2> HIDE DEF F
  <2> QED
    BY <1>3, <1>4, InductSets DEF Ints
<1>6. {} \in SUBSET S /\ S \in SUBSET S /\ \A x \in S : S \ {x} \in SUBSET S
  OBVIOUS
<1>7. \A x \in S : g[S] = f[x] + g[S \ {x}]
  BY <1>5, <1>6
<1> HIDE DEF F
<1> QED
  BY <1>1, <1>6, <1>7

\* Step by step over the parts of S.
LEMMA TotalStep ==
    ASSUME NEW f, NEW S, Ints(f, S), NEW A \in SUBSET S
    PROVE  /\ Total(f, A) \in Int
           /\ Total(f, {}) = 0
           /\ \A x \in A : f[x] \in Int /\ Total(f, A) = f[x] + Total(f, A \ {x})
BY IntsInside, TotalIs DEF Ints

LEMMA TotalSame ==
    ASSUME NEW f, NEW h, NEW S, Ints(f, S), \A x \in S : f[x] = h[x]
    PROVE  Total(f, S) = Total(h, S)
<1> DEFINE F == {A \in SUBSET S : Total(f, A) = Total(h, A)}
<1>0. Ints(h, S) /\ IsFiniteSet(S) /\ S \in SUBSET S
  BY DEF Ints
<1>1. {} \in F
  BY <1>0, TotalStep
<1>2. ASSUME NEW A \in SUBSET S, A # {}, \A x \in A : A \ {x} \in F
      PROVE  A \in F
  <2>1. PICK x \in A : TRUE
    BY <1>2
  <2>2. Total(f, A) = f[x] + Total(f, A \ {x})
    BY TotalStep
  <2>3. Total(h, A) = h[x] + Total(h, A \ {x})
    BY <1>0, TotalStep
  <2>4. Total(f, A \ {x}) = Total(h, A \ {x}) /\ f[x] = h[x]
    BY <1>2
  <2> QED
    BY <2>2, <2>3, <2>4
<1> HIDE DEF F
<1>3. SUBSET S \subseteq F
  BY <1>0, <1>1, <1>2, InductSets
<1> QED
  BY <1>0, <1>3 DEF F

\* A part and the rest of it.
LEMMA TotalParts ==
    ASSUME NEW f, NEW S, Ints(f, S), NEW A \in SUBSET S
    PROVE  Total(f, S) = Total(f, A) + Total(f, S \ A)
<1>0. IsFiniteSet(S) /\ S \in SUBSET S
  BY DEF Ints
<1>1. ASSUME NEW C \in SUBSET S, NEW y \in C
      PROVE  f[y] \in Int /\ Total(f, C) \in Int /\ Total(f, C) = f[y] + Total(f, C \ {y})
  <2>1. Total(f, C) \in Int
    BY TotalStep
  <2>2. Total(f, C) = f[y] + Total(f, C \ {y})
    BY TotalStep
  <2>3. f[y] \in Int
    BY DEF Ints
  <2> QED
    BY <2>1, <2>2, <2>3
<1> DEFINE F == {B \in SUBSET S : Total(f, B) = Total(f, B \cap A) + Total(f, B \ A)}
<1>2. {} \in F
  <2>1. {} \cap A = {} /\ {} \ A = {} /\ Total(f, {}) = 0
    BY <1>0, TotalStep
  <2> QED
    BY <2>1
<1>3. ASSUME NEW B \in SUBSET S, B # {}, \A x \in B : B \ {x} \in F
      PROVE  B \in F
  <2>1. PICK x \in B : TRUE
    BY <1>3
  <2> DEFINE r == Total(f, B \ {x})
             a == Total(f, B \cap A)
             b == Total(f, B \ A)
             a1 == Total(f, (B \ {x}) \cap A)
             b1 == Total(f, (B \ {x}) \ A)
  <2>2. Total(f, B) = f[x] + r /\ f[x] \in Int
    BY <1>1
  <2>3. r = a1 + b1
    BY <1>3
  <2>4. a1 \in Int /\ b1 \in Int
    BY TotalStep
  <2>5. CASE x \in A
    <3>1. (B \ {x}) \cap A = (B \cap A) \ {x} /\ (B \ {x}) \ A = B \ A
      BY <2>5
    <3>2. a = f[x] + a1 /\ b = b1
      <4>1. B \cap A \in SUBSET S /\ x \in B \cap A
        BY <2>5
      <4> QED
        BY <1>1, <3>1, <4>1, Zenon
    <3> HIDE DEF a, b, a1, b1, r
    <3>3. Total(f, B) = a + b
      BY <2>2, <2>3, <2>4, <3>2
    <3> QED
      BY <3>3 DEF a, b
  <2>6. CASE x \notin A
    <3>1. (B \ {x}) \ A = (B \ A) \ {x} /\ (B \ {x}) \cap A = B \cap A
      BY <2>6
    <3>2. b = f[x] + b1 /\ a = a1
      <4>1. B \ A \in SUBSET S /\ x \in B \ A
        BY <2>6
      <4> QED
        BY <1>1, <3>1, <4>1, Zenon
    <3> HIDE DEF a, b, a1, b1, r
    <3>3. Total(f, B) = a + b
      BY <2>2, <2>3, <2>4, <3>2
    <3> QED
      BY <3>3 DEF a, b
  <2> QED
    BY <2>5, <2>6
<1> HIDE DEF F
<1>4. SUBSET S \subseteq F
  BY <1>0, <1>2, <1>3, InductSets
<1>5. S \cap A = A
  OBVIOUS
<1> QED
  BY <1>0, <1>4, <1>5 DEF F

LEMMA TotalNat ==
    ASSUME NEW f, NEW S, IsFiniteSet(S), \A x \in S : f[x] \in Nat
    PROVE  /\ Ints(f, S) /\ Total(f, S) \in Nat
           /\ \A A \in SUBSET S : Total(f, A) \in Nat /\ Total(f, A) <= Total(f, S)
<1> DEFINE F == {A \in SUBSET S : Total(f, A) \in Nat}
<1>0. S \in SUBSET S /\ Ints(f, S)
  BY DEF Ints
<1>1. {} \in F
  BY <1>0, TotalStep
<1>2. ASSUME NEW A \in SUBSET S, A # {}, \A x \in A : A \ {x} \in F
      PROVE  A \in F
  <2>1. PICK x \in A : TRUE
    BY <1>2
  <2>2. Total(f, A) = f[x] + Total(f, A \ {x})
    BY <1>0, TotalStep
  <2>3. f[x] \in Nat /\ Total(f, A \ {x}) \in Nat
    BY <1>2
  <2>4. Total(f, A) \in Nat
    BY <2>2, <2>3
  <2> QED
    BY <2>4
<1> HIDE DEF F
<1>3. SUBSET S \subseteq F
  BY <1>1, <1>2, InductSets
<1>4. \A A \in SUBSET S : Total(f, A) \in Nat
  BY <1>3 DEF F
<1>5. ASSUME NEW A \in SUBSET S
      PROVE  Total(f, A) <= Total(f, S)
  <2> DEFINE a == Total(f, A)
             b == Total(f, S \ A)
  <2>1. Total(f, S) = a + b
    BY <1>0, TotalParts
  <2>2. a \in Nat /\ b \in Nat
    BY <1>4
  <2> HIDE DEF a, b
  <2>3. a <= Total(f, S)
    BY <2>1, <2>2
  <2> QED
    BY <2>3 DEF a
<1> QED
  BY <1>0, <1>4, <1>5

\* The sums over the parts of a key add up to the sum over their union.
LEMMA TotalByKey ==
    ASSUME NEW f, NEW S, Ints(f, S), NEW key, NEW K, IsFiniteSet(K)
    PROVE  LET G == [k \in K |-> Total(f, {x \in S : key[x] = k})]
           IN  Ints(G, K) /\ Total(G, K) = Total(f, {x \in S : key[x] \in K})
<1> DEFINE G == [k \in K |-> Total(f, {x \in S : key[x] = k})]
           All(A) == {x \in S : key[x] \in A}
           One(k) == {x \in S : key[x] = k}
           F == {A \in SUBSET K : Total(G, A) = Total(f, All(A))}
<1>0. Ints(G, K)
  <2>1. \A k \in K : One(k) \in SUBSET S /\ G[k] = Total(f, One(k))
    OBVIOUS
  <2> HIDE DEF G, One
  <2>2. \A k \in K : G[k] \in Int
    BY <2>1, TotalStep
  <2> QED
    BY <2>2 DEF Ints
<1>1. {} \in F
  <2>1. All({}) = {} /\ Total(f, {}) = 0
    BY TotalStep
  <2>2. Total(G, {}) = 0
    BY <1>0, TotalStep
  <2> QED
    BY <2>1, <2>2
<1>2. ASSUME NEW A \in SUBSET K, A # {}, \A k \in A : A \ {k} \in F
      PROVE  A \in F
  <2>1. PICK k \in A : TRUE
    BY <1>2
  <2>2. Total(G, A) = G[k] + Total(G, A \ {k})
    <3> HIDE DEF G
    <3> QED
      BY <1>0, TotalStep
  <2>3. Total(G, A \ {k}) = Total(f, All(A \ {k}))
    BY <1>2
  <2>4. G[k] = Total(f, One(k))
    OBVIOUS
  <2>5. Total(f, All(A)) = Total(f, One(k)) + Total(f, All(A \ {k}))
    <3>1. One(k) \in SUBSET All(A) /\ All(A) \in SUBSET S /\ All(A) \ One(k) = All(A \ {k})
      OBVIOUS
    <3> HIDE DEF All, One
    <3>2. Ints(f, All(A))
      BY <3>1, IntsInside
    <3> QED
      BY <3>1, <3>2, TotalParts
  <2>6. Total(G, A) = Total(f, All(A))
    BY <2>2, <2>3, <2>4, <2>5, Zenon
  <2> QED
    BY <2>6
<1> HIDE DEF F
<1>3. SUBSET K \subseteq F
  BY <1>1, <1>2, InductSets
<1>4. K \in SUBSET K
  OBVIOUS
<1> QED
  BY <1>0, <1>3, <1>4 DEF F

\* A cardinality is a sum of ones, and the counts of a key are sums of them.
LEMMA Ones ==
    ASSUME NEW S, IsFiniteSet(S)
    PROVE  \A A \in SUBSET S : Total([x \in S |-> 1], A) = Cardinality(A)
<1> DEFINE f == [x \in S |-> 1]
           F == {A \in SUBSET S : Total(f, A) = Cardinality(A)}
<1>0. Ints(f, S) /\ \A x \in S : f[x] = 1
  BY DEF Ints
<1>1. {} \in F
  BY <1>0, TotalStep, FS_EmptySet
<1> HIDE DEF f
<1>2. ASSUME NEW A \in SUBSET S, A # {}, \A x \in A : A \ {x} \in F
      PROVE  A \in F
  <2>1. PICK x \in A : TRUE
    BY <1>2
  <2> DEFINE n == Cardinality(A \ {x})
  <2>2. Total(f, A) = 1 + n
    BY <1>0, <1>2, TotalStep
  <2>3. IsFiniteSet(A) /\ Cardinality(A) \in Nat
    BY FS_Subset, FS_CardinalityType
  <2>4. n = Cardinality(A) - 1
    BY <2>3, FS_RemoveElement
  <2> HIDE DEF n
  <2>5. Total(f, A) = Cardinality(A)
    BY <2>2, <2>3, <2>4
  <2> QED
    BY <2>5
<1> HIDE DEF F
<1>3. SUBSET S \subseteq F
  BY <1>1, <1>2, InductSets
<1> QED
  BY <1>3 DEF F, f

LEMMA CountByKey ==
    ASSUME NEW S, IsFiniteSet(S), NEW key, NEW K, IsFiniteSet(K)
    PROVE  Total([k \in K |-> Cardinality({x \in S : key[x] = k})], K)
             = Cardinality({x \in S : key[x] \in K})
<1> DEFINE f == [x \in S |-> 1]
           One(k) == {x \in S : key[x] = k}
           G == [k \in K |-> Total(f, One(k))]
           H == [k \in K |-> Cardinality(One(k))]
           All == {x \in S : key[x] \in K}
<1>1. \A A \in SUBSET S : Total(f, A) = Cardinality(A)
  BY Ones
<1>2. Ints(f, S)
  BY DEF Ints
<1>3. Ints(G, K) /\ Total(G, K) = Total(f, All)
  <2> HIDE DEF f
  <2> QED
    BY <1>2, TotalByKey
<1>4. \A k \in K : One(k) \in SUBSET S
  OBVIOUS
<1>5. All \in SUBSET S
  OBVIOUS
<1> HIDE DEF f, One, All
<1>6. \A k \in K : G[k] = H[k]
  BY <1>1, <1>4
<1> HIDE DEF G, H
<1>7. Total(G, K) = Total(H, K)
  BY <1>3, <1>6, TotalSame
<1>8. Total(H, K) = Cardinality(All)
  BY <1>1, <1>3, <1>5, <1>7
<1> QED
  BY <1>8 DEF H, One, All

-----------------------------------------------------------------------------
(* The times of the rows.                                                  *)

Past == 0 .. now

(* A stored row has a time, and it is not in the future.                   *)
TimesPast ==
    /\ \A o \in Orders : truth[o] # "absent" => placed[o] \in Past
    /\ \A o \in Stored : row[o].ordered = None => row[o].first \in Past

LEMMA NowIsNat == ASSUME Typed PROVE now \in Nat /\ None \notin Past
BY NoneIsNoOrder DEF Typed, TableTyped, Past

LEMMA TimesStay ==
    ASSUME Typed, TimesPast, now' \in Nat, now <= now',
           \A o \in Orders :
               /\ truth'[o] # "absent" => \/ truth[o] # "absent" /\ placed'[o] = placed[o]
                                          \/ placed'[o] = now
               /\ row'[o].state # "absent" =>
                     \/ /\ row[o].state # "absent"
                        /\ row'[o].ordered = row[o].ordered /\ row'[o].first = row[o].first
                     \/ row'[o].ordered # None
                     \/ row'[o].first \in Past
    PROVE  TimesPast'
<1>1. \A t \in Past : t \in Past'
  BY NowIsNat DEF Past
<1>2. now \in Past'
  BY NowIsNat DEF Past
<1>3. None' = None
  BY DEF None
<1>4. \A o \in Orders : truth'[o] # "absent" => placed'[o] \in Past'
  BY <1>1, <1>2 DEF TimesPast
<1>5. ASSUME NEW o \in Orders, row'[o].state # "absent", row'[o].ordered = None
      PROVE  row'[o].first \in Past'
  BY <1>1, <1>5 DEF TimesPast, Stored
<1> QED
  BY <1>3, <1>4, <1>5 DEF TimesPast, Stored

LEMMA TimesKept ==
    ASSUME Typed, DatesStand, TimesPast, [Next]_vars
    PROVE  TimesPast'
<1>1. CASE UNCHANGED <<row, truth, placed, now>>
  BY <1>1, NowIsNat, TimesStay
<1>2. ASSUME NEW o \in Orders, Place(o)
      PROVE  TimesPast'
  <2>1. UNCHANGED <<now, row>> /\ placed'[o] = now
        /\ \A p \in Orders \ {o} : truth'[p] = truth[p] /\ placed'[p] = placed[p]
    BY <1>2 DEF Place, Typed, TableTyped
  <2> QED
    BY <2>1, NowIsNat, TimesStay
<1>3. ASSUME NEW o \in Orders, NEW s \in States, Move(o, s)
      PROVE  TimesPast'
  <2>1. UNCHANGED <<now, row, placed>> /\ truth[o] # "absent"
        /\ \A p \in Orders \ {o} : truth'[p] = truth[p]
    BY <1>3, DeskAssumption DEF Move, Typed, TableTyped
  <2> QED
    BY <2>1, NowIsNat, TimesStay
<1>4. ASSUME NEW o \in Orders, Archive(o)
      PROVE  TimesPast'
  <2>1. /\ UNCHANGED <<now, truth, placed>> /\ row[o].state = "new"
        /\ row'[o].ordered = row[o].ordered /\ row'[o].first = row[o].first
        /\ \A p \in Orders \ {o} : row'[p] = row[p]
    BY <1>4 DEF Archive, bigseller, Typed, TableTyped, Rows
  <2> QED
    BY <2>1, NowIsNat, TimesStay
<1>5. CASE Tick
  BY <1>5, NowIsNat, TimesStay DEF Tick, bigseller
<1>6. ASSUME NEW w \in Writers, Commit(w)
      PROVE  TimesPast'
  <2> DEFINE o == open[w].order
  <2>1. UNCHANGED <<now, truth, placed>> /\ o \in Orders /\ open[w] # NoTxn
    BY <1>6 DEF Commit, bigseller, Typed, OpenTyped
  <2>2. /\ row'[o].ordered = open[w].ordered
        /\ row'[o].first = IF open[w].ordered # None THEN None
                           ELSE IF row[o].state = "absent" THEN now ELSE row[o].first
        /\ \A p \in Orders \ {o} : row'[p] = row[p]
    BY <1>6, <2>1 DEF Commit, Written, Typed, TableTyped
  <2>3. row[o].state # "absent" => row[o].ordered = open[w].ordered
    BY <2>1 DEF DatesStand, RowsDated, OpenDated
  <2>4. row'[o].ordered # None \/ row'[o].first \in Past
    BY <2>1, <2>2, <2>3, NowIsNat DEF TimesPast, Stored, Past
  <2> HIDE DEF o
  <2> QED
    BY <2>1, <2>2, <2>4, NowIsNat, TimesStay
<1>7. ASSUME NEW j \in jobs, Mark(j)
      PROVE  TimesPast'
  <2>1. \A o \in Orders : /\ row'[o].state = row[o].state
                          /\ row'[o].ordered = row[o].ordered /\ row'[o].first = row[o].first
    BY <1>7 DEF Mark, Typed, TableTyped, Rows
  <2>2. UNCHANGED <<now, truth, placed>>
    BY <1>7 DEF Mark, others, bigseller
  <2> QED
    BY <2>1, <2>2, NowIsNat, TimesStay
<1>8. ASSUME Printing, ~\E j \in jobs : Mark(j)
      PROVE  TimesPast'
  BY <1>1, <1>8 DEF Printing, AskUnprinted, AskSelected, OpenDialog, Close, Wave, Prepared,
     PrepareRefused, PrepareFails, Confirm, ConfirmLost, MarkFails, others, bigseller
<1>9. ASSUME NEW w \in Writers, Abort(w) \/ \E o \in Orders : Upsert(w, o)
      PROVE  TimesPast'
  BY <1>1, <1>9 DEF Abort, Upsert, bigseller
<1>10. CASE \/ UNCHANGED vars \/ ReadRows \/ ReadTotal \/ CloseTab \/ Poll
            \/ \E t \in Tabs : OpenTab(t)
  BY <1>1, <1>10 DEF vars, ReadRows, ReadTotal, CloseTab, Poll, OpenTab, bigseller
<1> QED
  BY <1>2, <1>3, <1>4, <1>5, <1>6, <1>7, <1>8, <1>9, <1>10, BesideWriters
     DEF Next, Syncing, Typed

-----------------------------------------------------------------------------
(* The days.                                                               *)

LEMMA DayIs ==
    ASSUME NEW t \in Nat
    PROVE  /\ Day(t) \in Nat
           /\ Day(t) * DayLen <= t /\ t < (Day(t) + 1) * DayLen
           /\ \A d \in Nat : d * DayLen <= t /\ t < (d + 1) * DayLen => d = Day(t)
<1>0. DayLen \in Nat \ {0} /\ Day(t) = t \div DayLen
  BY DeskAssumption DEF Day
<1>1. \A L \in Nat \ {0} : t \div L \in Nat
  OBVIOUS
<1>2. \A L \in Nat \ {0} : (t \div L) * L <= t /\ t < (t \div L) * L + L
  OBVIOUS
<1>3. \A L \in Nat \ {0}, d \in Nat : (d + 1) * L = d * L + L /\ d * L \in Nat
  OBVIOUS
<1>4. \A L \in Nat \ {0}, d, e \in Nat : d < e => d * L + L <= e * L
  OBVIOUS
<1>5. Day(t) \in Nat /\ Day(t) * DayLen <= t /\ t < (Day(t) + 1) * DayLen
  <2> DEFINE L == DayLen
  <2>1. L \in Nat \ {0} /\ Day(t) = t \div L
    BY <1>0
  <2> HIDE DEF L
  <2> QED
    BY <1>1, <1>2, <1>3, <2>1 DEF L
<1>6. ASSUME NEW d \in Nat, d * DayLen <= t, t < (d + 1) * DayLen
      PROVE  d = Day(t)
  <2>1. ~(d < Day(t))
    BY <1>0, <1>3, <1>4, <1>5, <1>6
  <2>2. ~(Day(t) < d)
    BY <1>0, <1>3, <1>4, <1>5, <1>6
  <2> QED
    BY <1>5, <2>1, <2>2
<1> QED
  BY <1>5, <1>6

LEMMA DaysGrow ==
    ASSUME NEW s \in Nat, NEW t \in Nat, s <= t
    PROVE  Day(s) <= Day(t)
<1>1. \A L \in Nat \ {0}, d, e \in Nat : d < e => d * L + L <= e * L
  OBVIOUS
<1>2. \A L \in Nat \ {0}, d \in Nat : (d + 1) * L = d * L + L /\ d * L \in Nat
  OBVIOUS
<1>3. \A d \in Nat : (d + 1) * DayLen = d * DayLen + DayLen /\ d * DayLen \in Nat
  BY <1>2, DeskAssumption
<1>4. \A d, e \in Nat : d < e => d * DayLen + DayLen <= e * DayLen
  BY <1>1, DeskAssumption
<1>5. Day(s) \in Nat /\ s < Day(s) * DayLen + DayLen /\ Day(s) * DayLen \in Nat
  BY <1>3, DayIs
<1>6. Day(t) \in Nat /\ Day(t) * DayLen <= t /\ Day(t) * DayLen \in Nat
  BY <1>3, DayIs
<1>7. ASSUME Day(t) < Day(s) PROVE FALSE
  <2>1. Day(t) * DayLen + DayLen <= Day(s) * DayLen /\ t < Day(t) * DayLen + DayLen
    BY <1>3, <1>4, <1>5, <1>6, <1>7, DayIs
  <2>2. Day(s) * DayLen <= s
    BY DayIs
  <2> QED
    BY <1>5, <1>6, <2>1, <2>2, DeskAssumption
<1> QED
  BY <1>5, <1>6, <1>7

Sound == Typed /\ DatesStand /\ TimesPast

LEMMA StoredWhen ==
    ASSUME Sound, NEW o \in Stored
    PROVE  o \in Orders /\ When(o) \in Past /\ Day(When(o)) \in 0 .. Day(now)
<1>1. o \in Orders /\ row[o].state # "absent"
  BY DEF Stored
<1>2. CASE row[o].ordered # None
  <2>1. row[o].ordered = placed[o] /\ placed[o] \in Past
    BY <1>1, <1>2 DEF Sound, DatesStand, RowsDated, DateOf, TimesPast
  <2> QED
    BY <1>1, <1>2, <2>1, NowIsNat, DaysGrow, DayIs DEF When, Past, Sound
<1>3. CASE row[o].ordered = None
  <2>1. When(o) = row[o].first /\ row[o].first \in Past
    BY <1>3 DEF Sound, TimesPast, When
  <2> QED
    BY <1>1, <2>1, NowIsNat, DaysGrow, DayIs DEF Past, Sound
<1> QED
  BY <1>2, <1>3

LEMMA OfDayIs ==
    ASSUME Sound, NEW d \in Nat
    PROVE  OfDay(d) = {o \in Stored : Day(When(o)) = d}
<1>1. ASSUME NEW o \in Stored
      PROVE  o \in OfDay(d) <=> Day(When(o)) = d
  <2>1. When(o) \in Nat
    BY StoredWhen, NowIsNat DEF Past, Sound
  <2>2. o \in OfDay(d) <=> d * DayLen <= When(o) /\ When(o) < (d + 1) * DayLen
    <3>1. \A L \in Nat : d * L \in Nat /\ (d + 1) * L \in Nat
      OBVIOUS
    <3>2. d * DayLen \in Nat /\ (d + 1) * DayLen \in Nat
      BY <3>1, DeskAssumption
    <3> QED
      BY <2>1, <3>2 DEF OfDay, Between
  <2> QED
    BY <2>1, <2>2, DayIs
<1> QED
  BY <1>1 DEF OfDay, Between

\* The day so far is the whole of it: no row is of the future.
LEMMA SoFar ==
    ASSUME Sound
    PROVE  Between(DayStart(now), now + 1) = OfDay(Day(now))
<1>1. now \in Nat /\ Day(now) \in Nat
  BY NowIsNat, DayIs DEF Sound
<1>2. DayStart(now) \in Nat /\ DayStart(now) = Day(now) * DayLen
      /\ (Day(now) + 1) * DayLen \in Nat /\ now < (Day(now) + 1) * DayLen
  <2>1. \A L, d \in Nat : d * L \in Nat /\ (d + 1) * L \in Nat
    OBVIOUS
  <2> QED
    BY <1>1, <2>1, DayIs, DeskAssumption DEF DayStart
<1>3. ASSUME NEW o \in Stored
      PROVE  When(o) < now + 1 /\ When(o) < (Day(now) + 1) * DayLen
  BY <1>1, <1>2, StoredWhen DEF Past
<1> QED
  BY <1>2, <1>3 DEF OfDay, Between

LEMMA Parts ==
    ASSUME NEW S, IsFiniteSet(S), NEW A
    PROVE  Cardinality(S) = Cardinality(S \ A) + Cardinality(S \cap A)
<1>1. IsFiniteSet(S \ A) /\ IsFiniteSet(S \cap A)
  BY FS_Subset
<1>2. (S \ A) \cap (S \cap A) = {} /\ S = (S \ A) \cup (S \cap A)
  OBVIOUS
<1>3. Cardinality(S) = Cardinality(S \ A) + Cardinality(S \cap A) - Cardinality({})
  <2>1. Cardinality((S \ A) \cup (S \cap A))
          = Cardinality(S \ A) + Cardinality(S \cap A) - Cardinality((S \ A) \cap (S \cap A))
    BY <1>1, FS_Union
  <2> QED
    BY <1>2, <2>1, Zenon
<1>4. Cardinality({}) = 0 /\ Cardinality(S \ A) \in Nat /\ Cardinality(S \cap A) \in Nat
  BY <1>1, FS_EmptySet, FS_CardinalityType
<1> QED
  BY <1>3, <1>4

\* Every stored order is of exactly one day.
LEMMA EachOfOneDay ==
    ASSUME Sound, NEW o \in Stored
    PROVE  \E d \in 0 .. Day(now) :
              o \in OfDay(d) /\ \A e \in 0 .. Day(now) : o \in OfDay(e) => e = d
<1>1. Day(When(o)) \in 0 .. Day(now)
  BY StoredWhen
<1>2. Day(When(o)) \in Nat
  BY <1>1
<1>3. o \in OfDay(Day(When(o)))
  BY <1>2, OfDayIs
<1>4. \A e \in 0 .. Day(now) : o \in OfDay(e) => e = Day(When(o))
  BY OfDayIs
<1> QED
  BY <1>1, <1>3, <1>4

\* A query that returns fewer rows than its limit returns all there are.
LEMMA NewestAll ==
    ASSUME NEW S \in SUBSET Orders, NEW n \in Nat, NEW T \in Newest(S, n), Cardinality(T) < n
    PROVE  T = S
<1>1. T \in SUBSET S /\ Cardinality(T) = Capped(S, n)
  BY DEF Newest
<1>2. IsFiniteSet(S) /\ Cardinality(S) \in Nat
  BY SubsetCounts
<1>3. Cardinality(T) = Cardinality(S)
  BY <1>1, <1>2 DEF Capped
<1> QED
  BY <1>1, <1>2, <1>3, FS_Subset

LEMMA RekapIs ==
    ASSUME NEW d
    PROVE  /\ Rekap(d).orders = Cardinality(OfDay(d) \ Canceled)
           /\ Rekap(d).gmv = Worth(OfDay(d) \ Canceled)
BY DEF Rekap

\* The rekap and the cancel report have every order of the day, and both only
\* those whose cancel is under way; unless the report is full.
LEMMA RekapAndCancels ==
    ASSUME NEW d, NEW R \in CancelReports(d), Cardinality(R) < ReportCap
    PROVE  Rekap(d).orders + Cardinality(R)
             = Cardinality(OfDay(d)) + Cardinality((OfDay(d) \cap InCancel) \ Canceled)
<1> DEFINE S == OfDay(d)
           C == {o \in S : o \in Canceled \cup InCancel}
<1>1. S \in SUBSET Orders /\ C \in SUBSET Orders
  BY DEF OfDay, Between, Stored
<1>2. R = C
  BY <1>1, NewestAll, ReportsAssumption DEF CancelReports
<1>3. R \cap Canceled = S \cap Canceled /\ R \ Canceled = (S \cap InCancel) \ Canceled
  BY <1>2
<1>4. Rekap(d).orders = Cardinality(S \ Canceled)
  BY RekapIs
<1>5. R \in SUBSET Orders
  BY <1>1, <1>2
<1> HIDE DEF S, C
<1>6. Cardinality(S) = Cardinality(S \ Canceled) + Cardinality(S \cap Canceled)
  BY <1>1, Parts, SubsetCounts
<1>7. Cardinality(R) = Cardinality((S \cap InCancel) \ Canceled) + Cardinality(S \cap Canceled)
  BY <1>3, <1>5, Parts, SubsetCounts
<1>8. /\ Cardinality(S \ Canceled) \in Nat /\ Cardinality(S \cap Canceled) \in Nat
      /\ Cardinality((S \cap InCancel) \ Canceled) \in Nat
  BY <1>1, SubsetCounts
<1>9. Rekap(d).orders + Cardinality(R) = Cardinality(S) + Cardinality((S \cap InCancel) \ Canceled)
  BY <1>4, <1>6, <1>7, <1>8
<1> QED
  BY <1>9 DEF S

-----------------------------------------------------------------------------
(* The lines of orders.                                                    *)

LEMMA ImageFinite ==
    ASSUME NEW S, IsFiniteSet(S), NEW f
    PROVE  IsFiniteSet({f[x] : x \in S})
<1> DEFINE F == {A \in SUBSET S : IsFiniteSet({f[x] : x \in A})}
<1>1. {} \in F
  <2>1. {f[x] : x \in {}} = {}
    OBVIOUS
  <2> QED
    BY <2>1, FS_EmptySet
<1>2. ASSUME NEW A \in SUBSET S, A # {}, \A x \in A : A \ {x} \in F
      PROVE  A \in F
  <2>1. PICK x \in A : TRUE
    BY <1>2
  <2>2. {f[y] : y \in A} = {f[y] : y \in A \ {x}} \cup {f[x]}
    OBVIOUS
  <2>3. IsFiniteSet({f[y] : y \in A \ {x}})
    BY <1>2
  <2>4. IsFiniteSet({f[y] : y \in A \ {x}} \cup {f[x]})
    BY <2>3, FS_AddElement
  <2>5. IsFiniteSet({f[y] : y \in A})
    BY <2>2, <2>4, Zenon
  <2> QED
    BY <2>5
<1>3. S \in SUBSET S
  OBVIOUS
<1> HIDE DEF F
<1>4. SUBSET S \subseteq F
  BY <1>1, <1>2, InductSets
<1> QED
  BY <1>3, <1>4 DEF F

(* A finite set of lines with numbers on them.                             *)
LinesGood(L) ==
    IsFiniteSet(L) /\ \A x \in L : x.line.qty \in Nat /\ x.line.amount \in Nat

LEMMA LinesGoodInside ==
    ASSUME NEW L, LinesGood(L), NEW A \in SUBSET L
    PROVE  LinesGood(A)
BY FS_Subset DEF LinesGood

LEMMA LinesAreGood ==
    ASSUME NEW S \in SUBSET Orders
    PROVE  /\ LinesGood(LinesOf(S)) /\ LinesGood(Paid(LinesOf(S)))
           /\ \A x \in LinesOf(S) : /\ x.order \in S /\ x.line \in Items[x.order]
                                    /\ x.line.sku \in Seq(STRING)
<1> DEFINE At(o) == {[order |-> o, line |-> l] : l \in Items[o]}
           f == [o \in S |-> At(o)]
<1>1. LinesOf(S) = UNION {f[o] : o \in S}
  BY DEF LinesOf
<1>2. \A x \in LinesOf(S) : x.order \in S /\ x.line \in Items[x.order]
  BY DEF LinesOf
<1>3. \A x \in LinesOf(S) : /\ x.line.sku \in Seq(STRING)
                            /\ x.line.qty \in Nat /\ x.line.amount \in Nat
  BY <1>2, ReportsAssumption
<1>4. ASSUME NEW o \in S
      PROVE  IsFiniteSet(f[o])
  <2> DEFINE g == [l \in Items[o] |-> [order |-> o, line |-> l]]
  <2>1. f[o] = {g[l] : l \in Items[o]}
    OBVIOUS
  <2>2. IsFiniteSet(Items[o])
    BY ReportsAssumption
  <2> HIDE DEF f, g
  <2> QED
    BY <2>1, <2>2, ImageFinite
<1>5. IsFiniteSet(LinesOf(S))
  <2> DEFINE T == {f[o] : o \in S}
  <2>1. \A t \in T : IsFiniteSet(t)
    BY <1>4
  <2>2. IsFiniteSet(T)
    <3> HIDE DEF f
    <3> QED
      BY SubsetCounts, ImageFinite
  <2> HIDE DEF T
  <2>3. IsFiniteSet(UNION T)
    BY <2>1, <2>2, FS_UNION
  <2> QED
    BY <1>1, <2>3 DEF T
<1>6. LinesGood(LinesOf(S))
  BY <1>3, <1>5 DEF LinesGood
<1>7. Paid(LinesOf(S)) \in SUBSET LinesOf(S)
  BY DEF Paid
<1> QED
  BY <1>2, <1>3, <1>6, <1>7, LinesGoodInside

LEMMA LinesOfPart ==
    ASSUME NEW S \in SUBSET Orders, NEW A \in SUBSET S
    PROVE  /\ LinesOf(A) = {x \in LinesOf(S) : x.order \in A}
           /\ Paid(LinesOf(A)) = {x \in Paid(LinesOf(S)) : x.order \in A}
<1>1. LinesOf(A) = {x \in LinesOf(S) : x.order \in A}
  BY DEF LinesOf
<1> QED
  BY <1>1 DEF Paid

(* What is added up of lines: quantities or amounts.                       *)
Qtys(L) == [x \in L |-> x.line.qty]
Amounts(L) == [x \in L |-> x.line.amount]

LEMMA LineSums ==
    ASSUME NEW L, LinesGood(L)
    PROVE  /\ Ints(Qtys(L), L) /\ Ints(Amounts(L), L)
           /\ \A A \in SUBSET L :
                 /\ Qty(A) = Total(Qtys(L), A) /\ Revenue(A) = Total(Amounts(L), A)
                 /\ Qty(A) \in Nat /\ Revenue(A) \in Nat
                 /\ Qty(A) <= Qty(L)
                 /\ Revenue(L) = Revenue(A) + Revenue(L \ A)
                 /\ Qty(L) = Qty(A) + Qty(L \ A)
<1> DEFINE q == Qtys(L)
           m == Amounts(L)
<1>1. IsFiniteSet(L) /\ \A x \in L : /\ q[x] = x.line.qty /\ m[x] = x.line.amount
                                     /\ q[x] \in Nat /\ m[x] \in Nat
  BY DEF LinesGood, Qtys, Amounts
<1>2. \A A \in SUBSET L : Total(q, A) \in Nat /\ Total(q, A) <= Total(q, L)
  <2> HIDE DEF q
  <2> QED
    BY <1>1, TotalNat
<1>3. \A A \in SUBSET L : Total(m, A) \in Nat
  <2> HIDE DEF m
  <2> QED
    BY <1>1, TotalNat
<1>4. Ints(q, L) /\ Ints(m, L)
  <2> HIDE DEF q, m
  <2> QED
    BY <1>1 DEF Ints
<1>5. ASSUME NEW A \in SUBSET L
      PROVE  Qty(A) = Total(q, A) /\ Revenue(A) = Total(m, A)
  <2> DEFINE a == [x \in A |-> x.line.qty]
             b == [x \in A |-> x.line.amount]
  <2>1. Qty(A) = Total(a, A) /\ Revenue(A) = Total(b, A)
    BY DEF Qty, Revenue, SumOf
  <2>2. (\A x \in A : q[x] = a[x]) /\ (\A x \in A : m[x] = b[x])
    BY <1>1
  <2>3. Ints(q, A) /\ Ints(m, A)
    BY <1>4, IntsInside
  <2> HIDE DEF a, b, q, m
  <2>4. Total(q, A) = Total(a, A)
    BY <2>2, <2>3, TotalSame
  <2>5. Total(m, A) = Total(b, A)
    BY <2>2, <2>3, TotalSame
  <2> QED
    BY <2>1, <2>4, <2>5
<1>6. L \in SUBSET L /\ \A A \in SUBSET L : L \ A \in SUBSET L
  OBVIOUS
<1>7. ASSUME NEW f, Ints(f, L), NEW A \in SUBSET L
      PROVE  Total(f, L) = Total(f, A) + Total(f, L \ A)
  BY <1>7, TotalParts
<1> HIDE DEF q, m
<1>8. ASSUME NEW A \in SUBSET L
      PROVE  Revenue(L) = Revenue(A) + Revenue(L \ A) /\ Qty(L) = Qty(A) + Qty(L \ A)
  <2>1. Revenue(L) = Total(m, L) /\ Revenue(A) = Total(m, A) /\ Revenue(L \ A) = Total(m, L \ A)
    BY <1>5, <1>6
  <2>2. Qty(L) = Total(q, L) /\ Qty(A) = Total(q, A) /\ Qty(L \ A) = Total(q, L \ A)
    BY <1>5, <1>6
  <2> QED
    BY <1>4, <1>7, <2>1, <2>2
<1>9. ASSUME NEW A \in SUBSET L
      PROVE  Qty(A) \in Nat /\ Revenue(A) \in Nat /\ Qty(A) <= Qty(L)
  <2>1. Qty(L) = Total(q, L) /\ Qty(A) = Total(q, A) /\ Revenue(A) = Total(m, A)
    BY <1>5, <1>6
  <2> QED
    BY <1>2, <1>3, <2>1
<1> QED
  BY <1>4, <1>5, <1>8, <1>9 DEF q, m

\* Lines grouped by a key: the groups add up to their union.
LEMMA QtyByKey ==
    ASSUME NEW L, LinesGood(L), NEW key, NEW K, IsFiniteSet(K)
    PROVE  Total([k \in K |-> Qty({x \in L : key[x] = k})], K)
             = Qty({x \in L : key[x] \in K})
<1> DEFINE f == Qtys(L)
           One(k) == {x \in L : key[x] = k}
           All == {x \in L : key[x] \in K}
<1>1. Ints(f, L)
  BY LineSums
<1>2. \A A \in SUBSET L : Qty(A) = Total(f, A)
  BY LineSums
<1>3. All \in SUBSET L /\ \A k \in K : One(k) \in SUBSET L
  OBVIOUS
<1>4. [k \in K |-> Qty(One(k))] = [k \in K |-> Total(f, One(k))]
  <2> HIDE DEF One, f
  <2> QED
    BY <1>2, <1>3
<1> HIDE DEF f
<1>5. Total([k \in K |-> Total(f, One(k))], K) = Total(f, All)
  BY <1>1, TotalByKey
<1>6. Qty(All) = Total(f, All)
  BY <1>2, <1>3
<1> HIDE DEF One, All
<1>7. Total([k \in K |-> Qty(One(k))], K) = Qty(All)
  BY <1>4, <1>5, <1>6
<1> QED
  BY <1>7 DEF One, All

LEMMA RevenueByKey ==
    ASSUME NEW L, LinesGood(L), NEW key, NEW K, IsFiniteSet(K)
    PROVE  Total([k \in K |-> Revenue({x \in L : key[x] = k})], K)
             = Revenue({x \in L : key[x] \in K})
<1> DEFINE f == Amounts(L)
           One(k) == {x \in L : key[x] = k}
           All == {x \in L : key[x] \in K}
<1>1. Ints(f, L)
  BY LineSums
<1>2. \A A \in SUBSET L : Revenue(A) = Total(f, A)
  BY LineSums
<1>3. All \in SUBSET L /\ \A k \in K : One(k) \in SUBSET L
  OBVIOUS
<1>4. [k \in K |-> Revenue(One(k))] = [k \in K |-> Total(f, One(k))]
  <2> HIDE DEF One, f
  <2> QED
    BY <1>2, <1>3
<1> HIDE DEF f
<1>5. Total([k \in K |-> Total(f, One(k))], K) = Total(f, All)
  BY <1>1, TotalByKey
<1>6. Revenue(All) = Total(f, All)
  BY <1>2, <1>3
<1> HIDE DEF One, All
<1>7. Total([k \in K |-> Revenue(One(k))], K) = Revenue(All)
  BY <1>4, <1>5, <1>6
<1> QED
  BY <1>7 DEF One, All

-----------------------------------------------------------------------------
(* The dashboard.                                                          *)

LEMMA SoldAre ==
    ASSUME NEW n
    PROVE  /\ Window(n) \in SUBSET Orders /\ Sold(n) \in SUBSET Orders
           /\ Sold(n) \in SUBSET Window(n) /\ Window(n) \in SUBSET Dated
           /\ IsFiniteSet(Window(n)) /\ IsFiniteSet(Sold(n))
           /\ LinesGood(Sales(n))
           /\ AnalyticsTotals(n).orders = Cardinality(Sold(n))
           /\ AnalyticsTotals(n).canceled = Cardinality(Window(n) \cap Canceled)
           /\ AnalyticsTotals(n).revenue = Revenue(Sales(n))
<1>1. Window(n) \in SUBSET Orders /\ Sold(n) \in SUBSET Orders
      /\ Sold(n) \in SUBSET Window(n) /\ Window(n) \in SUBSET Dated
  BY DEF Window, Sold, Dated, Stored
<1>2. LinesGood(Sales(n))
  BY <1>1, LinesAreGood DEF Sales
<1> QED
  BY <1>1, <1>2, SubsetCounts DEF AnalyticsTotals

\* What a bar counts: of the rows of its day the dated ones that are neither
\* canceled nor archived, for the window began before that day.
LEMMA BarIs ==
    ASSUME Sound, NEW n \in Nat, NEW d \in Nat, Day(now) < d + n
    PROVE  Sold(n) \cap OnDay(d)
             = {o \in OfDay(d) \ Canceled : o \in Dated /\ o \notin Archived}
<1> DEFINE D == {o \in OfDay(d) \ Canceled : o \in Dated /\ o \notin Archived}
<1>1. now \in Nat /\ Day(now) \in Nat
  BY NowIsNat, DayIs DEF Sound
<1>2. \A o \in Dated : o \in Stored /\ When(o) = row[o].ordered /\ row[o].ordered \in Nat
  BY StoredWhen, NowIsNat DEF Dated, When, Past, Sound
<1>3. \A o \in Dated : o \in OfDay(d) <=> Day(row[o].ordered) = d
  BY <1>2, OfDayIs
<1>4. ASSUME NEW t \in Nat, Day(t) = d
      PROVE  t >= now - n * DayLen
  <2>1. \A L, c, m \in Nat : (c + m) * L = c * L + m * L /\ m * L \in Nat /\ c * L \in Nat
    OBVIOUS
  <2>2. \A L, c, e \in Nat : c <= e => c * L <= e * L
    OBVIOUS
  <2>3. d * DayLen <= t /\ now < (Day(now) + 1) * DayLen
    BY <1>1, <1>4, DayIs
  <2>4. Day(now) + 1 \in Nat /\ d + n \in Nat /\ Day(now) + 1 <= d + n
    BY <1>1
  <2>5. (Day(now) + 1) * DayLen <= (d + n) * DayLen
    BY <2>2, <2>4, DeskAssumption
  <2>6. (d + n) * DayLen = d * DayLen + n * DayLen /\ d * DayLen \in Nat /\ n * DayLen \in Nat
        /\ (d + n) * DayLen \in Nat /\ (Day(now) + 1) * DayLen \in Nat
    BY <2>1, <2>4, DeskAssumption
  <2>7. \A a, b, c, e, f \in Int : a <= f /\ b < c /\ c <= a + e => f >= b - e
    OBVIOUS
  <2> QED
    BY <1>1, <2>3, <2>5, <2>6, <2>7
<1>5. ASSUME NEW o \in Dated
      PROVE  o \in Sold(n) \cap OnDay(d) <=> o \in D
  <2>1. o \in OnDay(d) <=> o \in OfDay(d)
    BY <1>2, <1>3 DEF OnDay, Stored
  <2>2. o \in Window(n) <=> o \notin Archived /\ row[o].ordered >= now - n * DayLen
    BY DEF Window
  <2>3. o \in OfDay(d) => row[o].ordered >= now - n * DayLen
    BY <1>2, <1>3, <1>4
  <2> QED
    BY <2>1, <2>2, <2>3 DEF Sold
<1>6. Sold(n) \subseteq Dated /\ D \subseteq Dated
  BY SoldAre
<1> HIDE DEF D
<1>7. Sold(n) \cap OnDay(d) = D
  BY <1>5, <1>6
<1> QED
  BY <1>7 DEF D

\* A bar has the orders the rekap of its day has, but for archived ones and
\* those without a date.
LEMMA BarsDays ==
    ASSUME Sound, NEW n \in Nat
    PROVE  BarsAreDays(n)
<1> DEFINE A(d) == OfDay(d) \ Canceled
           D(d) == {o \in A(d) : o \in Dated /\ o \notin Archived}
           odd(d) == {o \in A(d) : o \in Archived \/ o \notin Dated}
           bars == AnalyticsDaily(n)
<1>1. Day(now) \in Nat
  BY NowIsNat, DayIs DEF Sound
<1>2. SUFFICES ASSUME NEW d \in DOMAIN bars \cap Nat
               PROVE  bars[d].orders = Rekap(d).orders - Cardinality(odd(d))
  BY DEF BarsAreDays
<1>3. DOMAIN bars = Day(now) - n + 1 .. Day(now)
  BY DEF AnalyticsDaily
<1>4. d \in Nat /\ d \in Day(now) - n + 1 .. Day(now)
  BY <1>2, <1>3
<1>5. Day(now) < d + n
  BY <1>1, <1>4
<1>6. bars[d].orders = Cardinality(Sold(n) \cap OnDay(d))
  BY <1>4 DEF AnalyticsDaily
<1>7. bars[d].orders = Cardinality(D(d))
  BY <1>4, <1>5, <1>6, BarIs
<1>8. Rekap(d).orders = Cardinality(A(d))
  BY RekapIs
<1>9. /\ A(d) \in SUBSET Orders /\ D(d) = A(d) \ odd(d) /\ A(d) \cap odd(d) = odd(d)
      /\ odd(d) \in SUBSET Orders /\ D(d) \in SUBSET Orders
  BY DEF OfDay, Between, Stored
<1> HIDE DEF A, D, odd, bars
<1>10. IsFiniteSet(A(d)) /\ Cardinality(odd(d)) \in Nat /\ Cardinality(D(d)) \in Nat
  BY <1>9, SubsetCounts
<1>11. Cardinality(A(d)) = Cardinality(A(d) \ odd(d)) + Cardinality(A(d) \cap odd(d))
  BY <1>10, Parts
<1>12. Cardinality(A(d)) = Cardinality(D(d)) + Cardinality(odd(d))
  BY <1>9, <1>11, Zenon
<1>13. Cardinality(A(d)) \in Nat
  BY <1>9, SubsetCounts
<1>14. Cardinality(D(d)) = Cardinality(A(d)) - Cardinality(odd(d))
  BY <1>10, <1>12, <1>13
<1> QED
  BY <1>7, <1>8, <1>14, Zenon

\* The counts of a key add up to what is counted.
LEMMA CountAddsUp ==
    ASSUME NEW S, IsFiniteSet(S), NEW key
    PROVE  SumOf(Count(key, S)) = Cardinality(S)
<1> DEFINE K == {key[o] : o \in S}
           g == [k \in K |-> Cardinality({o \in S : key[o] = k})]
           In == {o \in S : key[o] \in K}
<1>1. SumOf(Count(key, S)) = Total(g, K)
  BY DEF SumOf, Count
<1>2. IsFiniteSet(K)
  BY ImageFinite
<1>3. In = S
  OBVIOUS
<1>4. Total(g, K) = Cardinality(In)
  <2> HIDE DEF K
  <2> QED
    BY <1>2, CountByKey
<1> QED
  BY <1>1, <1>3, <1>4, Zenon

LEMMA QtyAddsUp ==
    ASSUME NEW L, LinesGood(L), NEW key
    PROVE  SumOf([k \in {key[x] : x \in L} |-> Qty({x \in L : key[x] = k})]) = Qty(L)
<1> DEFINE K == {key[x] : x \in L}
           g == [k \in K |-> Qty({x \in L : key[x] = k})]
           In == {x \in L : key[x] \in K}
<1>1. SumOf(g) = Total(g, K)
  BY DEF SumOf
<1>2. IsFiniteSet(K)
  BY ImageFinite DEF LinesGood
<1>3. In = L
  OBVIOUS
<1>4. Total(g, K) = Qty(In)
  <2> HIDE DEF K
  <2> QED
    BY <1>2, QtyByKey
<1> QED
  BY <1>1, <1>3, <1>4, Zenon

\* The breakdowns add up to the totals, but for the money of the platforms
\* without a name.
LEMMA BreakdownsAdd ==
    ASSUME NEW n
    PROVE  BreakdownsAddUp(n)
<1> DEFINE S == Sold(n)
           W == Window(n)
           L == Sales(n)
           plat == AnalyticsPlatforms(n)
           K == {Named[o] : o \in W}
           blank == {x \in L : Platform[x.order] = ""}
           tot == AnalyticsTotals(n)
<1>1. /\ W \in SUBSET Orders /\ S \in SUBSET W /\ S = W \ Canceled
      /\ IsFiniteSet(W) /\ IsFiniteSet(S) /\ LinesGood(L) /\ \A x \in L : x.order \in S
  BY SoldAre, LinesAreGood DEF Sold, Sales, Paid
<1>2. /\ tot.orders = Cardinality(S) /\ tot.canceled = Cardinality(W \cap Canceled)
      /\ tot.revenue = Revenue(L)
  BY SoldAre
<1>3. SumOf(AnalyticsCarriers(n)) = tot.orders
  BY <1>1, <1>2, CountAddsUp DEF AnalyticsCarriers
<1>4. SumOf(AnalyticsStates(n)) = tot.orders + tot.canceled
  <2>1. SumOf(AnalyticsStates(n)) = Cardinality(W)
    BY <1>1, CountAddsUp DEF AnalyticsStates
  <2>2. Cardinality(W) = Cardinality(W \ Canceled) + Cardinality(W \cap Canceled)
    BY <1>1, Parts
  <2> QED
    BY <1>1, <1>2, <2>1, <2>2, Zenon
<1>6. DOMAIN plat = K /\ \A p \in K :
         /\ plat[p].orders = Cardinality({o \in S : Named[o] = p})
         /\ plat[p].revenue = Revenue({x \in L : Platform[x.order] = p})
  BY DEF AnalyticsPlatforms
<1>7. IsFiniteSet(K)
  <2> HIDE DEF W
  <2> QED
    BY <1>1, ImageFinite
<1>8. SumOf([p \in DOMAIN plat |-> plat[p].orders]) = tot.orders
  <2> DEFINE f == [p \in DOMAIN plat |-> plat[p].orders]
             g == [p \in K |-> Cardinality({o \in S : Named[o] = p})]
             In == {o \in S : Named[o] \in K}
  <2>1. f = g
    BY <1>6
  <2>2. SumOf(f) = Total(g, K)
    BY <2>1 DEF SumOf
  <2>3. Total(g, K) = Cardinality(In)
    <3> HIDE DEF S, K
    <3> QED
      BY <1>1, <1>7, CountByKey
  <2>4. In = S
    BY <1>1
  <2> QED
    BY <1>2, <2>2, <2>3, <2>4, Zenon
<1>9. SumOf([p \in DOMAIN plat |-> plat[p].revenue]) = tot.revenue - Revenue(blank)
  <2> DEFINE f == [p \in DOMAIN plat |-> plat[p].revenue]
             key == [x \in L |-> Platform[x.order]]
             g == [p \in K |-> Revenue({x \in L : key[x] = p})]
             In == {x \in L : key[x] \in K}
  <2>0. \A p : {x \in L : key[x] = p} = {x \in L : Platform[x.order] = p}
    OBVIOUS
  <2>1. f = g
    BY <1>6, <2>0
  <2>2. SumOf(f) = Total(g, K)
    BY <2>1 DEF SumOf
  <2>3. Total(g, K) = Revenue(In)
    <3>1. LinesGood(L)
      BY <1>1
    <3> HIDE DEF L, K, key
    <3> QED
      BY <1>7, <3>1, RevenueByKey
  <2>4. \A x \in L : Platform[x.order] \in K <=> Platform[x.order] # ""
    <3> SUFFICES ASSUME NEW x \in L PROVE Platform[x.order] \in K <=> Platform[x.order] # ""
      OBVIOUS
    <3>1. x.order \in W /\ x.order \in Orders
      BY <1>1
    <3>2. "" \notin K
      BY <1>1 DEF Named
    <3>3. Platform[x.order] # "" => Named[x.order] = Platform[x.order]
      BY <3>1 DEF Named
    <3> QED
      BY <3>1, <3>2, <3>3
  <2>5. In = L \ blank /\ blank \in SUBSET L /\ L \ blank \in SUBSET L
    BY <2>4
  <2> HIDE DEF L, blank, In, g, K, f
  <2>6. Revenue(L) = Revenue(blank) + Revenue(L \ blank)
        /\ Revenue(blank) \in Nat /\ Revenue(L \ blank) \in Nat
    BY <1>1, <2>5, LineSums
  <2>7. SumOf(f) = tot.revenue - Revenue(blank)
    BY <1>2, <2>2, <2>3, <2>5, <2>6
  <2> QED
    BY <2>7 DEF f
<1> QED
  BY <1>3, <1>4, <1>8, <1>9 DEF BreakdownsAddUp

-----------------------------------------------------------------------------
(* The day.                                                                *)

LEMMA MostExists ==
    ASSUME NEW K, IsFiniteSet(K), K # {}, NEW q, \A k \in K : q[k] \in Nat
    PROVE  \E m \in K : \A k \in K : q[m] >= q[k]
<1> DEFINE F == {A \in SUBSET K : A # {} => \E m \in A : \A k \in A : q[m] >= q[k]}
<1>1. {} \in F
  OBVIOUS
<1>2. ASSUME NEW A \in SUBSET K, A # {}, \A x \in A : A \ {x} \in F
      PROVE  A \in F
  <2>1. PICK x \in A : TRUE
    BY <1>2
  <2>2. CASE A \ {x} = {}
    <3>1. \A k \in A : k = x
      BY <2>2
    <3> QED
      BY <2>1, <3>1
  <2>3. CASE A \ {x} # {}
    <3>1. PICK m \in A \ {x} : \A k \in A \ {x} : q[m] >= q[k]
      BY <1>2, <2>3
    <3>2. q[m] \in Nat /\ q[x] \in Nat /\ \A k \in A : q[k] \in Nat
      OBVIOUS
    <3>3. CASE q[m] >= q[x]
      <4>1. \A k \in A : q[m] >= q[k]
        BY <3>1, <3>3
      <4> QED
        BY <4>1
    <3>4. CASE q[x] > q[m]
      <4>1. \A k \in A : q[x] >= q[k]
        BY <3>1, <3>2, <3>4
      <4> QED
        BY <4>1
    <3> QED
      BY <3>2, <3>3, <3>4
  <2> QED
    BY <2>2, <2>3
<1>3. K \in SUBSET K
  OBVIOUS
<1> HIDE DEF F
<1>4. SUBSET K \subseteq F
  BY <1>1, <1>2, InductSets
<1> QED
  BY <1>3, <1>4 DEF F

\* Of a finite set there are always so many elements with the largest q.
LEMMA TopExists ==
    ASSUME NEW K, IsFiniteSet(K), NEW q, \A k \in K : q[k] \in Nat,
           NEW m \in Nat, m <= Cardinality(K)
    PROVE  \E T \in SUBSET K : Cardinality(T) = m /\ \A s \in T, t \in K \ T : q[s] >= q[t]
<1> DEFINE Top(T, n) == Cardinality(T) = n /\ \A s \in T, t \in K \ T : q[s] >= q[t]
           P == {n \in Nat : n <= Cardinality(K) => \E T \in SUBSET K : Top(T, n)}
<1>1. 0 \in P
  <2>1. Top({}, 0)
    BY FS_EmptySet
  <2> QED
    BY <2>1
<1>2. ASSUME NEW n \in P
      PROVE  n + 1 \in P
  <2>1. n \in Nat /\ n + 1 \in Nat /\ Cardinality(K) \in Nat
    BY FS_CardinalityType
  <2>2. SUFFICES ASSUME n + 1 <= Cardinality(K)
                 PROVE  \E T \in SUBSET K : Top(T, n + 1)
    BY <2>1
  <2>3. PICK T \in SUBSET K : Top(T, n)
    BY <2>1, <2>2
  <2>4. IsFiniteSet(T) /\ IsFiniteSet(K \ T) /\ Cardinality(T) = n
    BY <2>3, FS_Subset
  <2>5. K \ T # {}
    <3>1. K = T => Cardinality(K) = n
      BY <2>3
    <3> QED
      BY <2>1, <2>2, <3>1
  <2>6. PICK t \in K \ T : \A k \in K \ T : q[t] >= q[k]
    <3> DEFINE R == K \ T
    <3>1. IsFiniteSet(R) /\ R # {} /\ \A k \in R : q[k] \in Nat
      BY <2>4, <2>5
    <3> HIDE DEF R
    <3>2. \E t \in R : \A k \in R : q[t] >= q[k]
      BY <3>1, MostExists
    <3> QED
      BY <3>2 DEF R
  <2>7. Cardinality(T \cup {t}) = n + 1
    BY <2>4, <2>6, FS_AddElement
  <2>8. \A s \in T \cup {t}, k \in K \ (T \cup {t}) : q[s] >= q[k]
    BY <2>3, <2>6
  <2>9. T \cup {t} \in SUBSET K /\ Top(T \cup {t}, n + 1)
    BY <2>7, <2>8
  <2> QED
    BY <2>9
<1>3. P = Nat
  <2>1. P \in SUBSET Nat
    OBVIOUS
  <2> HIDE DEF P
  <2> QED
    BY <1>1, <1>2, <2>1, Induct
<1> QED
  BY <1>3

\* The rekap adds up the quantities of some rows of the day's lines; of all of
\* them when they are fewer than it holds.
LEMMA RekapQty ==
    ASSUME NEW d
    PROVE  LET whole == Qty(LinesOf(OfDay(d) \ Canceled))
           IN  /\ Rekap(d).qty <= whole
               /\ Cardinality(Rekap(d).rows) < SkuCap => Rekap(d).qty = whole
<1> DEFINE S == OfDay(d) \ Canceled
           L == LinesOf(S)
           keys == {RekapKey(x.line) : x \in L}
           Of(k) == {x \in L : RekapKey(x.line) = k}
           size == Capped(keys, SkuCap)
           shown == {T \in SUBSET keys :
                       /\ Cardinality(T) = size
                       /\ \A k \in T, j \in keys \ T : Qty(Of(k)) >= Qty(Of(j))}
           best == CHOOSE T \in shown : TRUE
<1>1. Rekap(d).qty = SumOf([k \in best |-> Qty(Of(k))]) /\ Rekap(d).rows = best
  BY DEF Rekap
<1>2. S \in SUBSET Orders /\ LinesGood(L)
  BY LinesAreGood DEF OfDay, Between, Stored
<1> DEFINE key == [x \in L |-> RekapKey(x.line)]
           q == [k \in keys |-> Qty(Of(k))]
<1>3. keys = {key[x] : x \in L} /\ \A k : Of(k) = {x \in L : key[x] = k} /\ Of(k) \in SUBSET L
  OBVIOUS
<1>4. IsFiniteSet(keys)
  <2>1. IsFiniteSet({key[x] : x \in L})
    <3>1. IsFiniteSet(L)
      BY <1>2 DEF LinesGood
    <3> HIDE DEF L, key
    <3> QED
      BY <3>1, ImageFinite
  <2> QED
    BY <1>3, <2>1
<1>5. \A k \in keys : q[k] = Qty(Of(k)) /\ q[k] \in Nat
  <2> HIDE DEF L, Of
  <2> QED
    BY <1>2, <1>3, LineSums
<1>6. size \in Nat /\ size <= Cardinality(keys) /\ (size < SkuCap => size = Cardinality(keys))
  <2>1. Cardinality(keys) \in Nat /\ SkuCap \in Nat
    BY <1>4, FS_CardinalityType, ReportsAssumption
  <2> HIDE DEF keys
  <2> QED
    BY <2>1 DEF Capped
<1>7. \E T \in SUBSET keys : Cardinality(T) = size /\ \A k \in T, j \in keys \ T : q[k] >= q[j]
  <2> HIDE DEF keys, size, q
  <2> QED
    BY <1>4, <1>5, <1>6, TopExists
<1>8. shown # {}
  <2>1. PICK T \in SUBSET keys :
           Cardinality(T) = size /\ \A k \in T, j \in keys \ T : q[k] >= q[j]
    <3> HIDE DEF size, q, keys
    <3> QED
      BY <1>7
  <2>2. \A k \in T, j \in keys \ T : Qty(Of(k)) >= Qty(Of(j))
    <3> HIDE DEF size, q, keys, Of
    <3> QED
      BY <1>5, <2>1
  <2> HIDE DEF size, q, keys, Of
  <2> QED
    BY <2>1, <2>2
<1>9. best \in SUBSET keys /\ Cardinality(best) = size
  <2>1. shown \subseteq SUBSET keys /\ \A T \in shown : Cardinality(T) = size
    OBVIOUS
  <2> HIDE DEF shown, size
  <2>2. best \in shown
    BY <1>8
  <2> QED
    BY <2>1, <2>2
<1>10. IsFiniteSet(best)
  <2> HIDE DEF best, keys
  <2> QED
    BY <1>4, <1>9, FS_Subset
<1> DEFINE g == [k \in best |-> Qty({x \in L : key[x] = k})]
           In == {x \in L : key[x] \in best}
<1>11. Rekap(d).qty = Total(g, best)
  <2> HIDE DEF best
  <2>1. [k \in best |-> Qty(Of(k))] = g
    BY <1>3
  <2> QED
    BY <1>1, <2>1 DEF SumOf
<1>12. Total(g, best) = Qty(In)
  <2> HIDE DEF best, L, key
  <2> QED
    BY <1>2, <1>10, QtyByKey
<1>13. In \in SUBSET L
  OBVIOUS
<1>14. Qty(In) <= Qty(L)
  <2> HIDE DEF In, L
  <2> QED
    BY <1>2, <1>13, LineSums
<1>15. Cardinality(best) < SkuCap => In = L
  <2>1. SUFFICES ASSUME Cardinality(best) < SkuCap PROVE In = L
    OBVIOUS
  <2>2. best = keys
    <3> HIDE DEF best, keys, size
    <3> QED
      BY <1>4, <1>6, <1>9, <2>1, FS_Subset
  <2> HIDE DEF best, keys, L
  <2> QED
    BY <1>3, <2>2
<1> HIDE DEF best, In, L, g
<1> QED
  BY <1>1, <1>11, <1>12, <1>14, <1>15 DEF L
\* What the dashboard has of today are the rows of the day that are dated, and
\* neither canceled nor archived.
LEMMA TodayIs ==
    ASSUME Sound
    PROVE  LET S == {o \in OfDay(Day(now)) \ Canceled : o \in Dated /\ o \notin Archived}
           IN  /\ TodayStats.orders = Cardinality(S) /\ TodayStats.items = Qty(Paid(LinesOf(S)))
               /\ Sold(1) \cap OnDay(Day(now)) = S
<1> DEFINE d == Day(now)
           D == {o \in OfDay(d) \ Canceled : o \in Dated /\ o \notin Archived}
           S == {o \in Dated \ (Canceled \cup Archived) : row[o].ordered >= DayStart(now)}
<1>0. now \in Nat /\ d \in Nat /\ DayStart(now) = d * DayLen /\ DayLen \in Nat
  BY NowIsNat, DayIs, DeskAssumption DEF Sound, DayStart
<1>1. \A o \in Dated : o \in Stored /\ When(o) = row[o].ordered
                       /\ row[o].ordered \in Nat /\ row[o].ordered <= now
  BY StoredWhen, NowIsNat DEF Dated, When, Past, Sound
<1>3. \A o \in Dated : row[o].ordered >= DayStart(now) <=> o \in OfDay(d)
  BY <1>1, SoFar, <1>0 DEF Between
<1>4. S = D
  BY <1>1, <1>3 DEF OfDay, Between
<1>5. Sold(1) \cap OnDay(d) = D
  <2>1. 1 \in Nat /\ Day(now) < d + 1
    BY <1>0
  <2> QED
    BY <1>0, <2>1, BarIs
<1>6. IsFiniteSet(S)
  <2>1. S \in SUBSET Orders
    BY DEF Dated, Stored
  <2> QED
    BY <2>1, SubsetCounts
<1>7. TodayStats.orders = Cardinality(S) /\ TodayStats.items = Qty(Paid(LinesOf(S)))
  <2>1. TodayStats.orders = SumOf(Count(Carrier, S)) /\ TodayStats.items = Qty(Paid(LinesOf(S)))
    BY DEF TodayStats
  <2>2. SumOf(Count(Carrier, S)) = Cardinality(S)
    <3> HIDE DEF S
    <3> QED
      BY <1>6, CountAddsUp
  <2> QED
    BY <2>1, <2>2
<1> QED
  BY <1>4, <1>5, <1>7

\* The day on the dashboard, on its last bar, in the rekap and on the cards.
LEMMA TodayAgree ==
    ASSUME Sound
    PROVE  TodayAgrees
<1> DEFINE d == Day(now)
           A == OfDay(d) \ Canceled
           D == {o \in A : o \in Dated /\ o \notin Archived}
           instant(T) == {o \in T : Carrier[o] = "instant"}
           whole == Qty(LinesOf(A))
           carried == {o \in A : KeyCarrier[o] # "other"}
           byCarrier == Infographic.current.carriers
<1>1. A \in SUBSET Orders /\ IsFiniteSet(A) /\ d \in Nat
  <2>1. A \in SUBSET Orders
    BY DEF OfDay, Between, Stored
  <2> QED
    BY <2>1, SubsetCounts, NowIsNat, DayIs DEF Sound
<1>2. /\ TodayStats.orders = Cardinality(D) /\ TodayStats.items = Qty(Paid(LinesOf(D)))
      /\ Sold(1) \cap OnDay(d) = D
  BY TodayIs
<1>3. /\ Rekap(d).orders = Cardinality(A) /\ Rekap(d).gmv = Worth(A)
      /\ Rekap(d).qty <= whole
      /\ Cardinality(Rekap(d).rows) < SkuCap => Rekap(d).qty = whole
  BY RekapIs, RekapQty
<1>4. /\ Infographic.current.orders = Cardinality(A) /\ Infographic.current.gmv = Worth(A)
      /\ Infographic.current.qty = whole
      /\ byCarrier = Count(KeyCarrier, carried)
  <2>1. Infographic.current = WindowStats(DayStart(now), now + 1)
    BY DEF Infographic
  <2>2. Between(DayStart(now), now + 1) \ Canceled = A
    BY SoFar
  <2> QED
    BY <2>1, <2>2 DEF WindowStats
<1>5. TodayStats.orders = AnalyticsDaily(1)[d].orders
  <2>1. d \in Day(now) - 1 + 1 .. Day(now)
    BY <1>1
  <2>2. AnalyticsDaily(1)[d].orders = Cardinality(Sold(1) \cap OnDay(d))
    BY <2>1 DEF AnalyticsDaily
  <2> QED
    BY <1>2, <2>2
<1>7. SumOf(CarrierDayList(d)) = Rekap(d).orders
  <2>1. CarrierDayList(d) = Count(KeyCarrier, A)
    BY DEF CarrierDayList
  <2> HIDE DEF A
  <2> QED
    BY <1>1, <1>3, <2>1, CountAddsUp
<1>8. TodayStats.items <= Infographic.current.qty
  <2>1. Paid(LinesOf(D)) \in SUBSET LinesOf(A) /\ LinesGood(LinesOf(A))
    <3>1. D \in SUBSET A
      OBVIOUS
    <3> HIDE DEF A, D
    <3>2. Paid(LinesOf(D)) = {x \in Paid(LinesOf(A)) : x.order \in D}
      BY <1>1, <3>1, LinesOfPart
    <3>3. Paid(LinesOf(D)) \in SUBSET LinesOf(A)
      BY <3>2 DEF Paid
    <3>4. LinesGood(LinesOf(A))
      BY <1>1, LinesAreGood
    <3> QED
      BY <3>3, <3>4
  <2> HIDE DEF A, D
  <2>2. Qty(Paid(LinesOf(D))) <= Qty(LinesOf(A))
    BY <2>1, LineSums
  <2> QED
    BY <1>2, <1>4, <2>2
<1>9. ASSUME NEW T \in GroupCards
      PROVE  instant(T) # {} => /\ "instant" \in DOMAIN byCarrier
                                /\ Cardinality(instant(T)) <= byCarrier["instant"]
  <2> DEFINE those == {o \in carried : KeyCarrier[o] = "instant"}
             rush == instant(T)
  <2>1. \A o \in rush : o \in carried /\ KeyCarrier[o] = "instant"
    <3>1. SUFFICES ASSUME NEW o \in rush
                   PROVE  o \in carried /\ KeyCarrier[o] = "instant"
      OBVIOUS
    <3>2. o \in OfDay(d) /\ row[o].state \in {"new", "processing", "pickup"}
      BY SoFar DEF GroupCards
    <3>3. o \notin Canceled
      BY <3>2 DEF Canceled
    <3>4. o \in Orders
      BY <3>2 DEF OfDay, Between, Stored
    <3> QED
      BY <3>2, <3>3, <3>4 DEF KeyCarrier
  <2>2. rush \in SUBSET those /\ those \in SUBSET Orders
    BY <1>1, <2>1
  <2>3. Cardinality(rush) <= Cardinality(those)
    <3> HIDE DEF rush, those
    <3> QED
      BY <2>2, SubsetCounts, FS_Subset
  <2>4. ASSUME rush # {}
        PROVE  "instant" \in DOMAIN byCarrier /\ byCarrier["instant"] = Cardinality(those)
    <3>1. "instant" \in {KeyCarrier[o] : o \in carried}
      BY <2>1, <2>4
    <3> HIDE DEF carried, byCarrier
    <3> QED
      BY <1>4, <3>1 DEF Count
  <2> HIDE DEF rush, those, byCarrier
  <2>5. rush # {} => "instant" \in DOMAIN byCarrier /\ Cardinality(rush) <= byCarrier["instant"]
    BY <2>3, <2>4
  <2> QED
    BY <2>5 DEF rush
<1>10. /\ Rekap(d).qty <= Infographic.current.qty
       /\ Cardinality(Rekap(d).rows) < SkuCap => Rekap(d).qty = Infographic.current.qty
  BY <1>3, <1>4
<1>11. Infographic.current.orders = Rekap(d).orders /\ Infographic.current.gmv = Rekap(d).gmv
  BY <1>3, <1>4
<1> QED
  BY <1>5, <1>7, <1>8, <1>9, <1>10, <1>11 DEF TodayAgrees

-----------------------------------------------------------------------------
(* The pick list.                                                          *)

LEMMA NothingOfNothing ==
    ASSUME NEW L, LinesGood(L), \A x \in L : x.line.qty = 0
    PROVE  Qty(L) = 0
<1> DEFINE q == Qtys(L)
           F == {A \in SUBSET L : Total(q, A) = 0}
<1>1. Ints(q, L) /\ IsFiniteSet(L) /\ L \in SUBSET L /\ \A x \in L : q[x] = 0
  BY LineSums DEF LinesGood, Qtys
<1> HIDE DEF q
<1>2. {} \in F
  BY <1>1, TotalStep
<1>3. ASSUME NEW A \in SUBSET L, A # {}, \A x \in A : A \ {x} \in F
      PROVE  A \in F
  <2>1. PICK x \in A : TRUE
    BY <1>3
  <2>2. Total(q, A) = q[x] + Total(q, A \ {x})
    BY <1>1, TotalStep
  <2>3. q[x] = 0 /\ Total(q, A \ {x}) = 0
    BY <1>1, <1>3
  <2>4. Total(q, A) = 0
    BY <2>2, <2>3
  <2> QED
    BY <2>4
<1> HIDE DEF F
<1>4. SUBSET L \subseteq F
  BY <1>1, <1>2, <1>3, InductSets
<1>5. Total(q, L) = 0
  BY <1>1, <1>4 DEF F
<1>6. Qty(L) = Total(q, L)
  BY <1>1, LineSums DEF q
<1> QED
  BY <1>5, <1>6

(* The packages of some lines, as in PickList.                             *)
Packages(P) == [c \in {Code[x.order] : x \in P} |-> Qty({x \in P : Code[x.order] = c})]

LEMMA PackagesAddUp ==
    ASSUME NEW P, LinesGood(P)
    PROVE  SumOf(Packages(P)) = Qty(P)
<1> DEFINE key == [x \in P |-> Code[x.order]]
           g == [c \in {key[x] : x \in P} |-> Qty({x \in P : key[x] = c})]
<1>1. Packages(P) = g
  <2>1. {Code[x.order] : x \in P} = {key[x] : x \in P}
    OBVIOUS
  <2>2. \A c : {x \in P : Code[x.order] = c} = {x \in P : key[x] = c}
    OBVIOUS
  <2> QED
    BY <2>1, <2>2 DEF Packages
<1>2. SumOf(g) = Qty(P)
  <2> HIDE DEF key
  <2> QED
    BY QtyAddsUp
<1> QED
  BY <1>1, <1>2, Zenon

LEMMA PackagesInside ==
    ASSUME NEW P, LinesGood(P), NEW A \in SUBSET P
    PROVE  \A c \in DOMAIN Packages(A) : Packages(A)[c] <= Packages(P)[c]
<1> SUFFICES ASSUME NEW c \in DOMAIN Packages(A)
             PROVE  Packages(A)[c] <= Packages(P)[c]
  OBVIOUS
<1> DEFINE B == {x \in A : Code[x.order] = c}
           Q == {x \in P : Code[x.order] = c}
<1>1. c \in {Code[x.order] : x \in A} /\ c \in {Code[x.order] : x \in P}
  BY DEF Packages
<1>2. Packages(A)[c] = Qty(B) /\ Packages(P)[c] = Qty(Q)
  BY <1>1 DEF Packages
<1>3. B \in SUBSET Q /\ Q \in SUBSET P
  OBVIOUS
<1> HIDE DEF B, Q
<1>4. LinesGood(Q)
  BY <1>3, LinesGoodInside
<1>5. Qty(B) <= Qty(Q)
  BY <1>3, <1>4, LineSums
<1> QED
  BY <1>2, <1>5

LEMMA PickListAdds ==
    ASSUME Sound
    PROVE  PickListAddsUp
<1> DEFINE A == OfDay(Day(now)) \ Canceled
           L == LinesOf(A)
           M == {x \in L : x.line.qty > 0}
           Of(s) == {x \in M : x.line.sku = s}
           Rush(s) == {x \in Of(s) : Urgent(x.order)}
           list == PickList(A)
           skus == {x.line.sku : x \in M}
<1>1. Between(DayStart(now), now + 1) \ Canceled = A
  BY SoFar
<1>2. Infographic.current.qty = Qty(L)
  <2>1. Infographic.current = WindowStats(DayStart(now), now + 1)
    BY DEF Infographic
  <2> QED
    BY <1>1, <2>1 DEF WindowStats
<1>3. DOMAIN list = skus /\ \A s \in skus :
         /\ list[s].qty = Qty(Of(s)) /\ list[s].packs = Packages(Of(s))
         /\ list[s].instant = Packages(Rush(s))
  BY DEF PickList, Packages
<1>4. LinesGood(L) /\ M \in SUBSET L /\ L \ M \in SUBSET L
  <2>1. A \in SUBSET Orders
    BY DEF OfDay, Between, Stored
  <2>2. LinesGood(L)
    <3> HIDE DEF A
    <3> QED
      BY <2>1, LinesAreGood
  <2> QED
    BY <2>2
<1>5. LinesGood(M) /\ LinesGood(L \ M)
  <2> HIDE DEF L, M
  <2> QED
    BY <1>4, LinesGoodInside
<1>6. \A s \in skus : LinesGood(Of(s)) /\ Rush(s) \in SUBSET Of(s)
  <2>1. \A s \in skus : Of(s) \in SUBSET M /\ Rush(s) \in SUBSET Of(s)
    OBVIOUS
  <2> HIDE DEF M, Of, skus, Rush
  <2> QED
    BY <1>5, <2>1, LinesGoodInside
<1>7. Qty(L) = Qty(M)
  <2>1. \A x \in L \ M : x.line.qty = 0
    BY <1>4 DEF LinesGood
  <2> HIDE DEF L, M
  <2>2. Qty(L \ M) = 0
    BY <1>5, <2>1, NothingOfNothing
  <2>3. Qty(L) = Qty(M) + Qty(L \ M) /\ Qty(M) \in Nat
    BY <1>4, LineSums
  <2> QED
    BY <2>2, <2>3
<1>8. SumOf([s \in DOMAIN list |-> list[s].qty]) = Qty(M)
  <2> DEFINE key == [x \in M |-> x.line.sku]
             f == [s \in DOMAIN list |-> list[s].qty]
             g == [s \in {key[x] : x \in M} |-> Qty({x \in M : key[x] = s})]
  <2>1. skus = {key[x] : x \in M} /\ \A s : Of(s) = {x \in M : key[x] = s}
    OBVIOUS
  <2>2. f = g
    <3> HIDE DEF M, list, key
    <3>1. \A s \in skus : list[s].qty = Qty({x \in M : key[x] = s})
      <4> HIDE DEF Of
      <4> QED
        BY <1>3, <2>1
    <3> HIDE DEF skus
    <3> QED
      BY <1>3, <2>1, <3>1
  <2>3. SumOf(g) = Qty(M)
    <3> HIDE DEF M, key
    <3> QED
      BY <1>5, QtyAddsUp
  <2> QED
    BY <2>2, <2>3, Zenon
<1> HIDE DEF A, L, M, Of, Rush, list, skus
<1>9. ASSUME NEW s \in DOMAIN list
      PROVE  /\ SumOf(list[s].packs) = list[s].qty
             /\ \A c \in DOMAIN list[s].instant : list[s].instant[c] <= list[s].packs[c]
  BY <1>3, <1>6, <1>9, PackagesAddUp, PackagesInside
<1>10. PickList(Between(DayStart(now), now + 1) \ Canceled) = list
  BY <1>1 DEF list
<1> QED
  BY <1>2, <1>7, <1>8, <1>9, <1>10 DEF PickListAddsUp

-----------------------------------------------------------------------------
(* The theorem.                                                            *)

\* Every stored order is of exactly one day, and the reports agree about it:
\* the dashboard, the rekap, the cards, the cancel report and the pick list.
THEOREM ReportsAlwaysAgree == Spec => []ReportsAgree
<1>1. Init => DatesStand /\ TimesPast
  BY DEF Init, DatesStand, RowsDated, OpenDated, TimesPast, Stored, Absent
<1>2. IInv /\ DatesStand /\ TimesPast /\ [Next]_vars => DatesStand' /\ TimesPast'
  BY DatedKept, TimesKept DEF IInv
<1>3. IInv /\ DatesStand /\ TimesPast => ReportsAgree
  <2> SUFFICES ASSUME Sound PROVE ReportsAgree
    BY DEF IInv, Sound
  <2>1. \A n \in 1 .. 2 : BarsAreDays(n) /\ BreakdownsAddUp(n)
    BY BarsDays, BreakdownsAdd
  <2>2. EachOrderOnce
    BY EachOfOneDay, RekapAndCancels DEF EachOrderOnce
  <2> QED
    BY <2>1, <2>2, TodayAgree, PickListAdds DEF ReportsAgree
<1> QED
  BY <1>1, <1>2, <1>3, InvariantHolds, PTL DEF Spec

\* Not only of one or two days: however many days the analytics look back, the
\* bars are the days of the rekap and the breakdowns add up.
THEOREM EveryWindowAddsUp ==
    Spec => [](\A n \in Nat : BarsAreDays(n) /\ BreakdownsAddUp(n))
<1>1. Init => DatesStand /\ TimesPast
  BY DEF Init, DatesStand, RowsDated, OpenDated, TimesPast, Stored, Absent
<1>2. IInv /\ DatesStand /\ TimesPast /\ [Next]_vars => DatesStand' /\ TimesPast'
  BY DatedKept, TimesKept DEF IInv
<1>3. IInv /\ DatesStand /\ TimesPast
        => \A n \in Nat : BarsAreDays(n) /\ BreakdownsAddUp(n)
  BY BarsDays, BreakdownsAdd DEF IInv, Sound
<1> QED
  BY <1>1, <1>2, <1>3, InvariantHolds, PTL DEF Spec
=============================================================================
