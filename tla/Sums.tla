-------------------------------- MODULE Sums ---------------------------------
(***************************************************************************)
(* Induction over the natural numbers in a form that needs no operator as  *)
(* a parameter, and what the community operators SumFunctionOnSet and      *)
(* SumFunction compute: the facts that the proofs about memory need.       *)
(*                                                                         *)
(* A property is proved for all numbers by showing that the set of numbers *)
(* that have it contains 0 and is closed under successor.                  *)
(***************************************************************************)
EXTENDS Integers, Sequences, FiniteSets, SequencesExt, FiniteSetTheorems,
        SequenceTheorems, TLAPS

\* Every set of natural numbers has a least element.
LEMMA LeastNatural ==
    ASSUME NEW T, T \subseteq Nat, T # {}
    PROVE  \E m \in T : \A n \in T : m <= n
<1> DEFINE R == OpToRel(<, Nat)
<1>1. R = {ss \in Nat \X Nat : ss[1] < ss[2]}
  BY Zenon DEF OpToRel
<1>2. IsWellFoundedOn(R, Nat)
  BY NatLessThanWellFounded, Zenon
<1> HIDE DEF R
<1>3. PICK m \in T : \A n \in T : ~ (<<n, m>> \in R)
  BY <1>2, WFMin
<1>4. ASSUME NEW n \in T, ~(m <= n) PROVE FALSE
  <2>1. <<n, m>> \in R
    BY <1>1, <1>4
  <2> QED BY <1>3, <2>1
<1> QED BY <1>4

\* Induction: a set that holds 0 and every successor holds all of Nat.
LEMMA InductionOnNat ==
    ASSUME NEW P, 0 \in P, \A n \in Nat : n \in P => n + 1 \in P
    PROVE  Nat \subseteq P
<1> DEFINE T == Nat \ P
<1> SUFFICES ASSUME T # {} PROVE FALSE
  OBVIOUS
<1>1. PICK m \in T : \A n \in T : m <= n
  <2> HIDE DEF T
  <2>1. T \subseteq Nat BY DEF T
  <2> QED BY <2>1, LeastNatural
<1>2. m # 0 /\ m \in Nat
  OBVIOUS
<1>3. m - 1 \in Nat /\ m - 1 \notin T
  BY <1>1, <1>2
<1>4. (m - 1) + 1 \in P
  BY <1>3
<1> QED BY <1>2, <1>4

\* The element that the fold takes next, and one step of the fold.
Pick(s) == CHOOSE x \in s : TRUE
SumStep(f, g, s) == IF s = {} THEN 0 ELSE f[Pick(s)] + g[s \ {Pick(s)}]

\* g is the recursive function that the sum of f over S is defined by.
IsSums(f, S, g) == g = [s \in SUBSET S |-> SumStep(f, g, s)]

\* What Pick chooses from a set that is not empty is one of its elements.
LEMMA PickInSet == ASSUME NEW s, s # {} PROVE Pick(s) \in s
BY DEF Pick

\* A set of n + 1 elements has n without its Pick.
LEMMA PickRemoved ==
    ASSUME NEW s, IsFiniteSet(s), NEW n \in Nat, Cardinality(s) = n + 1
    PROVE  /\ s # {} /\ Pick(s) \in s
           /\ IsFiniteSet(s \ {Pick(s)})
           /\ Cardinality(s \ {Pick(s)}) = n
<1>1. s # {}
  BY FS_EmptySet
<1>2. Pick(s) \in s
  BY <1>1, PickInSet
<1>3. /\ IsFiniteSet(s \ {Pick(s)})
      /\ Cardinality(s \ {Pick(s)}) = Cardinality(s) - 1
  BY <1>2, FS_RemoveElement
<1> QED BY <1>1, <1>2, <1>3

\* The recursive function exists: its approximations up to a cardinality do.
LEMMA SumsExists ==
    ASSUME NEW f, NEW S, IsFiniteSet(S)
    PROVE  \E g : IsSums(f, S, g)
<1> DEFINE Upto(n, g) == \A s \in SUBSET S : Cardinality(s) <= n => g[s] = SumStep(f, g, s)
           P == {n \in Nat : \E g : Upto(n, g)}
<1>0. \A s \in SUBSET S : IsFiniteSet(s) /\ Cardinality(s) \in Nat
  BY FS_Subset, FS_CardinalityType
<1>1. 0 \in P
  <2> DEFINE g == [s \in SUBSET S |-> 0]
  <2>1. ASSUME NEW s \in SUBSET S, Cardinality(s) <= 0
        PROVE  g[s] = SumStep(f, g, s)
    <3>1. s = {}
      BY <1>0, <2>1, FS_EmptySet
    <3> QED BY <3>1 DEF SumStep
  <2>2. Upto(0, g)
    BY <2>1
  <2> QED BY <2>2
<1>2. ASSUME NEW n \in Nat, n \in P PROVE n + 1 \in P
  <2>1. PICK g : Upto(n, g)
    BY <1>2
  <2> DEFINE h == [s \in SUBSET S |-> SumStep(f, g, s)]
  <2>2. ASSUME NEW s \in SUBSET S, Cardinality(s) <= n + 1
        PROVE  h[s] = SumStep(f, h, s)
    <3>1. CASE s = {}
      BY <3>1 DEF SumStep
    <3>2. CASE s # {}
      <4> DEFINE r == s \ {Pick(s)}
      <4>1. r \in SUBSET S /\ Cardinality(r) <= n
        <5>1. Pick(s) \in s /\ Cardinality(r) = Cardinality(s) - 1
          BY <3>2, <1>0, PickInSet, FS_RemoveElement
        <5> QED BY <5>1, <2>2, <1>0
      <4>2. h[r] = g[r]
        BY <4>1, <2>1
      <4>3. h[s] = f[Pick(s)] + g[r]
        BY <3>2 DEF SumStep
      <4> QED BY <4>2, <4>3, <3>2 DEF SumStep
    <3> QED BY <3>1, <3>2
  <2>3. Upto(n + 1, h)
    BY <2>2
  <2>4. \E k : Upto(n + 1, k)
    <3> HIDE DEF Upto, h
    <3> QED BY <2>3
  <2>5. n + 1 \in Nat
    OBVIOUS
  <2> QED BY <2>4, <2>5, Zenon
<1>3. Nat \subseteq P
  <2> HIDE DEF P
  <2> QED BY <1>1, <1>2, InductionOnNat
<1>4. PICK g : Upto(Cardinality(S), g)
  BY <1>0, <1>3
<1> DEFINE h == [s \in SUBSET S |-> SumStep(f, g, s)]
<1>5. ASSUME NEW s \in SUBSET S PROVE h[s] = g[s]
  <2>1. Cardinality(s) <= Cardinality(S)
    BY FS_Subset
  <2> QED BY <1>4, <2>1
<1>6. ASSUME NEW s \in SUBSET S PROVE SumStep(f, g, s) = SumStep(f, h, s)
  <2>1. CASE s = {}
    BY <2>1 DEF SumStep
  <2>2. CASE s # {}
    <3>1. s \ {Pick(s)} \in SUBSET S
      OBVIOUS
    <3>2. h[s \ {Pick(s)}] = g[s \ {Pick(s)}]
      BY <1>5, <3>1
    <3> QED BY <2>2, <3>2 DEF SumStep
  <2> QED BY <2>1, <2>2
<1>7. h = [s \in SUBSET S |-> SumStep(f, h, s)]
  BY <1>6
<1> HIDE DEF h
<1> QED BY <1>7 DEF IsSums

\* Two such functions agree wherever both are defined, also if they sum
\* different functions that agree there.
LEMMA SumsUnique ==
    ASSUME NEW f1, NEW f2, NEW S1, NEW S2, NEW g1, NEW g2,
           IsSums(f1, S1, g1), IsSums(f2, S2, g2),
           NEW s, s \subseteq S1, s \subseteq S2, IsFiniteSet(s),
           \A x \in s : f1[x] = f2[x]
    PROVE  g1[s] = g2[s]
<1> DEFINE P == {n \in Nat : \A r \in SUBSET s : Cardinality(r) = n => g1[r] = g2[r]}
<1>0. \A r \in SUBSET s : /\ IsFiniteSet(r) /\ Cardinality(r) \in Nat
                          /\ g1[r] = SumStep(f1, g1, r)
                          /\ g2[r] = SumStep(f2, g2, r)
  BY FS_Subset, FS_CardinalityType DEF IsSums
<1>1. 0 \in P
  <2>1. ASSUME NEW r \in SUBSET s, Cardinality(r) = 0 PROVE g1[r] = g2[r]
    <3>1. r = {}
      BY <1>0, <2>1, FS_EmptySet
    <3> QED BY <1>0, <3>1 DEF SumStep
  <2> QED BY <2>1
<1>2. ASSUME NEW n \in Nat, n \in P PROVE n + 1 \in P
  <2>1. ASSUME NEW r \in SUBSET s, Cardinality(r) = n + 1 PROVE g1[r] = g2[r]
    <3> DEFINE q == r \ {Pick(r)}
    <3>1. r # {} /\ Pick(r) \in r /\ Cardinality(q) = n
      BY <2>1, <1>0, PickRemoved
    <3>2. q \in SUBSET s /\ Pick(r) \in s
      BY <3>1
    <3>3. g1[q] = g2[q] /\ f1[Pick(r)] = f2[Pick(r)]
      BY <3>1, <3>2, <1>2
    <3> QED BY <3>1, <3>3, <1>0 DEF SumStep
  <2> QED BY <2>1
<1>3. Nat \subseteq P
  <2> HIDE DEF P
  <2> QED BY <1>1, <1>2, InductionOnNat
<1> QED BY <1>0, <1>3

\* The community operator is that function at S.
LEMMA SumIsSums ==
    ASSUME NEW f, NEW S, NEW g, IsSums(f, S, g)
    PROVE  \E h : IsSums(f, S, h) /\ SumFunctionOnSet(f, S) = h[S]
BY Zenon DEF SumFunctionOnSet, FoldFunctionOnSet, MapThenFoldSet, IsSums, SumStep, Pick

\* Nothing adds up to zero.
LEMMA SumEmpty == ASSUME NEW f PROVE SumFunctionOnSet(f, {}) = 0
<1>1. IsFiniteSet({})
  BY FS_EmptySet
<1>2. PICK g : IsSums(f, {}, g)
  BY <1>1, SumsExists
<1>3. PICK h : IsSums(f, {}, h) /\ SumFunctionOnSet(f, {}) = h[{}]
  BY <1>2, SumIsSums
<1>4. h[{}] = SumStep(f, h, {})
  BY <1>3 DEF IsSums
<1> QED BY <1>3, <1>4 DEF SumStep

\* Functions that agree on a set have the same sum over it.
LEMMA SumCongruent ==
    ASSUME NEW f1, NEW f2, NEW S, IsFiniteSet(S), \A x \in S : f1[x] = f2[x]
    PROVE  SumFunctionOnSet(f1, S) = SumFunctionOnSet(f2, S)
<1>1. PICK h1 : IsSums(f1, S, h1) /\ SumFunctionOnSet(f1, S) = h1[S]
  BY SumsExists, SumIsSums
<1>2. PICK h2 : IsSums(f2, S, h2) /\ SumFunctionOnSet(f2, S) = h2[S]
  BY SumsExists, SumIsSums
<1>3. h1[S] = h2[S]
  BY <1>1, <1>2, SumsUnique
<1> QED BY <1>1, <1>2, <1>3

\* The element that the fold picks first can be split off.
LEMMA SumPick ==
    ASSUME NEW f, NEW S, IsFiniteSet(S), S # {}
    PROVE  SumFunctionOnSet(f, S) = f[Pick(S)] + SumFunctionOnSet(f, S \ {Pick(S)})
<1> DEFINE R == S \ {Pick(S)}
<1>0. IsFiniteSet(R)
  BY FS_RemoveElement
<1>1. PICK h : IsSums(f, S, h) /\ SumFunctionOnSet(f, S) = h[S]
  BY SumsExists, SumIsSums
<1>2. PICK k : IsSums(f, R, k) /\ SumFunctionOnSet(f, R) = k[R]
  BY <1>0, SumsExists, SumIsSums
<1>3. h[R] = k[R]
  BY <1>0, <1>1, <1>2, SumsUnique
<1>4. h[S] = f[Pick(S)] + h[R]
  BY <1>1 DEF IsSums, SumStep
<1> QED BY <1>1, <1>2, <1>3, <1>4

\* A sum of integers is an integer, of natural numbers a natural number.
LEMMA SumType ==
    ASSUME NEW f, NEW S, IsFiniteSet(S), NEW T \in {Int, Nat}, \A x \in S : f[x] \in T
    PROVE  SumFunctionOnSet(f, S) \in T
<1> DEFINE P == {n \in Nat : \A s \in SUBSET S :
                    Cardinality(s) = n => SumFunctionOnSet(f, s) \in T}
<1>0. \A s \in SUBSET S : IsFiniteSet(s) /\ Cardinality(s) \in Nat
  BY FS_Subset, FS_CardinalityType
<1>1. 0 \in P
  <2>1. ASSUME NEW s \in SUBSET S, Cardinality(s) = 0 PROVE SumFunctionOnSet(f, s) \in T
    <3>1. s = {}
      BY <1>0, <2>1, FS_EmptySet
    <3> QED BY <3>1, SumEmpty
  <2> QED BY <2>1
<1>2. ASSUME NEW n \in Nat, n \in P PROVE n + 1 \in P
  <2>1. ASSUME NEW s \in SUBSET S, Cardinality(s) = n + 1
        PROVE  SumFunctionOnSet(f, s) \in T
    <3> DEFINE p == Pick(s)
               r == s \ {p}
    <3>1. s # {} /\ IsFiniteSet(s) /\ p \in s /\ Cardinality(r) = n
      BY <1>0, <2>1, PickRemoved
    <3>2. /\ p \in S /\ r \in SUBSET S /\ Cardinality(r) = n
          /\ SumFunctionOnSet(f, s) = f[p] + SumFunctionOnSet(f, r)
      BY <3>1, SumPick
    <3>3. SumFunctionOnSet(f, r) \in T /\ f[p] \in T
      BY <1>2, <3>2
    <3> QED BY <3>2, <3>3
  <2> QED BY <2>1
<1>3. Nat \subseteq P
  <2> HIDE DEF P
  <2> QED BY <1>1, <1>2, InductionOnNat
<1> QED BY <1>0, <1>3

\* Any element may be split off a sum.
LEMMA SumSplit ==
    ASSUME NEW f, NEW S, IsFiniteSet(S), \A x \in S : f[x] \in Int, NEW x \in S
    PROVE  SumFunctionOnSet(f, S) = f[x] + SumFunctionOnSet(f, S \ {x})
<1> DEFINE Good(s) ==
               \A y \in s : SumFunctionOnSet(f, s) = f[y] + SumFunctionOnSet(f, s \ {y})
           P == {n \in Nat : \A s \in SUBSET S : Cardinality(s) = n => Good(s)}
<1>0. \A s \in SUBSET S : /\ IsFiniteSet(s) /\ Cardinality(s) \in Nat
                          /\ SumFunctionOnSet(f, s) \in Int
  BY FS_Subset, FS_CardinalityType, SumType
<1>1. 0 \in P
  <2>1. ASSUME NEW s \in SUBSET S, Cardinality(s) = 0 PROVE Good(s)
    BY <1>0, <2>1, FS_EmptySet
  <2> QED BY <2>1
<1>2. ASSUME NEW n \in Nat, n \in P PROVE n + 1 \in P
  <2>0. \A s \in SUBSET S : Cardinality(s) = n => Good(s)
    BY <1>2
  <2>1. ASSUME NEW s \in SUBSET S, Cardinality(s) = n + 1 PROVE Good(s)
    <3> DEFINE p == Pick(s)
               r == s \ {p}
    <3>1. s # {} /\ IsFiniteSet(s) /\ p \in s /\ Cardinality(r) = n
      BY <1>0, <2>1, PickRemoved
    <3>2. /\ p \in s /\ r \in SUBSET S /\ Cardinality(r) = n
          /\ SumFunctionOnSet(f, s) = f[p] + SumFunctionOnSet(f, r)
      BY <3>1, SumPick
    <3>3. Good(r) /\ f[p] \in Int
      BY <2>0, <3>2
    <3> HIDE DEF p
    <3>4. ASSUME NEW y \in s
          PROVE  SumFunctionOnSet(f, s) = f[y] + SumFunctionOnSet(f, s \ {y})
      <4>1. CASE y = p
        BY <4>1, <3>2
      <4>2. CASE y # p
        <5> DEFINE q == s \ {y}
                   u == (s \ {y}) \ {p}
        <5>1. r \ {y} = u
          OBVIOUS
        <5>2. q \in SUBSET S /\ Cardinality(q) = n /\ p \in q
          BY <4>2, <3>1, <3>2, <2>1, FS_RemoveElement
        <5>3. Good(q)
          BY <5>2, <2>0
        <5>4. SumFunctionOnSet(f, r) = f[y] + SumFunctionOnSet(f, u)
          BY <3>3, <4>2, <5>1
        <5>5. SumFunctionOnSet(f, q) = f[p] + SumFunctionOnSet(f, u)
          BY <5>2, <5>3
        <5>6. SumFunctionOnSet(f, u) \in Int /\ f[y] \in Int
          BY <1>0
        <5> QED BY <3>2, <3>3, <5>4, <5>5, <5>6
      <4> QED BY <4>1, <4>2
    <3> QED BY <3>4
  <2> QED BY <2>1
<1>3. Nat \subseteq P
  <2> HIDE DEF P
  <2> QED BY <1>1, <1>2, InductionOnNat
<1>4. Good(S)
  BY <1>0, <1>3
<1> QED BY <1>4

\* The sum over two sets that have nothing in common.
LEMMA SumUnion ==
    ASSUME NEW f, NEW A, NEW B, IsFiniteSet(A), IsFiniteSet(B), A \cap B = {},
           \A x \in A \cup B : f[x] \in Int
    PROVE  /\ SumFunctionOnSet(f, A \cup B) = SumFunctionOnSet(f, A) + SumFunctionOnSet(f, B)
           /\ SumFunctionOnSet(f, A) \in Int /\ SumFunctionOnSet(f, B) \in Int
<1> DEFINE Sum(s) == SumFunctionOnSet(f, s)
           P == {n \in Nat : \A s \in SUBSET B :
                    Cardinality(s) = n => Sum(A \cup s) = Sum(A) + Sum(s)}
<1>0. \A s \in SUBSET B :
         /\ IsFiniteSet(s) /\ Cardinality(s) \in Nat /\ IsFiniteSet(A \cup s)
         /\ Sum(s) \in Int /\ Sum(A \cup s) \in Int
  <2> TAKE s \in SUBSET B
  <2>1. IsFiniteSet(s) /\ Cardinality(s) \in Nat
    BY FS_Subset, FS_CardinalityType
  <2>2. IsFiniteSet(A \cup s)
    BY <2>1, FS_Union
  <2> QED BY <2>1, <2>2, SumType
<1>00. Sum(A) \in Int
  BY SumType
<1>1. 0 \in P
  <2>1. ASSUME NEW s \in SUBSET B, Cardinality(s) = 0
        PROVE  Sum(A \cup s) = Sum(A) + Sum(s)
    <3>1. s = {}
      BY <1>0, <2>1, FS_EmptySet
    <3>2. A \cup s = A /\ Sum(s) = 0
      BY <3>1, SumEmpty
    <3> QED BY <3>2, <1>00
  <2> QED BY <2>1
<1>2. ASSUME NEW n \in Nat, n \in P PROVE n + 1 \in P
  <2>1. ASSUME NEW s \in SUBSET B, Cardinality(s) = n + 1
        PROVE  Sum(A \cup s) = Sum(A) + Sum(s)
    <3> DEFINE p == Pick(s)
               r == s \ {p}
    <3>1. s # {} /\ IsFiniteSet(s) /\ p \in s /\ Cardinality(r) = n
      BY <1>0, <2>1, PickRemoved
    <3>2. /\ p \in s /\ r \in SUBSET B /\ Cardinality(r) = n
      BY <3>1
    <3>3. f[p] \in Int /\ (A \cup s) \ {p} = A \cup r
      BY <3>2
    <3> HIDE DEF p
    <3>4. Sum(s) = f[p] + Sum(r)
      BY <3>1, <3>2, SumSplit
    <3>5. Sum(A \cup s) = f[p] + Sum(A \cup r)
      <4>1. p \in A \cup s /\ \A x \in A \cup s : f[x] \in Int
        BY <3>2
      <4>2. IsFiniteSet(A \cup s)
        BY <1>0
      <4>3. Sum(A \cup s) = f[p] + Sum((A \cup s) \ {p})
        BY <4>1, <4>2, SumSplit
      <4> QED BY <3>3, <4>3
    <3>6. Sum(A \cup r) = Sum(A) + Sum(r)
      BY <1>2, <3>2
    <3> QED BY <3>2, <3>3, <3>4, <3>5, <3>6, <1>0, <1>00
  <2> QED BY <2>1
<1>3. Nat \subseteq P
  <2> HIDE DEF P
  <2> QED BY <1>1, <1>2, InductionOnNat
<1>4. Sum(A \cup B) = Sum(A) + Sum(B)
  BY <1>0, <1>3
<1> QED BY <1>4, <1>0, <1>00

\* A sum does not change when its indices are renamed one to one.
LEMMA SumRenamed ==
    ASSUME NEW S, NEW T, IsFiniteSet(S), NEW b \in [S -> T],
           \A x, y \in S : b[x] = b[y] => x = y,
           \A t \in T : \E x \in S : b[x] = t,
           NEW f, NEW g,
           \A x \in S : f[x] \in Int /\ f[x] = g[b[x]]
    PROVE  SumFunctionOnSet(f, S) = SumFunctionOnSet(g, T)
<1> DEFINE Image(s) == {b[x] : x \in s}
           P == {n \in Nat : \A s \in SUBSET S : Cardinality(s) = n =>
                    SumFunctionOnSet(f, s) = SumFunctionOnSet(g, Image(s))}
<1>0. \A s \in SUBSET S : IsFiniteSet(s) /\ Cardinality(s) \in Nat /\ IsFiniteSet(Image(s))
  <2> TAKE s \in SUBSET S
  <2>1. IsFiniteSet(s) /\ Cardinality(s) \in Nat
    BY FS_Subset, FS_CardinalityType
  <2>2. IsFiniteSet(Image(s))
    <3> DEFINE c == [x \in s |-> b[x]]
    <3>1. c \in Surjection(s, Image(s))
      BY DEF Surjection
    <3> QED BY <2>1, <3>1, FS_Surjection
  <2> QED BY <2>1, <2>2
<1>1. 0 \in P
  <2>1. ASSUME NEW s \in SUBSET S, Cardinality(s) = 0
        PROVE  SumFunctionOnSet(f, s) = SumFunctionOnSet(g, Image(s))
    <3>1. s = {}
      BY <1>0, <2>1, FS_EmptySet
    <3>2. Image(s) = {}
      BY <3>1
    <3> QED BY <3>1, <3>2, SumEmpty
  <2> QED BY <2>1
<1>2. ASSUME NEW n \in Nat, n \in P PROVE n + 1 \in P
  <2>1. ASSUME NEW s \in SUBSET S, Cardinality(s) = n + 1
        PROVE  SumFunctionOnSet(f, s) = SumFunctionOnSet(g, Image(s))
    <3> DEFINE p == Pick(s)
               r == s \ {p}
    <3>1. s # {} /\ IsFiniteSet(s) /\ p \in s /\ Cardinality(r) = n
      BY <1>0, <2>1, PickRemoved
    <3>2. p \in s /\ r \in SUBSET S /\ Cardinality(r) = n
      BY <3>1
    <3> HIDE DEF p
    <3>3. SumFunctionOnSet(f, s) = f[p] + SumFunctionOnSet(f, r)
      BY <3>1, <3>2, SumSplit
    <3>4. SumFunctionOnSet(g, Image(s)) = g[b[p]] + SumFunctionOnSet(g, Image(r))
      <4>1. Image(s) \ {b[p]} = Image(r)
        BY <3>2
      <4>2. b[p] \in Image(s) /\ \A y \in Image(s) : g[y] \in Int
        BY <3>2
      <4>3. IsFiniteSet(Image(s))
        BY <1>0
      <4>4. SumFunctionOnSet(g, Image(s)) = g[b[p]] + SumFunctionOnSet(g, Image(s) \ {b[p]})
        <5> HIDE DEF Image
        <5> QED BY <4>2, <4>3, SumSplit
      <4> QED BY <4>1, <4>4
    <3>5. SumFunctionOnSet(f, r) = SumFunctionOnSet(g, Image(r))
      BY <1>2, <3>2
    <3>6. f[p] = g[b[p]]
      BY <3>2
    <3> QED BY <3>3, <3>4, <3>5, <3>6
  <2> QED BY <2>1
<1>3. Nat \subseteq P
  <2> HIDE DEF P
  <2> QED BY <1>1, <1>2, InductionOnNat
<1>4. Image(S) = T
  OBVIOUS
<1> QED BY <1>0, <1>3, <1>4

\* For example when they are shifted.
LEMMA SumShifted ==
    ASSUME NEW m \in Nat, NEW n \in Nat, NEW f, NEW g,
           \A i \in m + 1 .. m + n : f[i] \in Int /\ f[i] = g[i - m]
    PROVE  SumFunctionOnSet(f, m + 1 .. m + n) = SumFunctionOnSet(g, 1 .. n)
<1> DEFINE B == m + 1 .. m + n
           C == 1 .. n
           b == [i \in B |-> i - m]
<1>1. b \in [B -> C] /\ \A i \in B : b[i] = i - m
  OBVIOUS
<1>2. \A x, y \in B : b[x] = b[y] => x = y
  BY <1>1
<1>3. \A j \in C : \E x \in B : b[x] = j
  <2> TAKE j \in C
  <2>1. j + m \in B /\ (j + m) - m = j
    OBVIOUS
  <2> QED BY <1>1, <2>1
<1>4. \A x \in B : f[x] \in Int /\ f[x] = g[b[x]]
  BY <1>1
<1>5. IsFiniteSet(B)
  <2>1. m + 1 \in Int /\ m + n \in Int
    OBVIOUS
  <2> QED BY <2>1, FS_Interval
<1>6. b \in [B -> C]
  BY <1>1
<1> HIDE DEF b, B, C
<1>7. SumFunctionOnSet(f, B) = SumFunctionOnSet(g, C)
  BY <1>2, <1>3, <1>4, <1>5, <1>6, SumRenamed
<1> QED BY <1>7 DEF B, C

\* The sum of c over the elements of a sequence.
SumOver(c, s) == SumFunction([i \in DOMAIN s |-> c[s[i]]])

\* It is an integer, or a natural number if c is natural.
LEMMA SumOverType ==
    ASSUME NEW S, NEW T \in {Int, Nat}, NEW c \in [S -> T], NEW s \in Seq(S)
    PROVE  SumOver(c, s) \in T
<1> DEFINE f == [i \in DOMAIN s |-> c[s[i]]]
<1>1. Len(s) \in Nat /\ DOMAIN s = 1 .. Len(s) /\ \A i \in 1 .. Len(s) : s[i] \in S
  BY LenProperties
<1>2. IsFiniteSet(DOMAIN s)
  BY <1>1, FS_Interval
<1>3. DOMAIN f = DOMAIN s /\ \A i \in DOMAIN s : f[i] \in T
  BY <1>1
<1> HIDE DEF f
<1>4. SumFunctionOnSet(f, DOMAIN s) \in T
  BY <1>2, <1>3, SumType
<1> QED BY <1>3, <1>4 DEF SumOver, SumFunction, f

\* The sum over one sequence after the other is the sum of the sums.
LEMMA SumOverConcat ==
    ASSUME NEW S, NEW c, NEW s, NEW t
    PROVE  c \in [S -> Int] /\ s \in Seq(S) /\ t \in Seq(S) =>
              SumOver(c, s \o t) = SumOver(c, s) + SumOver(c, t)
<1>0. SUFFICES ASSUME c \in [S -> Int] /\ s \in Seq(S) /\ t \in Seq(S)
               PROVE  SumOver(c, s \o t) = SumOver(c, s) + SumOver(c, t)
  OBVIOUS
<1> DEFINE m == Len(s)
           n == Len(t)
           A == 1 .. m
           B == m + 1 .. m + n
           fs == [i \in DOMAIN s |-> c[s[i]]]
           ft == [i \in DOMAIN t |-> c[t[i]]]
           f == [i \in DOMAIN (s \o t) |-> c[(s \o t)[i]]]
<1>1. /\ m \in Nat /\ DOMAIN s = 1 .. m /\ \A i \in 1 .. m : s[i] \in S
      /\ n \in Nat /\ DOMAIN t = 1 .. n /\ \A i \in 1 .. n : t[i] \in S
  BY <1>0, LenProperties
<1>2. /\ s \o t \in Seq(S) /\ Len(s \o t) = m + n
      /\ \A i \in 1 .. m + n : (s \o t)[i] = IF i <= m THEN s[i] ELSE t[i - m]
  BY <1>0, ConcatProperties
<1>3. DOMAIN (s \o t) = 1 .. m + n
  BY <1>2, LenProperties
<1>4. IsFiniteSet(A) /\ IsFiniteSet(B)
  <2>1. 1 \in Int /\ m \in Int /\ m + 1 \in Int /\ m + n \in Int
    BY <1>1
  <2> QED BY <2>1, FS_Interval
<1>5. A \cap B = {} /\ A \cup B = 1 .. m + n
  BY <1>1
<1>6. \A i \in A : f[i] = fs[i] /\ f[i] \in Int
  <2> TAKE i \in A
  <2>1. i \in 1 .. m + n /\ i <= m
    BY <1>1
  <2>2. (s \o t)[i] = s[i]
    BY <1>2, <2>1
  <2> QED BY <1>0, <1>1, <1>3, <2>1, <2>2
<1>7. \A i \in B : f[i] = ft[i - m] /\ f[i] \in Int
  <2> TAKE i \in B
  <2>1. i \in 1 .. m + n /\ ~(i <= m) /\ i - m \in 1 .. n
    BY <1>1
  <2>2. (s \o t)[i] = t[i - m]
    BY <1>2, <2>1
  <2> QED BY <1>0, <1>1, <1>3, <2>1, <2>2
<1>8. DOMAIN f = A \cup B /\ DOMAIN fs = A /\ DOMAIN ft = 1 .. n
  BY <1>1, <1>3, <1>5
<1>9. m \in Nat /\ n \in Nat
  BY <1>1
<1> HIDE DEF f, fs, ft, A, B, m, n
<1>10. SumFunctionOnSet(f, A \cup B) = SumFunctionOnSet(f, A) + SumFunctionOnSet(f, B)
  BY <1>4, <1>5, <1>6, <1>7, SumUnion
<1>11. SumFunctionOnSet(f, A) = SumFunctionOnSet(fs, A)
  BY <1>4, <1>6, SumCongruent
<1>12. SumFunctionOnSet(f, B) = SumFunctionOnSet(ft, 1 .. n)
  <2>1. \A i \in m + 1 .. m + n : f[i] \in Int /\ f[i] = ft[i - m]
    BY <1>7 DEF B
  <2>2. SumFunctionOnSet(f, m + 1 .. m + n) = SumFunctionOnSet(ft, 1 .. n)
    BY <1>9, <2>1, SumShifted
  <2> QED BY <2>2 DEF B
<1> QED BY <1>8, <1>10, <1>11, <1>12 DEF SumOver, SumFunction, f, fs, ft

\* The sum over one element.
LEMMA SumOverOne ==
    ASSUME NEW S, NEW c \in [S -> Int], NEW x \in S
    PROVE  SumOver(c, <<x>>) = c[x]
<1> DEFINE f == [i \in DOMAIN <<x>> |-> c[<<x>>[i]]]
<1>1. DOMAIN f = {1} /\ f[1] = c[x] /\ f[1] \in Int
  OBVIOUS
<1>2. IsFiniteSet({1}) /\ {1} \ {1} = {}
  BY FS_Singleton
<1> HIDE DEF f
<1>3. SumFunctionOnSet(f, {1}) = f[1] + SumFunctionOnSet(f, {1} \ {1})
  BY <1>1, <1>2, SumSplit
<1>4. SumFunctionOnSet(f, {1}) = c[x]
  BY <1>1, <1>2, <1>3, SumEmpty
<1> QED BY <1>1, <1>4 DEF SumOver, SumFunction, f

\* The same for a permutation of the set.
LEMMA SumPermuted ==
    ASSUME NEW A, IsFiniteSet(A), NEW b, b \in [A -> A],
           \A x, y \in A : b[x] = b[y] => x = y,
           \A t \in A : \E x \in A : b[x] = t,
           NEW f, NEW g,
           \A x \in A : f[x] \in Int /\ f[x] = g[b[x]]
    PROVE  SumFunctionOnSet(f, A) = SumFunctionOnSet(g, A)
BY SumRenamed

\* The sum does not depend on the direction.
LEMMA SumOverReverse ==
    ASSUME NEW S, NEW c \in [S -> Int], NEW s \in Seq(S)
    PROVE  Reverse(s) \in Seq(S) /\ SumOver(c, Reverse(s)) = SumOver(c, s)
<1> DEFINE n == Len(s)
           A == 1 .. n
           f == [i \in DOMAIN Reverse(s) |-> c[Reverse(s)[i]]]
           g == [i \in DOMAIN s |-> c[s[i]]]
           b == [i \in A |-> (n - i) + 1]
<1>1. n \in Nat /\ DOMAIN s = A /\ \A i \in A : s[i] \in S
  BY LenProperties
<1>2. Reverse(s) = [i \in A |-> s[(n - i) + 1]]
  BY DEF Reverse
<1>3. \A i \in A : (n - i) + 1 \in A
  BY <1>1
<1>4. Reverse(s) \in Seq(S)
  <2>1. Reverse(s) \in [1 .. n -> S]
    BY <1>1, <1>2, <1>3
  <2> QED BY <1>1, <2>1, SeqDef, SMTT(30)
<1>5. b \in [A -> A] /\ \A i \in A : b[i] = (n - i) + 1
  BY <1>3
<1>6. \A x, y \in A : b[x] = b[y] => x = y
  BY <1>1, <1>5
<1>7. \A t \in A : \E x \in A : b[x] = t
  <2> TAKE t \in A
  <2>1. (n - t) + 1 \in A /\ (n - ((n - t) + 1)) + 1 = t
    BY <1>1
  <2> QED BY <1>5, <2>1
<1>8. /\ \A x \in A : f[x] \in Int /\ f[x] = g[b[x]]
      /\ DOMAIN f = A /\ DOMAIN g = A
  BY <1>1, <1>2, <1>3, <1>5
<1>9. IsFiniteSet(A)
  BY <1>1, FS_Interval
<1> HIDE DEF n, A, f, g, b
<1>10. SumFunctionOnSet(f, A) = SumFunctionOnSet(g, A)
  <2>1. b \in [A -> A]
    BY <1>5
  <2>2. \A x \in A : f[x] \in Int /\ f[x] = g[b[x]]
    BY <1>8
  <2> QED BY <1>6, <1>7, <1>9, <2>1, <2>2, SumPermuted
<1> QED BY <1>4, <1>8, <1>10 DEF SumOver, SumFunction, f, g
=============================================================================
