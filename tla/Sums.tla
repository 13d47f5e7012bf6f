-------------------------------- MODULE Sums --------------------------------
(***************************************************************************)
(* Induction over finite sets, and what it shows of SumFunctionOnSet, the  *)
(* sum of a function's values over a finite set.  The induction is stated  *)
(* with a set of sets in the place of a predicate, and rests on the order  *)
(* of the naturals being well founded.  At the end, what the proofs need   *)
(* of integer division.                                                    *)
(***************************************************************************)
EXTENDS Integers, FiniteSets, Functions, FiniteSetTheorems, WellFoundedInduction, TLAPS

-----------------------------------------------------------------------------
(***************************************************************************)
(* Induction                                                               *)
(***************************************************************************)

\* Naturals have a least element among them.
LEMMA LeastNat ==
  ASSUME NEW T \in SUBSET Nat, T # {}
  PROVE  \E x \in T : \A y \in T : x <= y
<1> DEFINE R == OpToRel(<, Nat)
<1>1. IsWellFoundedOn(R, Nat)
  BY NatLessThanWellFounded
<1>2. PICK x \in T : \A y \in T : ~(<<y, x>> \in R)
  <2> HIDE DEF R
  <2> QED
    BY <1>1, WFMin
<1>3. \A y \in T : ~(y < x)
  BY <1>2 DEF OpToRel
<1> QED
  BY <1>3

\* What a set has from its proper subsets every finite set has.
LEMMA SubsetInduction ==
  ASSUME NEW S, IsFiniteSet(S), NEW T,
         \A Y \in SUBSET S : (\A X \in SUBSET Y : X # Y => X \in T) => Y \in T
  PROVE  S \in T
<1> DEFINE Failing == {Y \in SUBSET S : Y \notin T}
           Sizes == {Cardinality(Y) : Y \in Failing}
<1>1. ASSUME NEW Y \in SUBSET S
      PROVE  IsFiniteSet(Y) /\ Cardinality(Y) \in Nat
  BY FS_Subset, FS_CardinalityType
<1>2. SUFFICES ASSUME S \notin T
               PROVE  FALSE
  OBVIOUS
<1>3. Sizes \in SUBSET Nat /\ Sizes # {}
  BY <1>1, <1>2
<1>4. PICK n \in Sizes : \A m \in Sizes : n <= m
  <2> HIDE DEF Sizes
  <2> QED
    BY <1>3, LeastNat
<1>5. PICK Y \in Failing : Cardinality(Y) = n
  BY <1>4
<1>6. ASSUME NEW X \in SUBSET Y, X # Y
      PROVE  X \in T
  <2>1. Cardinality(X) <= Cardinality(Y) /\ Cardinality(X) # Cardinality(Y)
    BY <1>1, <1>6, FS_Subset
  <2>2. Cardinality(X) \in Nat /\ Cardinality(Y) \in Nat
    BY <1>1, <1>5
  <2>3. X \notin Failing
    BY <1>4, <1>5, <2>1, <2>2
  <2> QED
    BY <2>3
<1> QED
  BY <1>5, <1>6

\* What holds of 0 and passes on from each number below n holds up to n.
LEMMA UpToInduction ==
  ASSUME NEW n \in Nat, NEW T, 0 \in T, \A m \in 0..n : m # n /\ m \in T => m + 1 \in T
  PROVE  \A m \in 0..n : m \in T
<1> DEFINE Failing == {m \in 0..n : m \notin T}
<1>1. SUFFICES ASSUME Failing # {}
               PROVE  FALSE
  OBVIOUS
<1>2. Failing \in SUBSET Nat
  OBVIOUS
<1>3. PICK x \in Failing : \A y \in Failing : x <= y
  <2> HIDE DEF Failing
  <2> QED
    BY <1>1, <1>2, LeastNat
<1>4. x \in 1..n
  BY <1>3
<1>5. x - 1 \notin Failing /\ x - 1 \in 0..n /\ x - 1 # n
  BY <1>3, <1>4
<1>6. (x - 1) + 1 \in T
  BY <1>5
<1> QED
  BY <1>3, <1>4, <1>6

-----------------------------------------------------------------------------
(***************************************************************************)
(* The fold behind SumFunctionOnSet                                        *)
(***************************************************************************)

Pick(s) == CHOOSE x \in s : TRUE

\* g maps the subsets of S to their sums.
IsSum(g, f, S) ==
  g = [s \in SUBSET S |-> IF s = {} THEN 0 ELSE f[Pick(s)] + g[s \ {Pick(s)}]]

LEMMA SumIsFold ==
  ASSUME NEW f, NEW S
  PROVE  SumFunctionOnSet(f, S) = (CHOOSE g : IsSum(g, f, S))[S]
BY Zenon DEF SumFunctionOnSet, FoldFunctionOnSet, MapThenFoldSet, IsSum, Pick

LEMMA PickIn ==
  ASSUME NEW s, s # {}
  PROVE  Pick(s) \in s
BY DEF Pick

LEMMA SumUnique ==
  ASSUME NEW f, NEW A, NEW B, NEW g, NEW h, IsSum(g, f, A), IsSum(h, f, B),
         NEW S \in SUBSET A, S \in SUBSET B, IsFiniteSet(S)
  PROVE  g[S] = h[S]
<1> DEFINE T == {X \in SUBSET S : g[X] = h[X]}
<1>1. ASSUME NEW Y \in SUBSET S, \A X \in SUBSET Y : X # Y => X \in T
      PROVE  Y \in T
  <2>1. /\ g[Y] = IF Y = {} THEN 0 ELSE f[Pick(Y)] + g[Y \ {Pick(Y)}]
        /\ h[Y] = IF Y = {} THEN 0 ELSE f[Pick(Y)] + h[Y \ {Pick(Y)}]
    BY DEF IsSum
  <2>2. CASE Y = {}
    BY <2>1, <2>2
  <2>3. CASE Y # {}
    <3>1. Y \ {Pick(Y)} \in T
      BY <1>1, <2>3, PickIn
    <3> QED
      BY <2>1, <2>3, <3>1
  <2> QED
    BY <2>2, <2>3
<1>2. S \in T
  <2> HIDE DEF T
  <2> QED
    BY <1>1, SubsetInduction
<1> QED
  BY <1>2

LEMMA SumExists ==
  ASSUME NEW f, NEW S, IsFiniteSet(S)
  PROVE  \E g : IsSum(g, f, S)
<1> DEFINE T == {X \in SUBSET S : \E g : IsSum(g, f, X)}
           G(X) == CHOOSE g : IsSum(g, f, X)
<1>1. ASSUME NEW Y \in SUBSET S, \A X \in SUBSET Y : X # Y => X \in T
      PROVE  Y \in T
  <2> DEFINE last == IF Y = {} THEN 0 ELSE f[Pick(Y)] + G(Y \ {Pick(Y)})[Y \ {Pick(Y)}]
             h == [s \in SUBSET Y |-> IF s = Y THEN last ELSE G(s)[s]]
  <2>1. ASSUME NEW s \in SUBSET Y, s # Y
        PROVE  IsSum(G(s), f, s)
    BY <1>1, <2>1
  <2> HIDE DEF G
  <2>2. ASSUME NEW s \in SUBSET Y
        PROVE  h[s] = IF s = {} THEN 0 ELSE f[Pick(s)] + h[s \ {Pick(s)}]
    <3>1. CASE s = {}
      <4>1. CASE s = Y
        BY <3>1, <4>1
      <4>2. CASE s # Y
        BY <2>1, <3>1, <4>2 DEF IsSum
      <4> QED
        BY <4>1, <4>2
    <3>2. CASE s # {}
      <4> DEFINE r == s \ {Pick(s)}
      <4>1. Pick(s) \in s
        BY <3>2, PickIn
      <4>2. r \in SUBSET Y /\ r # Y /\ r \in SUBSET s
        BY <4>1
      <4>3. h[r] = G(r)[r]
        BY <4>2
      <4>4. CASE s = Y
        BY <3>2, <4>3, <4>4
      <4>5. CASE s # Y
        <5>1. h[s] = G(s)[s] /\ IsSum(G(s), f, s) /\ IsSum(G(r), f, r)
          BY <2>1, <4>2, <4>5
        <5>2. G(s)[s] = f[Pick(s)] + G(s)[r]
          BY <3>2, <5>1 DEF IsSum
        <5>3. G(s)[r] = G(r)[r]
          <6>1. IsFiniteSet(r)
            BY <4>2, FS_Subset
          <6> HIDE DEF r
          <6> QED
            BY <4>2, <5>1, <6>1, SumUnique
        <5> QED
          BY <3>2, <4>3, <5>1, <5>2, <5>3
      <4> QED
        BY <4>4, <4>5
    <3> QED
      BY <3>1, <3>2
  <2>3. IsSum(h, f, Y)
    <3>1. h = [s \in SUBSET Y |-> h[s]]
      BY Zenon
    <3> HIDE DEF h
    <3> QED
      BY <2>2, <3>1 DEF IsSum
  <2> QED
    BY <2>3
<1>2. S \in T
  <2> HIDE DEF T
  <2> QED
    BY <1>1, SubsetInduction
<1> QED
  BY <1>2

\* The sum of nothing, and the sum of something, which takes one element first.
LEMMA SumPick ==
  ASSUME NEW f, NEW S, IsFiniteSet(S)
  PROVE  SumFunctionOnSet(f, S) =
           IF S = {} THEN 0
           ELSE f[Pick(S)] + SumFunctionOnSet(f, S \ {Pick(S)})
<1> DEFINE G(X) == CHOOSE g : IsSum(g, f, X)
<1>1. ASSUME NEW X, IsFiniteSet(X)
      PROVE  IsSum(G(X), f, X) /\ SumFunctionOnSet(f, X) = G(X)[X]
  BY <1>1, SumExists, SumIsFold
<1> HIDE DEF G
<1>2. G(S)[S] = IF S = {} THEN 0 ELSE f[Pick(S)] + G(S)[S \ {Pick(S)}]
  BY <1>1 DEF IsSum
<1>3. CASE S = {}
  BY <1>1, <1>2, <1>3
<1>4. CASE S # {}
  <2> DEFINE r == S \ {Pick(S)}
  <2>1. IsFiniteSet(r) /\ r \in SUBSET S
    BY FS_RemoveElement
  <2>2. G(S)[r] = G(r)[r]
    <3> HIDE DEF r
    <3> QED
      BY <1>1, <2>1, SumUnique
  <2> QED
    BY <1>1, <1>2, <1>4, <2>1, <2>2
<1> QED
  BY <1>3, <1>4

-----------------------------------------------------------------------------
(***************************************************************************)
(* Sums of integers                                                        *)
(***************************************************************************)

LEMMA SumEmpty ==
  ASSUME NEW f
  PROVE  SumFunctionOnSet(f, {}) = 0
BY SumPick, FS_EmptySet

\* A sum is an integer, and any element can be the one taken first.
LEMMA SumRemove ==
  ASSUME NEW S, IsFiniteSet(S), NEW f, \A s \in S : f[s] \in Int
  PROVE  /\ SumFunctionOnSet(f, S) \in Int
         /\ \A x \in S : SumFunctionOnSet(f, S) = f[x] + SumFunctionOnSet(f, S \ {x})
<1> DEFINE Sum(X) == SumFunctionOnSet(f, X)
           T == {X \in SUBSET S : Sum(X) \in Int /\ \A x \in X : Sum(X) = f[x] + Sum(X \ {x})}
<1>1. ASSUME NEW Y \in SUBSET S, \A X \in SUBSET Y : X # Y => X \in T
      PROVE  Y \in T
  <2>1. CASE Y = {}
    BY <2>1, SumEmpty
  <2>2. CASE Y # {}
    <3> DEFINE c == Pick(Y)
    <3>1. c \in Y
      BY <2>2, PickIn
    <3>2. Sum(Y) = f[c] + Sum(Y \ {c})
      BY <2>2, SumPick, FS_Subset
    <3> HIDE DEF c, Sum
    <3>3. Sum(Y) \in Int
      BY <1>1, <3>1, <3>2
    <3>4. ASSUME NEW x \in Y, x # c
          PROVE  Sum(Y) = f[x] + Sum(Y \ {x})
      <4> DEFINE both == (Y \ {c}) \ {x}
      <4>1. both = (Y \ {x}) \ {c}
        OBVIOUS
      <4>2. Sum(Y \ {c}) = f[x] + Sum(both)
        BY <1>1, <3>1, <3>4
      <4>3. Sum(Y \ {x}) = f[c] + Sum(both)
        BY <1>1, <3>1, <3>4, <4>1
      <4>4. Sum(both) \in Int
        <5>1. both \in SUBSET Y /\ both # Y
          BY <3>1
        <5> HIDE DEF both
        <5> QED
          BY <1>1, <5>1
      <4>5. f[x] \in Int /\ f[c] \in Int
        BY <3>1
      <4> HIDE DEF both
      <4> QED
        BY <3>2, <4>2, <4>3, <4>4, <4>5
    <3> QED
      BY <3>2, <3>3, <3>4
  <2> QED
    BY <2>1, <2>2
<1>2. S \in T
  <2> HIDE DEF T
  <2> QED
    BY <1>1, SubsetInduction
<1> QED
  BY <1>2

\* Sums are linear.
LEMMA SumLinear ==
  ASSUME NEW S, IsFiniteSet(S), NEW f, NEW g, NEW h, NEW d \in Int,
         \A s \in S : f[s] \in Int /\ g[s] \in Int /\ h[s] = f[s] + d * g[s]
  PROVE  SumFunctionOnSet(h, S) = SumFunctionOnSet(f, S) + d * SumFunctionOnSet(g, S)
<1> DEFINE F(X) == SumFunctionOnSet(f, X)
           G(X) == SumFunctionOnSet(g, X)
           H(X) == SumFunctionOnSet(h, X)
           T == {X \in SUBSET S : H(X) = F(X) + d * G(X)}
<1>1. ASSUME NEW Y \in SUBSET S, \A X \in SUBSET Y : X # Y => X \in T
      PROVE  Y \in T
  <2>1. CASE Y = {}
    BY <2>1, SumEmpty
  <2>2. CASE Y # {}
    <3>1. PICK y \in Y : TRUE
      BY <2>2
    <3>2. IsFiniteSet(Y) /\ IsFiniteSet(Y \ {y})
      BY FS_Subset
    <3>3. /\ F(Y) = f[y] + F(Y \ {y}) /\ F(Y \ {y}) \in Int
          /\ G(Y) = g[y] + G(Y \ {y}) /\ G(Y \ {y}) \in Int
          /\ H(Y) = h[y] + H(Y \ {y})
      BY <3>2, SumRemove
    <3>4. f[y] \in Int /\ g[y] \in Int /\ h[y] = f[y] + d * g[y]
      OBVIOUS
    <3>5. Y \ {y} \in T
      BY <1>1
    <3> HIDE DEF F, G, H
    <3>6. H(Y \ {y}) = F(Y \ {y}) + d * G(Y \ {y})
      BY <3>5
    <3>7. d * (g[y] + G(Y \ {y})) = d * g[y] + d * G(Y \ {y})
      BY <3>3, <3>4
    <3>8. d * g[y] \in Int /\ d * G(Y \ {y}) \in Int
      BY <3>3, <3>4
    <3> QED
      BY <3>3, <3>4, <3>6, <3>7, <3>8
  <2> QED
    BY <2>1, <2>2
<1>2. S \in T
  <2> HIDE DEF T
  <2> QED
    BY <1>1, SubsetInduction
<1> QED
  BY <1>2

LEMMA SumAdd ==
  ASSUME NEW S, IsFiniteSet(S), NEW f, NEW g, NEW h,
         \A s \in S : f[s] \in Int /\ g[s] \in Int /\ h[s] = f[s] + g[s]
  PROVE  SumFunctionOnSet(h, S) = SumFunctionOnSet(f, S) + SumFunctionOnSet(g, S)
<1>1. SumFunctionOnSet(h, S) = SumFunctionOnSet(f, S) + 1 * SumFunctionOnSet(g, S)
  BY SumLinear
<1>2. SumFunctionOnSet(g, S) \in Int
  BY SumRemove
<1> QED
  BY <1>1, <1>2

\* Sums are monotone, up to a factor.
LEMMA SumMonotone ==
  ASSUME NEW S, IsFiniteSet(S), NEW f, NEW g, NEW d \in Int,
         \A s \in S : f[s] \in Int /\ g[s] \in Int /\ d * g[s] <= f[s]
  PROVE  d * SumFunctionOnSet(g, S) <= SumFunctionOnSet(f, S)
<1> DEFINE F(X) == SumFunctionOnSet(f, X)
           G(X) == SumFunctionOnSet(g, X)
           T == {X \in SUBSET S : d * G(X) <= F(X)}
<1>1. ASSUME NEW Y \in SUBSET S, \A X \in SUBSET Y : X # Y => X \in T
      PROVE  Y \in T
  <2>1. CASE Y = {}
    BY <2>1, SumEmpty
  <2>2. CASE Y # {}
    <3>1. PICK y \in Y : TRUE
      BY <2>2
    <3>2. IsFiniteSet(Y) /\ IsFiniteSet(Y \ {y})
      BY FS_Subset
    <3>3. /\ F(Y) = f[y] + F(Y \ {y}) /\ F(Y \ {y}) \in Int
          /\ G(Y) = g[y] + G(Y \ {y}) /\ G(Y \ {y}) \in Int
      BY <3>2, SumRemove
    <3>4. f[y] \in Int /\ g[y] \in Int /\ d * g[y] <= f[y]
      OBVIOUS
    <3>5. Y \ {y} \in T
      BY <1>1
    <3> HIDE DEF F, G
    <3>6. d * G(Y \ {y}) <= F(Y \ {y})
      BY <3>5
    <3>7. d * (g[y] + G(Y \ {y})) = d * g[y] + d * G(Y \ {y})
      BY <3>3, <3>4
    <3>8. d * g[y] \in Int /\ d * G(Y \ {y}) \in Int
      BY <3>3, <3>4
    <3> QED
      BY <3>3, <3>4, <3>6, <3>7, <3>8
  <2> QED
    BY <2>1, <2>2
<1>2. S \in T
  <2> HIDE DEF T
  <2> QED
    BY <1>1, SubsetInduction
<1> QED
  BY <1>2

LEMMA SumNat ==
  ASSUME NEW S, IsFiniteSet(S), NEW f, \A s \in S : f[s] \in Nat
  PROVE  SumFunctionOnSet(f, S) \in Nat
<1>1. SumFunctionOnSet(f, S) \in Int
  BY SumRemove
<1>2. 0 * SumFunctionOnSet(f, S) <= SumFunctionOnSet(f, S)
  BY SumMonotone
<1> QED
  BY <1>1, <1>2

LEMMA SumSame ==
  ASSUME NEW S, IsFiniteSet(S), NEW f, NEW g, \A s \in S : f[s] \in Int /\ g[s] = f[s]
  PROVE  SumFunctionOnSet(g, S) = SumFunctionOnSet(f, S)
<1>0. \A s \in S : f[s] \in Int /\ f[s] \in Int /\ g[s] = f[s] + 0 * f[s]
  OBVIOUS
<1>1. SumFunctionOnSet(g, S) = SumFunctionOnSet(f, S) + 0 * SumFunctionOnSet(f, S)
  BY <1>0, SumLinear
<1>2. SumFunctionOnSet(f, S) \in Int
  BY SumRemove
<1> QED
  BY <1>1, <1>2

LEMMA SumZero ==
  ASSUME NEW S, IsFiniteSet(S), NEW f, \A s \in S : f[s] = 0
  PROVE  SumFunctionOnSet(f, S) = 0
<1> DEFINE sum == SumFunctionOnSet(f, S)
<1>1. sum = sum + 1 * sum
  BY SumLinear
<1>2. sum \in Int
  BY SumRemove
<1> HIDE DEF sum
<1>3. sum = 0
  BY <1>1, <1>2
<1> QED
  BY <1>3 DEF sum

\* A function that differs at one element.
LEMMA SumUpdate ==
  ASSUME NEW S, IsFiniteSet(S), NEW f, NEW g, NEW x \in S,
         \A s \in S : f[s] \in Int /\ g[s] \in Int,
         \A s \in S \ {x} : g[s] = f[s]
  PROVE  SumFunctionOnSet(g, S) = SumFunctionOnSet(f, S) - f[x] + g[x]
<1> DEFINE F(X) == SumFunctionOnSet(f, X)
           G(X) == SumFunctionOnSet(g, X)
<1>1. IsFiniteSet(S \ {x})
  BY FS_RemoveElement
<1>2. F(S) = f[x] + F(S \ {x}) /\ G(S) = g[x] + G(S \ {x}) /\ F(S \ {x}) \in Int
  BY <1>1, SumRemove
<1>3. G(S \ {x}) = F(S \ {x})
  BY <1>1, SumSame
<1>4. f[x] \in Int /\ g[x] \in Int
  OBVIOUS
<1> HIDE DEF F, G
<1>5. G(S) = F(S) - f[x] + g[x]
  BY <1>2, <1>3, <1>4
<1> QED
  BY <1>5 DEF F, G

\* A sum in two parts.
LEMMA SumSplit ==
  ASSUME NEW S, IsFiniteSet(S), NEW f, \A s \in S : f[s] \in Int, NEW A \in SUBSET S
  PROVE  SumFunctionOnSet(f, S) = SumFunctionOnSet(f, A) + SumFunctionOnSet(f, S \ A)
<1> DEFINE F(X) == SumFunctionOnSet(f, X)
           T == {X \in SUBSET S : F(X) = F(X \cap A) + F(X \ A)}
<1>1. ASSUME NEW Y \in SUBSET S, \A X \in SUBSET Y : X # Y => X \in T
      PROVE  Y \in T
  <2>1. CASE Y = {}
    <3>1. Y \cap A = {} /\ Y \ A = {}
      BY <2>1
    <3> QED
      BY <2>1, <3>1, SumEmpty
  <2>2. CASE Y # {}
    <3>1. PICK y \in Y : TRUE
      BY <2>2
    <3> DEFINE Z == Y \ {y}
    <3>2. /\ IsFiniteSet(Y) /\ IsFiniteSet(Z) /\ IsFiniteSet(Y \cap A) /\ IsFiniteSet(Y \ A)
          /\ IsFiniteSet(Z \cap A) /\ IsFiniteSet(Z \ A)
      BY FS_Subset
    <3>3. /\ F(Y) = f[y] + F(Z) /\ f[y] \in Int /\ F(Z) \in Int
          /\ F(Z \cap A) \in Int /\ F(Z \ A) \in Int
      BY <3>2, SumRemove
    <3>4. F(Z) = F(Z \cap A) + F(Z \ A)
      BY <1>1
    <3>5. CASE y \in A
      <4>1. Y \ A = Z \ A /\ Z \cap A = (Y \cap A) \ {y} /\ y \in Y \cap A
        BY <3>5
      <4>2. F(Y \cap A) = f[y] + F(Z \cap A)
        BY <3>2, <4>1, SumRemove
      <4>3. F(Y \ A) = F(Z \ A)
        BY <4>1, Zenon
      <4> HIDE DEF F, Z
      <4>4. F(Y) = F(Y \cap A) + F(Y \ A)
        BY <3>3, <3>4, <4>2, <4>3
      <4> QED
        BY <4>4
    <3>6. CASE y \notin A
      <4>1. Y \cap A = Z \cap A /\ Z \ A = (Y \ A) \ {y} /\ y \in Y \ A
        BY <3>6
      <4>2. F(Y \ A) = f[y] + F(Z \ A)
        BY <3>2, <4>1, SumRemove
      <4>3. F(Y \cap A) = F(Z \cap A)
        BY <4>1, Zenon
      <4> HIDE DEF F, Z
      <4>4. F(Y) = F(Y \cap A) + F(Y \ A)
        BY <3>3, <3>4, <4>2, <4>3
      <4> QED
        BY <4>4
    <3> QED
      BY <3>5, <3>6
  <2> QED
    BY <2>1, <2>2
<1>2. S \in T
  <2> HIDE DEF T
  <2> QED
    BY <1>1, SubsetInduction
<1>3. S \cap A = A
  OBVIOUS
<1> QED
  BY <1>2, <1>3

\* Another index for the same elements.
LEMMA SumReindex ==
  ASSUME NEW K, IsFiniteSet(K), NEW q, NEW f, NEW g,
         \A i, j \in K : q[i] = q[j] => i = j,
         \A k \in K : f[q[k]] \in Int /\ g[k] = f[q[k]]
  PROVE  SumFunctionOnSet(g, K) = SumFunctionOnSet(f, {q[k] : k \in K})
<1> DEFINE Image(X) == {q[k] : k \in X}
           F(X) == SumFunctionOnSet(f, X)
           G(X) == SumFunctionOnSet(g, X)
           T == {X \in SUBSET K : G(X) = F(Image(X))}
<1>1. ASSUME NEW Y \in SUBSET K, \A X \in SUBSET Y : X # Y => X \in T
      PROVE  Y \in T
  <2>1. CASE Y = {}
    <3>1. Image(Y) = {}
      BY <2>1
    <3> QED
      BY <2>1, <3>1, SumEmpty
  <2>2. CASE Y # {}
    <3>1. PICK y \in Y : TRUE
      BY <2>2
    <3> DEFINE Z == Y \ {y}
    <3>2. IsFiniteSet(Y) /\ IsFiniteSet(Image(Y))
      <4>1. [k \in Y |-> q[k]] \in Surjection(Y, Image(Y))
        BY DEF Surjection
      <4>2. IsFiniteSet(Y)
        BY FS_Subset
      <4> HIDE DEF Image
      <4> QED
        BY <4>1, <4>2, FS_Surjection
    <3>3. Image(Z) = Image(Y) \ {q[y]} /\ q[y] \in Image(Y)
      OBVIOUS
    <3>4. G(Y) = g[y] + G(Z)
      BY <3>2, SumRemove
    <3>5. \A x \in Image(Y) : f[x] \in Int
      OBVIOUS
    <3>6. F(Image(Y)) = f[q[y]] + F(Image(Z))
      <4> HIDE DEF Image, Z
      <4> QED
        BY <3>2, <3>3, <3>5, SumRemove
    <3>7. Z \in T
      BY <1>1
    <3> QED
      BY <3>4, <3>6, <3>7
  <2> QED
    BY <2>1, <2>2
<1>2. K \in T
  <2> HIDE DEF T
  <2> QED
    BY <1>1, SubsetInduction
<1> QED
  BY <1>2

\* f has, for each b of B, the sum of g over the k of K with key b.
IsPartition(f, g, key, K, B) ==
  \A b \in B : f[b] = SumFunctionOnSet(g, {k \in K : key[k] = b})

LEMMA SumByKey ==
  ASSUME NEW K, IsFiniteSet(K), NEW B, IsFiniteSet(B), NEW key, NEW g, NEW f,
         \A k \in K : key[k] \in B /\ g[k] \in Int, IsPartition(f, g, key, K, B)
  PROVE  SumFunctionOnSet(f, B) = SumFunctionOnSet(g, K)
<1> DEFINE G(X) == SumFunctionOnSet(g, X)
           Of(X, b) == {k \in X : key[k] = b}
           part(X) == [b \in B |-> G(Of(X, b))]
           T == {X \in SUBSET K : SumFunctionOnSet(part(X), B) = G(X)}
<1>1. ASSUME NEW Y \in SUBSET K, \A X \in SUBSET Y : X # Y => X \in T
      PROVE  Y \in T
  <2>1. CASE Y = {}
    <3>1. \A b \in B : Of(Y, b) = {}
      BY <2>1
    <3>2. \A b \in B : part(Y)[b] = 0
      BY <3>1, SumEmpty
    <3>3. G(Y) = 0
      BY <2>1, SumEmpty
    <3> HIDE DEF part
    <3>4. SumFunctionOnSet(part(Y), B) = 0
      BY <3>2, SumZero
    <3> QED
      BY <3>3, <3>4
  <2>2. CASE Y # {}
    <3>1. PICK y \in Y : TRUE
      BY <2>2
    <3> DEFINE Z == Y \ {y}
               p == part(Z)
               q == part(Y)
               x == key[y]
    <3>2. IsFiniteSet(Y) /\ IsFiniteSet(Z) /\ Z \in SUBSET Y /\ Z # Y /\ x \in B
      BY <3>1, FS_Subset
    <3>3. \A b \in B : IsFiniteSet(Of(Y, b)) /\ IsFiniteSet(Of(Z, b))
      BY <3>2, FS_Subset
    <3>4. \A b \in B : p[b] = G(Of(Z, b)) /\ q[b] = G(Of(Y, b))
      OBVIOUS
    <3> HIDE DEF p, q, part
    <3>5. ASSUME NEW b \in B
          PROVE  p[b] \in Int /\ q[b] \in Int
      <4> DEFINE U == Of(Y, b)
                 V == Of(Z, b)
      <4>1. \A k \in U : g[k] \in Int
        OBVIOUS
      <4>2. \A k \in V : g[k] \in Int
        OBVIOUS
      <4>3. IsFiniteSet(U) /\ IsFiniteSet(V) /\ p[b] = G(V) /\ q[b] = G(U)
        BY <3>3, <3>4
      <4> HIDE DEF U, V
      <4> QED
        BY <4>1, <4>2, <4>3, SumRemove
    <3>6. \A b \in B \ {x} : q[b] = p[b]
      <4>1. \A b \in B \ {x} : Of(Y, b) = Of(Z, b)
        OBVIOUS
      <4> QED
        BY <3>4, <4>1
    <3>7. q[x] = g[y] + p[x]
      <4>1. Of(Z, x) = Of(Y, x) \ {y} /\ y \in Of(Y, x)
        BY <3>1
      <4>2. \A k \in Of(Y, x) : g[k] \in Int
        OBVIOUS
      <4>3. G(Of(Y, x)) = g[y] + G(Of(Y, x) \ {y})
        BY <3>2, <3>3, <4>1, <4>2, SumRemove
      <4> QED
        BY <3>2, <3>4, <4>1, <4>3
    <3>8. SumFunctionOnSet(q, B) = SumFunctionOnSet(p, B) - p[x] + q[x]
      <4>1. x \in B /\ (\A b \in B : p[b] \in Int /\ q[b] \in Int)
        BY <3>2, <3>5
      <4> HIDE DEF x
      <4> DEFINE P(X) == SumFunctionOnSet(p, X)
                 Q(X) == SumFunctionOnSet(q, X)
      <4>2. P(B) = p[x] + P(B \ {x}) /\ Q(B) = q[x] + Q(B \ {x}) /\ IsFiniteSet(B \ {x})
        BY <4>1, SumRemove, FS_RemoveElement
      <4>3. P(B \ {x}) \in Int /\ p[x] \in Int /\ q[x] \in Int
        BY <4>1, <4>2, SumRemove
      <4>4. Q(B \ {x}) = P(B \ {x})
        BY <3>6, <4>1, <4>2, SumSame
      <4> HIDE DEF P, Q
      <4>5. Q(B) = P(B) - p[x] + q[x]
        BY <4>2, <4>3, <4>4
      <4> QED
        BY <4>5 DEF P, Q
    <3>9. SumFunctionOnSet(p, B) = G(Z)
      BY <1>1, <3>2 DEF p
    <3>10. G(Y) = g[y] + G(Z) /\ G(Z) \in Int /\ g[y] \in Int
      BY <3>1, <3>2, SumRemove
    <3>11. p[x] \in Int /\ q[x] \in Int
      BY <3>2, <3>5
    <3> HIDE DEF G
    <3>12. SumFunctionOnSet(q, B) = G(Y)
      BY <3>7, <3>8, <3>9, <3>10, <3>11
    <3> QED
      BY <3>12 DEF q
  <2> QED
    BY <2>1, <2>2
<1>2. K \in T
  <2> HIDE DEF T
  <2> QED
    BY <1>1, SubsetInduction
<1>3. SumFunctionOnSet(part(K), B) = G(K)
  BY <1>2
<1>4. \A b \in B : part(K)[b] \in Int /\ f[b] = part(K)[b]
  <2>1. \A b \in B : part(K)[b] = G(Of(K, b)) /\ f[b] = G(Of(K, b))
    BY DEF IsPartition
  <2>2. \A b \in B : G(Of(K, b)) \in Int
    BY FS_Subset, SumRemove
  <2> QED
    BY <2>1, <2>2
<1> HIDE DEF part
<1>5. SumFunctionOnSet(f, B) = SumFunctionOnSet(part(K), B)
  BY <1>4, SumSame
<1> QED
  BY <1>3, <1>5

-----------------------------------------------------------------------------
(***************************************************************************)
(* Division                                                                *)
(***************************************************************************)

LEMMA DivBounds ==
  ASSUME NEW a \in Nat, NEW b \in Nat \ {0}
  PROVE  a \div b \in Nat /\ b * (a \div b) <= a
OBVIOUS

\* A product is above another when each factor is.
LEMMA ProductMonotone ==
  ASSUME NEW a \in Nat, NEW b \in Nat, NEW c \in Nat, a <= b
  PROVE  a * c <= b * c /\ a * c \in Nat
<1>1. (b - a) \in Nat
  OBVIOUS
<1>2. (b - a) * c \in Nat
  BY <1>1
<1>3. (b - a) * c = b * c - a * c
  OBVIOUS
<1> QED
  BY <1>2, <1>3

LEMMA CancelFactor ==
  ASSUME NEW a \in Int, NEW b \in Int, NEW c \in Nat \ {0}, c * a <= c * b
  PROVE  a <= b
<1> SUFFICES ASSUME a > b
             PROVE  FALSE
  OBVIOUS
<1>1. a - b - 1 \in Nat
  OBVIOUS
<1>2. c * (a - b - 1) \in Nat
  BY <1>1
<1>3. c * (a - b - 1) = c * a - c * b - c
  OBVIOUS
<1> QED
  BY <1>2, <1>3

\* What is below the next multiple.
LEMMA DivAbove ==
  ASSUME NEW a \in Nat, NEW b \in Nat \ {0}
  PROVE  a < b * (a \div b) + b
OBVIOUS

\* A quotient is at least what its numerator is a multiple of.
LEMMA DivAtLeast ==
  ASSUME NEW a \in Nat, NEW b \in Nat \ {0}, NEW q \in Nat, b * q <= a
  PROVE  q <= a \div b
<1> DEFINE d == a \div b
<1>1. d \in Nat /\ a < b * d + b
  BY DivBounds, DivAbove
<1> HIDE DEF d
<1>2. SUFFICES ASSUME q > d
               PROVE  FALSE
  BY <1>1 DEF d
<1>3. d + 1 <= q /\ d + 1 \in Nat
  BY <1>1, <1>2
<1>4. (d + 1) * b <= q * b
  BY <1>3, ProductMonotone
<1>5. (d + 1) * b = b * d + b /\ q * b = b * q
  BY <1>1
<1> QED
  BY <1>1, <1>4, <1>5

\* A quotient is at most what the next multiple is above.
LEMMA DivAtMost ==
  ASSUME NEW a \in Nat, NEW b \in Nat \ {0}, NEW q \in Nat, a < b * q + b
  PROVE  a \div b <= q
<1> DEFINE d == a \div b
<1>1. d \in Nat /\ b * d <= a
  BY DivBounds
<1> HIDE DEF d
<1>2. SUFFICES ASSUME d > q
               PROVE  FALSE
  BY <1>1 DEF d
<1>3. q + 1 <= d /\ q + 1 \in Nat
  BY <1>1, <1>2
<1>4. (q + 1) * b <= d * b
  BY <1>1, <1>3, ProductMonotone
<1>5. (q + 1) * b = b * q + b /\ d * b = b * d /\ b * q \in Nat /\ b * d \in Nat
  BY <1>1
<1> QED
  BY <1>1, <1>4, <1>5
=============================================================================
