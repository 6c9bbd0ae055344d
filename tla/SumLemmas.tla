----------------------------- MODULE SumLemmas -----------------------------
(***************************************************************************)
(* Facts about the sums the specifications take over sets: MapThenSumSet   *)
(* of the community modules, of the values of a function.  The library's   *)
(* induction theorems take an operator; the ones here take a set of        *)
(* numbers or of subsets in its place.                                     *)
(***************************************************************************)
EXTENDS Integers, FiniteSetsExt, FiniteSetTheorems, WellFoundedInduction, TLAPS

\* The sum of f[x] for the x in S.
SumOf(f, S) == MapThenSumSet(LAMBDA x : f[x], S)

-----------------------------------------------------------------------------
(* Induction *)

\* A nonempty set of natural numbers has a least element.
LEMMA LeastNat ==
  ASSUME NEW X \in SUBSET Nat, X # {}
  PROVE  \E n \in X : \A m \in X : n <= m
<1>1. IsWellFoundedOn(OpToRel(<, Nat), Nat)
  BY NatLessThanWellFounded
<1>2. PICK n \in X : \A m \in X : ~ (<< m, n >> \in OpToRel(<, Nat))
  BY <1>1, WFMin
<1>3. \A m \in X : ~ (m < n)
  BY <1>2 DEF OpToRel
<1> QED BY <1>3

\* What holds of no elements, and of one more element of S whenever it holds of some, holds of S.
LEMMA SubsetInduction ==
  ASSUME NEW S, IsFiniteSet(S), NEW X, {} \in X,
         \A A \in SUBSET S : \A x \in S \ A : A \in X => A \cup {x} \in X
  PROVE  S \in X
<1> DEFINE Sizes == { n \in Nat : \E A \in SUBSET S : A \notin X /\ Cardinality(A) = n }
<1> SUFFICES ASSUME S \notin X PROVE FALSE
  OBVIOUS
<1>1. Cardinality(S) \in Sizes
  BY FS_CardinalityType
<1>2. PICK n \in Sizes : \A m \in Sizes : n <= m
  <2>1. Sizes \in SUBSET Nat /\ Sizes # {}
    BY <1>1
  <2> HIDE DEF Sizes
  <2> QED BY <2>1, LeastNat
<1>3. PICK A \in SUBSET S : A \notin X /\ Cardinality(A) = n
  BY <1>2
<1>4. IsFiniteSet(A)
  BY FS_Subset
<1>5. PICK x \in A : TRUE
  BY <1>3
<1>6. Cardinality(A \ {x}) = n - 1 /\ Cardinality(A \ {x}) \in Nat
  <2>1. IsFiniteSet(A \ {x}) /\ Cardinality(A \ {x}) = Cardinality(A) - 1
    BY <1>4, FS_RemoveElement
  <2>2. Cardinality(A \ {x}) \in Nat
    BY <2>1, FS_CardinalityType
  <2> QED BY <1>3, <2>1, <2>2
<1>7. A \ {x} \in X
  <2>1. ~ (n <= Cardinality(A \ {x}))
    BY <1>6
  <2>2. A \ {x} \in SUBSET S
    OBVIOUS
  <2>3. A \ {x} \notin X => Cardinality(A \ {x}) \in Sizes
    BY <1>6, <2>2
  <2> HIDE DEF Sizes
  <2> QED BY <1>2, <2>1, <2>3
<1>8. (A \ {x}) \cup {x} = A /\ A \ {x} \in SUBSET S /\ x \in S \ (A \ {x})
  OBVIOUS
<1> QED BY <1>3, <1>7, <1>8

-----------------------------------------------------------------------------
(* The sum *)

\* The values from which SumOf picks one, as a function on the subsets.
Recursion(f, S, g) ==
  g = [s \in SUBSET S |-> IF s = {} THEN 0
                          ELSE LET x == CHOOSE x \in s : TRUE IN f[x] + g[s \ {x}]]

\* The recursion of the fold has a solution on the finite sets.
LEMMA RecursionSolved ==
  ASSUME NEW f, NEW S, IsFiniteSet(S)
  PROVE  \E g : Recursion(f, S, g)
<1> DEFINE Pick(s) == CHOOSE x \in s : TRUE
           Small(n) == { s \in SUBSET S : Cardinality(s) <= n }
           Solves(n, g) == g = [s \in Small(n) |-> IF s = {} THEN 0 ELSE f[Pick(s)] + g[s \ {Pick(s)}]]
           Bad == { n \in Nat : ~ \E g : Solves(n, g) }
<1>1. \A s \in SUBSET S : IsFiniteSet(s) /\ Cardinality(s) \in Nat /\ Cardinality(s) <= Cardinality(S)
  BY FS_Subset, FS_CardinalityType
<1>2. \A s \in SUBSET S : s # {} =>
        /\ Pick(s) \in s /\ s \ {Pick(s)} \in SUBSET S
        /\ Cardinality(s \ {Pick(s)}) = Cardinality(s) - 1
  BY <1>1, FS_RemoveElement
<1>3. 0 \notin Bad
  <2>1. \A s \in Small(0) : s = {}
    BY <1>1, FS_EmptySet
  <2>2. Solves(0, [s \in Small(0) |-> 0])
    BY <2>1
  <2> QED BY <2>2
<1>4. ASSUME NEW n \in Nat, n \notin Bad
      PROVE  n + 1 \notin Bad
  <2>1. PICK g : Solves(n, g)
    BY <1>4
  <2> DEFINE h == [s \in Small(n + 1) |-> IF s = {} THEN 0 ELSE f[Pick(s)] + g[s \ {Pick(s)}]]
  <2>2. \A s \in Small(n) : s \in Small(n + 1) /\ h[s] = g[s]
    <3>1. \A s \in Small(n) : s \in Small(n + 1)
      BY <1>1
    <3>2. \A s \in Small(n) : g[s] = IF s = {} THEN 0 ELSE f[Pick(s)] + g[s \ {Pick(s)}]
      BY <2>1
    <3> QED BY <3>1, <3>2
  <2>3. \A s \in Small(n + 1) : s # {} => s \ {Pick(s)} \in Small(n)
    BY <1>1, <1>2
  <2>4. \A s \in Small(n + 1) : s # {} => h[s \ {Pick(s)}] = g[s \ {Pick(s)}]
    BY <2>2, <2>3
  <2>5. Solves(n + 1, h)
    <3> DEFINE k == [s \in Small(n + 1) |-> IF s = {} THEN 0 ELSE f[Pick(s)] + h[s \ {Pick(s)}]]
    <3>1. ASSUME NEW s \in Small(n + 1) PROVE k[s] = h[s]
      <4>1. k[s] = IF s = {} THEN 0 ELSE f[Pick(s)] + h[s \ {Pick(s)}]
        OBVIOUS
      <4>2. h[s] = IF s = {} THEN 0 ELSE f[Pick(s)] + g[s \ {Pick(s)}]
        OBVIOUS
      <4>3. s # {} => h[s \ {Pick(s)}] = g[s \ {Pick(s)}]
        BY <2>4
      <4> HIDE DEF h, k, Small, Pick
      <4> QED BY <4>1, <4>2, <4>3
    <3>2. h = [s \in Small(n + 1) |-> h[s]] /\ k = [s \in Small(n + 1) |-> k[s]]
      OBVIOUS
    <3>3. h = k
      <4> HIDE DEF h, k, Small
      <4> QED BY <3>1, <3>2
    <3> QED BY <3>3
  <2> QED BY <2>5
<1>5. Bad = {}
  <2> SUFFICES ASSUME Bad # {} PROVE FALSE
    OBVIOUS
  <2>1. PICK n \in Bad : \A m \in Bad : n <= m
    <3>1. Bad \in SUBSET Nat
      OBVIOUS
    <3> HIDE DEF Bad
    <3> QED BY <3>1, LeastNat
  <2>2. n \in Nat /\ n # 0
    BY <1>3
  <2>3. n - 1 \in Nat /\ n - 1 \notin Bad
    <3>1. n - 1 \in Nat /\ ~ (n <= n - 1)
      BY <2>2
    <3> HIDE DEF Bad
    <3> QED BY <3>1, <2>1
  <2>4. (n - 1) + 1 = n
    BY <2>2
  <2> HIDE DEF Bad
  <2> QED BY <1>4, <2>3, <2>4
<1>6. PICK g : Solves(Cardinality(S), g)
  BY <1>5, FS_CardinalityType
<1>7. Small(Cardinality(S)) = SUBSET S
  BY <1>1
<1> QED BY <1>6, <1>7 DEF Recursion

\* Two solutions agree on the subsets both are defined on.
LEMMA RecursionUnique ==
  ASSUME NEW f, NEW S, IsFiniteSet(S), NEW T \in SUBSET S,
         NEW g, NEW h, Recursion(f, S, g), Recursion(f, T, h)
  PROVE  g[T] = h[T]
<1> DEFINE Pick(s) == CHOOSE x \in s : TRUE
           Sizes == { n \in Nat : \E s \in SUBSET T : g[s] # h[s] /\ Cardinality(s) = n }
<1> SUFFICES ASSUME g[T] # h[T] PROVE FALSE
  OBVIOUS
<1>1. \A s \in SUBSET T : IsFiniteSet(s) /\ Cardinality(s) \in Nat
  BY FS_Subset, FS_CardinalityType
<1>2. PICK n \in Sizes : \A m \in Sizes : n <= m
  <2>1. Sizes \in SUBSET Nat /\ Sizes # {}
    BY <1>1
  <2> HIDE DEF Sizes
  <2> QED BY <2>1, LeastNat
<1>3. PICK s \in SUBSET T : g[s] # h[s] /\ Cardinality(s) = n
  BY <1>2
<1> DEFINE rest == s \ {Pick(s)}
<1>4. /\ g[s] = IF s = {} THEN 0 ELSE f[Pick(s)] + g[rest]
      /\ h[s] = IF s = {} THEN 0 ELSE f[Pick(s)] + h[rest]
  BY DEF Recursion
<1>5. s # {} /\ g[rest] # h[rest]
  BY <1>3, <1>4
<1>6. rest \in SUBSET T /\ Pick(s) \in s
  BY <1>5
<1>7. Cardinality(rest) = n - 1 /\ Cardinality(rest) \in Nat /\ n \in Nat
  <2>1. Cardinality(rest) = Cardinality(s) - 1
    BY <1>1, <1>6, FS_RemoveElement
  <2> QED BY <1>1, <1>2, <1>3, <1>6, <2>1
<1>8. Cardinality(rest) \in Sizes
  BY <1>5, <1>6, <1>7
<1>9. ~ (n <= Cardinality(rest))
  BY <1>7
<1> HIDE DEF Sizes
<1> QED BY <1>2, <1>8, <1>9

\* What SumOf is, without operators as arguments.
LEMMA SumUnfolds ==
  ASSUME NEW f, NEW S
  PROVE  SumOf(f, S) = (CHOOSE g : Recursion(f, S, g))[S]
BY DEF SumOf, MapThenSumSet, MapThenFoldSet, Recursion

\* The sum over nothing is zero.
LEMMA SumEmpty ==
  ASSUME NEW f
  PROVE  SumOf(f, {}) = 0
<1>1. Recursion(f, {}, CHOOSE g : Recursion(f, {}, g))
  BY RecursionSolved, FS_EmptySet
<1>2. (CHOOSE g : Recursion(f, {}, g))[{}] = 0
  BY <1>1 DEF Recursion
<1> QED BY <1>2, SumUnfolds

\* The element taken first is one the sum picks itself.
LEMMA SumPicks ==
  ASSUME NEW f, NEW S, IsFiniteSet(S), S # {}
  PROVE  LET x == CHOOSE x \in S : TRUE IN SumOf(f, S) = f[x] + SumOf(f, S \ {x})
<1> DEFINE x == CHOOSE x \in S : TRUE
           T == S \ {x}
           g == CHOOSE g : Recursion(f, S, g)
           h == CHOOSE h : Recursion(f, T, h)
<1>1. T \in SUBSET S /\ IsFiniteSet(T)
  BY FS_Subset
<1>2. Recursion(f, S, g)
  BY RecursionSolved
<1>3. Recursion(f, T, h)
  BY <1>1, RecursionSolved
<1>4. g[S] = f[x] + g[T]
  <2> HIDE DEF g
  <2> QED BY <1>2 DEF Recursion
<1>5. g[T] = h[T]
  <2> HIDE DEF g, h, T
  <2> QED BY <1>1, <1>2, <1>3, RecursionUnique
<1>6. SumOf(f, S) = g[S] /\ SumOf(f, T) = h[T]
  BY SumUnfolds
<1> QED BY <1>4, <1>5, <1>6

\* A nonempty set of subsets of a finite set has a minimal element.
LEMMA MinimalSubset ==
  ASSUME NEW S, IsFiniteSet(S), NEW X \in SUBSET (SUBSET S), X # {}
  PROVE  \E A \in X : \A x \in A : A \ {x} \notin X
<1> DEFINE Sizes == { n \in Nat : \E A \in X : Cardinality(A) = n }
<1>1. \A A \in X : IsFiniteSet(A) /\ Cardinality(A) \in Nat
  BY FS_Subset, FS_CardinalityType
<1>2. PICK n \in Sizes : \A m \in Sizes : n <= m
  <2>1. Sizes \in SUBSET Nat /\ Sizes # {}
    BY <1>1
  <2> HIDE DEF Sizes
  <2> QED BY <2>1, LeastNat
<1>3. PICK A \in X : Cardinality(A) = n
  BY <1>2
<1>4. \A x \in A : Cardinality(A \ {x}) = n - 1
  BY <1>1, <1>3, FS_RemoveElement
<1>5. ASSUME NEW x \in A PROVE A \ {x} \notin X
  <2>1. n \in Nat /\ ~ (n <= n - 1)
    BY <1>1, <1>3
  <2>2. A \ {x} \in X => n - 1 \in Sizes
    BY <1>1, <1>4
  <2> HIDE DEF Sizes
  <2> QED BY <1>2, <2>1, <2>2
<1> QED BY <1>5

\* A sum of integers is an integer.
LEMMA SumInt ==
  ASSUME NEW f, NEW S, IsFiniteSet(S), \A y \in S : f[y] \in Int
  PROVE  SumOf(f, S) \in Int
<1> DEFINE X == { A \in SUBSET S : SumOf(f, A) \notin Int }
<1>1. SUFFICES ASSUME X # {} PROVE FALSE
  OBVIOUS
<1>2. PICK A \in X : \A x \in A : A \ {x} \notin X
  <2>1. X \in SUBSET (SUBSET S)
    OBVIOUS
  <2> HIDE DEF X
  <2> QED BY <1>1, <2>1, MinimalSubset
<1>3. A # {} /\ A \in SUBSET S
  BY <1>2, SumEmpty
<1> DEFINE p == CHOOSE x \in A : TRUE
<1>4. SumOf(f, A) = f[p] + SumOf(f, A \ {p}) /\ p \in A
  BY <1>3, SumPicks, FS_Subset
<1>5. SumOf(f, A \ {p}) \in Int
  BY <1>2, <1>3, <1>4
<1>6. f[p] \in Int
  BY <1>3, <1>4
<1> HIDE DEF p
<1> QED BY <1>2, <1>4, <1>5, <1>6

\* Whatever element is taken out of the sum.
LEMMA SumRemove ==
  ASSUME NEW f, NEW S, IsFiniteSet(S), \A y \in S : f[y] \in Int, NEW x \in S
  PROVE  SumOf(f, S) = f[x] + SumOf(f, S \ {x})
<1> DEFINE Good(A) == \A y \in A : SumOf(f, A) = f[y] + SumOf(f, A \ {y})
           X == { A \in SUBSET S : ~ Good(A) }
<1>1. SUFFICES ASSUME X # {} PROVE FALSE
  OBVIOUS
<1>2. PICK A \in X : \A y \in A : A \ {y} \notin X
  <2>1. X \in SUBSET (SUBSET S)
    OBVIOUS
  <2> HIDE DEF X
  <2> QED BY <1>1, <2>1, MinimalSubset
<1>3. PICK y \in A : SumOf(f, A) # f[y] + SumOf(f, A \ {y})
  BY <1>2
<1> DEFINE p == CHOOSE z \in A : TRUE
           rest == A \ {y, p}
<1>4. A \in SUBSET S /\ IsFiniteSet(A) /\ IsFiniteSet(rest)
  BY <1>2, FS_Subset
<1>5. SumOf(f, A) = f[p] + SumOf(f, A \ {p}) /\ p \in A
  BY <1>3, <1>4, SumPicks
<1> HIDE DEF p
<1>6. p # y
  BY <1>3, <1>5
<1>7. SumOf(f, A \ {p}) = f[y] + SumOf(f, rest)
  <2>1. Good(A \ {p})
    BY <1>2, <1>4, <1>5
  <2>2. (A \ {p}) \ {y} = rest /\ y \in A \ {p}
    BY <1>6
  <2> QED BY <2>1, <2>2
<1>8. SumOf(f, A \ {y}) = f[p] + SumOf(f, rest)
  <2>1. Good(A \ {y})
    BY <1>2, <1>4
  <2>2. (A \ {y}) \ {p} = rest /\ p \in A \ {y}
    BY <1>5, <1>6
  <2> QED BY <2>1, <2>2
<1>9. f[p] \in Int /\ f[y] \in Int /\ SumOf(f, rest) \in Int
  BY <1>4, <1>5, SumInt
<1> HIDE DEF rest
<1> QED BY <1>3, <1>5, <1>7, <1>8, <1>9

\* One more element adds its value to the sum.
LEMMA SumAdd ==
  ASSUME NEW f, NEW S, IsFiniteSet(S), NEW x, x \notin S, \A y \in S \cup {x} : f[y] \in Int
  PROVE  SumOf(f, S \cup {x}) = SumOf(f, S) + f[x]
<1>1. (S \cup {x}) \ {x} = S /\ IsFiniteSet(S \cup {x})
  BY FS_AddElement
<1>2. SumOf(f, S) \in Int
  BY SumInt
<1>3. SumOf(f, S \cup {x}) = f[x] + SumOf(f, (S \cup {x}) \ {x})
  BY <1>1, SumRemove
<1>4. SumOf(f, (S \cup {x}) \ {x}) = SumOf(f, S)
  BY <1>1, Zenon
<1> QED BY <1>2, <1>3, <1>4

\* The sum over one element is its value.
LEMMA SumSingle ==
  ASSUME NEW f, NEW x, f[x] \in Int
  PROVE  SumOf(f, {x}) = f[x]
<1>1. SumOf(f, {} \cup {x}) = SumOf(f, {}) + f[x]
  BY SumAdd, FS_EmptySet
<1> QED BY <1>1, SumEmpty

\* Only the values at the elements matter.
LEMMA SumSame ==
  ASSUME NEW f, NEW g, NEW S, IsFiniteSet(S), \A y \in S : f[y] \in Int /\ f[y] = g[y]
  PROVE  SumOf(f, S) = SumOf(g, S)
<1> DEFINE X == { A \in SUBSET S : SumOf(f, A) = SumOf(g, A) }
<1>1. {} \in X
  BY SumEmpty
<1>2. ASSUME NEW A \in SUBSET S, NEW x \in S \ A, A \in X
      PROVE  A \cup {x} \in X
  <2>1. IsFiniteSet(A) /\ SumOf(f, A) = SumOf(g, A)
    BY <1>2, FS_Subset
  <2>2. SumOf(f, A \cup {x}) = SumOf(f, A) + f[x]
    BY <2>1, SumAdd
  <2>3. SumOf(g, A \cup {x}) = SumOf(g, A) + g[x]
    BY <2>1, SumAdd
  <2> QED BY <2>1, <2>2, <2>3
<1>3. S \in X
  <2> HIDE DEF X
  <2> QED BY <1>1, <1>2, SubsetInduction
<1> QED BY <1>3

\* With every value negated the sum is negated.
LEMMA SumNegated ==
  ASSUME NEW f, NEW g, NEW S, IsFiniteSet(S), \A y \in S : f[y] \in Int /\ g[y] = -f[y]
  PROVE  SumOf(g, S) = -SumOf(f, S)
<1> DEFINE X == { A \in SUBSET S : SumOf(g, A) = -SumOf(f, A) }
<1>1. {} \in X
  BY SumEmpty
<1>2. ASSUME NEW A \in SUBSET S, NEW x \in S \ A, A \in X
      PROVE  A \cup {x} \in X
  <2>1. IsFiniteSet(A) /\ SumOf(g, A) = -SumOf(f, A) /\ f[x] \in Int /\ g[x] = -f[x]
    BY <1>2, FS_Subset
  <2>2. SumOf(f, A \cup {x}) = SumOf(f, A) + f[x]
    BY <2>1, SumAdd
  <2>3. SumOf(g, A \cup {x}) = SumOf(g, A) + g[x]
    BY <2>1, SumAdd
  <2>4. SumOf(f, A) \in Int
    BY <2>1, SumInt
  <2> QED BY <2>1, <2>2, <2>3, <2>4
<1>3. S \in X
  <2> HIDE DEF X
  <2> QED BY <1>1, <1>2, SubsetInduction
<1> QED BY <1>3

\* The sum over two disjoint sets is the sum of their sums.
LEMMA SumUnion ==
  ASSUME NEW f, NEW S, NEW T, IsFiniteSet(S), IsFiniteSet(T), S \cap T = {},
         \A y \in S \cup T : f[y] \in Int
  PROVE  SumOf(f, S \cup T) = SumOf(f, S) + SumOf(f, T)
<1> DEFINE X == { A \in SUBSET T : SumOf(f, S \cup A) = SumOf(f, S) + SumOf(f, A) }
<1>1. {} \in X
  <2>1. S \cup {} = S /\ SumOf(f, S) \in Int
    BY SumInt
  <2> QED BY <2>1, SumEmpty
<1>2. ASSUME NEW A \in SUBSET T, NEW x \in T \ A, A \in X
      PROVE  A \cup {x} \in X
  <2>1. IsFiniteSet(A) /\ IsFiniteSet(S \cup A) /\ f[x] \in Int
    BY FS_Subset, FS_Union
  <2>2. SumOf(f, S \cup A) = SumOf(f, S) + SumOf(f, A)
    BY <1>2
  <2>3. SumOf(f, A \cup {x}) = SumOf(f, A) + f[x]
    BY <2>1, SumAdd
  <2>4. S \cup (A \cup {x}) = (S \cup A) \cup {x} /\ x \notin S \cup A
    OBVIOUS
  <2>5. SumOf(f, (S \cup A) \cup {x}) = SumOf(f, S \cup A) + f[x]
    BY <2>1, <2>4, SumAdd
  <2>6. SumOf(f, S) \in Int /\ SumOf(f, A) \in Int
    BY <2>1, SumInt
  <2>7. SumOf(f, S \cup (A \cup {x})) = SumOf(f, (S \cup A) \cup {x})
    BY <2>4, Zenon
  <2>8. SumOf(f, S \cup (A \cup {x})) = SumOf(f, S) + SumOf(f, A \cup {x})
    BY <2>1, <2>2, <2>3, <2>5, <2>6, <2>7
  <2> QED BY <2>8
<1>3. T \in X
  <2> HIDE DEF X
  <2> QED BY <1>1, <1>2, SubsetInduction
<1> QED BY <1>3

\* A sum of natural numbers is a natural number.
LEMMA SumNat ==
  ASSUME NEW f, NEW S, IsFiniteSet(S), \A y \in S : f[y] \in Nat
  PROVE  SumOf(f, S) \in Nat
<1> DEFINE X == { A \in SUBSET S : SumOf(f, A) \in Nat }
<1>1. {} \in X
  BY SumEmpty
<1>2. ASSUME NEW A \in SUBSET S, NEW x \in S \ A, A \in X
      PROVE  A \cup {x} \in X
  <2>1. IsFiniteSet(A) /\ SumOf(f, A) \in Nat /\ f[x] \in Nat
    BY <1>2, FS_Subset
  <2>2. SumOf(f, A \cup {x}) = SumOf(f, A) + f[x]
    BY <2>1, SumAdd
  <2> QED BY <2>1, <2>2
<1>3. S \in X
  <2> HIDE DEF X
  <2> QED BY <1>1, <1>2, SubsetInduction
<1> QED BY <1>3

\* Of amounts that are not negative, a part is no more than the whole.
LEMMA SumPart ==
  ASSUME NEW f, NEW S, IsFiniteSet(S), \A y \in S : f[y] \in Nat, NEW T \in SUBSET S
  PROVE  SumOf(f, T) <= SumOf(f, S)
<1>1. IsFiniteSet(T) /\ IsFiniteSet(S \ T) /\ T \cup (S \ T) = S
  BY FS_Subset
<1>2. SumOf(f, T \cup (S \ T)) = SumOf(f, T) + SumOf(f, S \ T)
  BY <1>1, SumUnion
<1>3. SumOf(f, T) \in Nat /\ SumOf(f, S \ T) \in Nat
  BY <1>1, SumNat
<1>4. SumOf(f, T \cup (S \ T)) = SumOf(f, S)
  BY <1>1, Zenon
<1> QED BY <1>2, <1>3, <1>4
=============================================================================
