------------------------------- MODULE SumFacts -------------------------------
(***************************************************************************)
(* Facts about least numbers and about sums: FoldFunction(+, 0, f), the    *)
(* sum of the values of a function with a finite domain, as the account    *)
(* properties state it.                                                    *)
(*                                                                         *)
(* Induction takes the form of a least counterexample: a nonempty set of   *)
(* naturals has a least element, so a nonempty set of subsets of a finite  *)
(* set has one all of whose elements can be removed to leave the set.      *)
(***************************************************************************)
EXTENDS Integers, Sequences, Functions, FiniteSets, FiniteSetTheorems,
        WellFoundedInduction, TLAPS

-----------------------------------------------------------------------------
(* Least elements.                                                         *)

LEMMA LeastOfNats ==
    ASSUME NEW T, T \subseteq Nat, T # {}
    PROVE  \E x \in T : \A y \in T : x <= y
<1>1. PICK x \in T : \A y \in T : ~ (<<y, x>> \in OpToRel(<, Nat))
  BY NatLessThanWellFounded, WFMin
<1>2. \A y \in T : ~ (y < x)
  BY <1>1 DEF OpToRel
<1> QED
  BY <1>2

LEMMA GreatestOfNats ==
    ASSUME NEW K \in Nat, NEW T, T \subseteq Nat, T # {}, \A x \in T : x <= K
    PROVE  \E x \in T : \A y \in T : x >= y
<1> DEFINE Below == {K - x : x \in T}
<1>1. Below \subseteq Nat /\ Below # {}
  <2>1. \A x \in T : K - x \in Nat
    OBVIOUS
  <2>2. PICK x \in T : TRUE
    OBVIOUS
  <2>3. K - x \in Below
    BY <2>2
  <2> QED
    BY <2>1, <2>3
<1> HIDE DEF Below
<1>2. PICK d \in Below : \A e \in Below : d <= e
  BY <1>1, LeastOfNats
<1>3. PICK x \in T : d = K - x
  BY <1>2 DEF Below
<1>4. ASSUME NEW y \in T PROVE x >= y
  <2>1. K - y \in Below
    BY DEF Below
  <2> QED
    BY <1>2, <1>3, <2>1
<1> QED
  BY <1>3, <1>4

\* What removing an element does to a subset of a finite set.
LEMMA Removal ==
    ASSUME NEW D, IsFiniteSet(D), NEW s \in SUBSET D, NEW x \in s
    PROVE  /\ s \ {x} \in SUBSET D
           /\ Cardinality(s) \in Nat /\ Cardinality(s) >= 1
           /\ Cardinality(s \ {x}) = Cardinality(s) - 1
<1>1. IsFiniteSet(s)
  BY FS_Subset
<1>2. Cardinality(s) \in Nat /\ Cardinality(s \ {x}) = Cardinality(s) - 1 /\ IsFiniteSet(s \ {x})
  BY <1>1, FS_RemoveElement, FS_CardinalityType
<1>3. Cardinality(s \ {x}) \in Nat
  BY <1>2, FS_CardinalityType
<1> QED
  BY <1>2, <1>3

\* Of a nonempty set of subsets of a finite set one is smallest.
LEMMA LeastSet ==
    ASSUME NEW D, IsFiniteSet(D), NEW B, B \subseteq SUBSET D, B # {}
    PROVE  \E s \in B : \A x \in s : s \ {x} \notin B
<1> DEFINE Sizes == {Cardinality(s) : s \in B}
<1>1. \A s \in B : Cardinality(s) \in Nat
  BY FS_Subset, FS_CardinalityType
<1>2. Sizes \subseteq Nat /\ Sizes # {}
  BY <1>1
<1> HIDE DEF Sizes
<1>3. PICK n \in Sizes : \A m \in Sizes : n <= m
  BY <1>2, LeastOfNats
<1>4. PICK s \in B : n = Cardinality(s)
  BY DEF Sizes
<1>5. ASSUME NEW x \in s, s \ {x} \in B PROVE FALSE
  <2>1. Cardinality(s \ {x}) \in Sizes
    BY <1>5 DEF Sizes
  <2>2. Cardinality(s) \in Nat /\ Cardinality(s \ {x}) = Cardinality(s) - 1
    BY Removal
  <2> QED
    BY <1>3, <1>4, <2>1, <2>2
<1> QED
  BY <1>5

-----------------------------------------------------------------------------
(* The recursion of the fold.                                              *)

Some(s) == CHOOSE x \in s : TRUE

Recursion(f, g) ==
    g = [s \in SUBSET DOMAIN f |-> IF s = {} THEN 0 ELSE f[Some(s)] + g[s \ {Some(s)}]]

\* The sums of the values of f over the subsets of its domain.
SumUp(f) == CHOOSE g : Recursion(f, g)

SumOf(f) == FoldFunction(+, 0, f)

LEMMA SumUnfolds ==
    ASSUME NEW f
    PROVE  SumOf(f) = SumUp(f)[DOMAIN f]
  BY DEF SumOf, FoldFunction, FoldFunctionOnSet, MapThenFoldSet, SumUp, Recursion, Some

\* The recursion has a solution on the sets of at most n elements, for each n.
Level(D, n) == {s \in SUBSET D : Cardinality(s) <= n}

SolvesUpTo(f, D, n, g) ==
    /\ g \in [Level(D, n) -> Int]
    /\ \A s \in Level(D, n) : g[s] = IF s = {} THEN 0 ELSE f[Some(s)] + g[s \ {Some(s)}]

LEMMA SolutionGrows ==
    ASSUME NEW D, IsFiniteSet(D), NEW f \in [D -> Int], NEW n \in Nat,
           NEW g, SolvesUpTo(f, D, n, g)
    PROVE  \E h : SolvesUpTo(f, D, n + 1, h)
<1> DEFINE h == [s \in Level(D, n + 1) |-> IF s = {} THEN 0 ELSE f[Some(s)] + g[s \ {Some(s)}]]
<1>1. ASSUME NEW s \in Level(D, n + 1), s # {}
      PROVE  Some(s) \in s /\ s \in SUBSET D /\ s \ {Some(s)} \in Level(D, n)
  <2>1. Some(s) \in s /\ s \in SUBSET D
    BY <1>1 DEF Some, Level
  <2>2. Cardinality(s) \in Nat /\ Cardinality(s \ {Some(s)}) = Cardinality(s) - 1
    BY <2>1, Removal
  <2>3. Cardinality(s) <= n + 1
    BY DEF Level
  <2> QED
    BY <2>1, <2>2, <2>3 DEF Level
<1>2. \A s \in Level(D, n) : s \in Level(D, n + 1)
  <2> TAKE s \in Level(D, n)
  <2>1. s \in SUBSET D /\ Cardinality(s) <= n
    BY DEF Level
  <2>2. Cardinality(s) \in Nat
    BY <2>1, FS_Subset, FS_CardinalityType
  <2> QED
    BY <2>1, <2>2 DEF Level
<1>3. h \in [Level(D, n + 1) -> Int]
  <2>1. ASSUME NEW s \in Level(D, n + 1), s # {} PROVE f[Some(s)] + g[s \ {Some(s)}] \in Int
    <3>1. f[Some(s)] \in Int /\ g[s \ {Some(s)}] \in Int
      BY <1>1, <2>1 DEF SolvesUpTo
    <3> QED
      BY <3>1
  <2> QED
    BY <2>1
<1>4. \A s \in Level(D, n) : h[s] = g[s]
  BY <1>2 DEF SolvesUpTo
<1>5. \A s \in Level(D, n + 1) : h[s] = IF s = {} THEN 0 ELSE f[Some(s)] + h[s \ {Some(s)}]
  BY <1>1, <1>4
<1> HIDE DEF h
<1> QED
  BY <1>3, <1>5 DEF SolvesUpTo

LEMMA SolutionExists ==
    ASSUME NEW D, IsFiniteSet(D), NEW f \in [D -> Int]
    PROVE  \E g \in [SUBSET D -> Int] : Recursion(f, g)
<1> DEFINE Unsolved == {n \in Nat : ~ \E g : SolvesUpTo(f, D, n, g)}
<1>1. 0 \notin Unsolved
  <2>1. Level(D, 0) = {{}}
    <3>1. {} \in Level(D, 0)
      BY FS_EmptySet DEF Level
    <3>2. ASSUME NEW s \in Level(D, 0) PROVE s = {}
      <4>1. s \in SUBSET D /\ Cardinality(s) <= 0
        BY DEF Level
      <4>2. IsFiniteSet(s) /\ Cardinality(s) \in Nat
        BY <4>1, FS_Subset, FS_CardinalityType
      <4>3. Cardinality(s) = 0
        BY <4>1, <4>2
      <4> QED
        BY <4>2, <4>3, FS_EmptySet
    <3> QED
      BY <3>1, <3>2
  <2>2. SolvesUpTo(f, D, 0, [s \in Level(D, 0) |-> 0])
    BY <2>1 DEF SolvesUpTo
  <2> QED
    BY <2>2
<1>2. \A n \in Nat : n \notin Unsolved => n + 1 \notin Unsolved
  <2> TAKE n \in Nat
  <2> QED
    BY SolutionGrows
<1> HIDE DEF Unsolved
<1>3. Unsolved = {}
  <2>1. SUFFICES ASSUME Unsolved # {} PROVE FALSE
    OBVIOUS
  <2>2. PICK n \in Unsolved : \A m \in Unsolved : n <= m
    BY <2>1, LeastOfNats DEF Unsolved
  <2>3. n \in Nat /\ n # 0
    BY <1>1 DEF Unsolved
  <2>4. n - 1 \in Nat /\ n - 1 \notin Unsolved
    BY <2>2, <2>3
  <2>5. (n - 1) + 1 \notin Unsolved
    BY <1>2, <2>4
  <2> QED
    BY <2>3, <2>5
<1>4. Cardinality(D) \in Nat
  BY FS_CardinalityType
<1>5. PICK g : SolvesUpTo(f, D, Cardinality(D), g)
  BY <1>3, <1>4 DEF Unsolved
<1>6. Level(D, Cardinality(D)) = SUBSET D
  BY FS_Subset DEF Level
<1>7. g \in [SUBSET D -> Int]
  BY <1>5, <1>6 DEF SolvesUpTo
<1>8. \A s \in SUBSET D : g[s] = IF s = {} THEN 0 ELSE f[Some(s)] + g[s \ {Some(s)}]
  BY <1>5, <1>6 DEF SolvesUpTo
<1>9. g = [s \in SUBSET D |-> IF s = {} THEN 0 ELSE f[Some(s)] + g[s \ {Some(s)}]]
  BY <1>7, <1>8
<1>10. DOMAIN f = D
  OBVIOUS
<1> QED
  BY <1>7, <1>9, <1>10 DEF Recursion

\* The sum over a set, by its recursion.
LEMMA SumRecursion ==
    ASSUME NEW D, IsFiniteSet(D), NEW f \in [D -> Int]
    PROVE  /\ SumUp(f)[{}] = 0
           /\ \A s \in SUBSET D : s # {} => SumUp(f)[s] = f[Some(s)] + SumUp(f)[s \ {Some(s)}]
<1>1. PICK g : Recursion(f, g)
  BY SolutionExists
<1>2. Recursion(f, SumUp(f))
  BY <1>1 DEF SumUp
<1>3. DOMAIN f = D
  OBVIOUS
<1>4. SumUp(f) = [s \in SUBSET D |-> IF s = {} THEN 0 ELSE f[Some(s)] + SumUp(f)[s \ {Some(s)}]]
  BY <1>2, <1>3 DEF Recursion
<1>5. \A s \in SUBSET D : SumUp(f)[s] = IF s = {} THEN 0 ELSE f[Some(s)] + SumUp(f)[s \ {Some(s)}]
  BY <1>4
<1> QED
  BY <1>5

LEMMA SumType ==
    ASSUME NEW D, IsFiniteSet(D), NEW f \in [D -> Int]
    PROVE  \A s \in SUBSET D : SumUp(f)[s] \in Int
<1> DEFINE B == {s \in SUBSET D : SumUp(f)[s] \notin Int}
<1>1. SUFFICES ASSUME B # {} PROVE FALSE
  OBVIOUS
<1>2. B \subseteq SUBSET D
  OBVIOUS
<1>3. PICK s \in B : \A x \in s : s \ {x} \notin B
  <2> HIDE DEF B
  <2> QED
    BY <1>1, <1>2, LeastSet
<1>4. s # {}
  <2>1. SumUp(f)[{}] = 0
    BY SumRecursion
  <2> QED
    BY <2>1
<1>5. Some(s) \in s
  BY <1>4 DEF Some
<1>6. SumUp(f)[s \ {Some(s)}] \in Int
  BY <1>3, <1>5
<1>7. SumUp(f)[s] = f[Some(s)] + SumUp(f)[s \ {Some(s)}]
  BY <1>4, SumRecursion
<1>8. f[Some(s)] \in Int
  BY <1>5
<1> QED
  BY <1>6, <1>7, <1>8

\* Any element may be taken out first.
LEMMA SumSplits ==
    ASSUME NEW D, IsFiniteSet(D), NEW f \in [D -> Int]
    PROVE  \A s \in SUBSET D : \A d \in s : SumUp(f)[s] = f[d] + SumUp(f)[s \ {d}]
<1> DEFINE B == {s \in SUBSET D : \E d \in s : SumUp(f)[s] # f[d] + SumUp(f)[s \ {d}]}
<1>1. SUFFICES ASSUME B # {} PROVE FALSE
  OBVIOUS
<1>2. B \subseteq SUBSET D
  OBVIOUS
<1>3. PICK s \in B : \A x \in s : s \ {x} \notin B
  <2> HIDE DEF B
  <2> QED
    BY <1>1, <1>2, LeastSet
<1>4. PICK d \in s : SumUp(f)[s] # f[d] + SumUp(f)[s \ {d}]
  OBVIOUS
<1>5. PICK x \in s : x = Some(s)
  BY DEF Some
<1>6. SumUp(f)[s] = f[x] + SumUp(f)[s \ {x}]
  <2>1. s \in SUBSET D /\ s # {}
    OBVIOUS
  <2> HIDE DEF B
  <2>2. SumUp(f)[s] = f[Some(s)] + SumUp(f)[s \ {Some(s)}]
    BY <2>1, SumRecursion
  <2> QED
    BY <1>5, <2>2
<1>7. x # d
  BY <1>4, <1>6
<1>8. s \ {x} \in SUBSET D /\ s \ {d} \in SUBSET D /\ d \in s \ {x} /\ x \in s \ {d}
  BY <1>7
<1>9. SumUp(f)[s \ {x}] = f[d] + SumUp(f)[(s \ {x}) \ {d}]
  BY <1>3, <1>8
<1>10. SumUp(f)[s \ {d}] = f[x] + SumUp(f)[(s \ {d}) \ {x}]
  BY <1>3, <1>8
<1>11. PICK rest \in SUBSET D : rest = (s \ {x}) \ {d} /\ rest = (s \ {d}) \ {x}
  OBVIOUS
<1>12. SumUp(f)[rest] \in Int /\ f[x] \in Int /\ f[d] \in Int
  BY SumType
<1>13. SumUp(f)[s \ {x}] = f[d] + SumUp(f)[rest] /\ SumUp(f)[s \ {d}] = f[x] + SumUp(f)[rest]
  BY <1>9, <1>10, <1>11
<1> HIDE DEF B
<1> QED
  BY <1>4, <1>6, <1>12, <1>13

\* A function that takes its values from another, each place once.
LEMMA SumReindexes ==
    ASSUME NEW D, IsFiniteSet(D), NEW f \in [D -> Int],
           NEW E, IsFiniteSet(E), NEW g \in [E -> Int],
           NEW b \in [E -> D], \A x, y \in E : b[x] = b[y] => x = y,
           \A x \in E : g[x] = f[b[x]]
    PROVE  \A s \in SUBSET E : SumUp(g)[s] = SumUp(f)[{b[x] : x \in s}]
<1> DEFINE Image(s) == {b[x] : x \in s}
           B == {s \in SUBSET E : SumUp(g)[s] # SumUp(f)[Image(s)]}
<1>1. SUFFICES ASSUME B # {} PROVE FALSE
  OBVIOUS
<1>2. B \subseteq SUBSET E
  OBVIOUS
<1>3. PICK s \in B : \A x \in s : s \ {x} \notin B
  <2> HIDE DEF B
  <2> QED
    BY <1>1, <1>2, LeastSet
<1>4. s # {}
  <2>1. Image({}) = {}
    OBVIOUS
  <2>2. SumUp(f)[{}] = 0
    BY SumRecursion
  <2>3. SumUp(g)[{}] = 0
    BY SumRecursion
  <2> QED
    BY <2>1, <2>2, <2>3
<1>5. PICK x \in s : TRUE
  BY <1>4
<1>6. SumUp(g)[s] = g[x] + SumUp(g)[s \ {x}]
  BY SumSplits
<1>7. SumUp(g)[s \ {x}] = SumUp(f)[Image(s \ {x})]
  BY <1>3, <1>5
<1>8. Image(s) \in SUBSET D /\ b[x] \in Image(s) /\ Image(s) \ {b[x]} = Image(s \ {x})
  OBVIOUS
<1>9. SumUp(f)[Image(s)] = f[b[x]] + SumUp(f)[Image(s) \ {b[x]}]
  <2> HIDE DEF Image
  <2> QED
    BY <1>8, SumSplits
<1> QED
  BY <1>3, <1>6, <1>7, <1>8, <1>9

\* Functions that agree on a set have the same sum over it.
LEMMA SumAgrees ==
    ASSUME NEW D, IsFiniteSet(D), NEW f \in [D -> Int],
           NEW E, IsFiniteSet(E), NEW g \in [E -> Int],
           NEW s \in SUBSET D, s \subseteq E, \A x \in s : f[x] = g[x]
    PROVE  SumUp(f)[s] = SumUp(g)[s]
<1> DEFINE B == {r \in SUBSET s : SumUp(f)[r] # SumUp(g)[r]}
<1>1. SUFFICES ASSUME B # {} PROVE FALSE
  OBVIOUS
<1>2. B \subseteq SUBSET s /\ IsFiniteSet(s)
  BY FS_Subset
<1>3. PICK r \in B : \A x \in r : r \ {x} \notin B
  <2> HIDE DEF B
  <2> QED
    BY <1>1, <1>2, LeastSet
<1>4. r # {}
  BY SumRecursion
<1>5. PICK x \in r : TRUE
  BY <1>4
<1>6. SumUp(f)[r] = f[x] + SumUp(f)[r \ {x}] /\ SumUp(g)[r] = g[x] + SumUp(g)[r \ {x}]
  BY SumSplits
<1>7. SumUp(f)[r \ {x}] = SumUp(g)[r \ {x}]
  BY <1>3, <1>5
<1> QED
  BY <1>3, <1>6, <1>7

-----------------------------------------------------------------------------
(* Sums over a whole domain.                                               *)

LEMMA SumOfType ==
    ASSUME NEW D, IsFiniteSet(D), NEW f \in [D -> Int]
    PROVE  SumOf(f) \in Int /\ SumOf(f) = SumUp(f)[D]
<1>1. SumOf(f) = SumUp(f)[D]
  BY SumUnfolds
<1>2. SumUp(f)[D] \in Int
  BY SumType
<1> QED
  BY <1>1, <1>2

LEMMA SumOfZeros ==
    ASSUME NEW D, IsFiniteSet(D), NEW f \in [D -> Int], \A x \in D : f[x] = 0
    PROVE  SumOf(f) = 0
<1> DEFINE B == {s \in SUBSET D : SumUp(f)[s] # 0}
<1>1. B = {}
  <2>1. SUFFICES ASSUME B # {} PROVE FALSE
    OBVIOUS
  <2>2. PICK s \in B : \A x \in s : s \ {x} \notin B
    <3>1. B \subseteq SUBSET D
      OBVIOUS
    <3> HIDE DEF B
    <3> QED
      BY <2>1, <3>1, LeastSet
  <2>3. s # {}
    <3>1. SumUp(f)[{}] = 0
      BY SumRecursion
    <3> QED
      BY <3>1
  <2>4. PICK x \in s : TRUE
    BY <2>3
  <2>5. SumUp(f)[s] = f[x] + SumUp(f)[s \ {x}]
    BY SumSplits
  <2>6. SumUp(f)[s \ {x}] = 0 /\ f[x] = 0
    BY <2>2
  <2> QED
    BY <2>5, <2>6
<1> QED
  BY <1>1, SumOfType

\* How the functions of one step are related to those before it: g differs
\* from f at one place, takes its values from f but for one of them, leaves
\* out the i-th entry, or has another entry in front.
Summable(f, D) == IsFiniteSet(D) /\ f \in [D -> Int]

Differs(f, g, D, d) ==
    Summable(f, D) /\ Summable(g, D) /\ d \in D /\ \A x \in D \ {d} : g[x] = f[x]

Omits(f, D, g, E, d, b) ==
    /\ Summable(f, D) /\ Summable(g, E) /\ d \in D
    /\ b \in [E -> D] /\ \A x, y \in E : b[x] = b[y] => x = y
    /\ {b[x] : x \in E} = D \ {d} /\ \A x \in E : g[x] = f[b[x]]

Removes(f, g, n, i) ==
    /\ n \in Nat /\ i \in 1..n /\ f \in [1..n -> Int] /\ g \in [1..n - 1 -> Int]
    /\ \A j \in 1..n - 1 : g[j] = IF j < i THEN f[j] ELSE f[j + 1]

Pushes(f, g, n) ==
    /\ n \in Nat /\ f \in [1..n -> Int] /\ g \in [1..n + 1 -> Int]
    /\ \A j \in 1..n : g[j + 1] = f[j]

LEMMA SumOfDifference ==
    ASSUME NEW D, NEW f, NEW g, NEW d, Differs(f, g, D, d)
    PROVE  SumOf(g) = SumOf(f) - f[d] + g[d]
<1> USE DEF Differs, Summable
<1>1. D \in SUBSET D /\ D \ {d} \in SUBSET D /\ D \ {d} \subseteq D
  OBVIOUS
<1>2. SumUp(f)[D] = f[d] + SumUp(f)[D \ {d}]
  BY <1>1, SumSplits
<1>3. SumUp(g)[D] = g[d] + SumUp(g)[D \ {d}]
  BY <1>1, SumSplits
<1>4. SumUp(g)[D \ {d}] = SumUp(f)[D \ {d}]
  BY <1>1, SumAgrees
<1>5. SumUp(f)[D \ {d}] \in Int /\ f[d] \in Int
  BY <1>1, SumType
<1>6. SumOf(g) = SumUp(g)[D] /\ SumOf(f) = SumUp(f)[D]
  BY SumOfType
<1> QED
  BY <1>2, <1>3, <1>4, <1>5, <1>6

LEMMA SumOfGreater ==
    ASSUME NEW D, NEW f, NEW g, Summable(f, D), Summable(g, D), \A x \in D : f[x] <= g[x]
    PROVE  SumOf(f) <= SumOf(g)
<1> USE DEF Summable
<1> DEFINE B == {s \in SUBSET D : ~ (SumUp(f)[s] <= SumUp(g)[s])}
<1>1. B = {}
  <2>1. SUFFICES ASSUME B # {} PROVE FALSE
    OBVIOUS
  <2>2. PICK s \in B : \A x \in s : s \ {x} \notin B
    <3>1. B \subseteq SUBSET D
      OBVIOUS
    <3> HIDE DEF B
    <3> QED
      BY <2>1, <3>1, LeastSet
  <2>3. s # {}
    <3>1. SumUp(f)[{}] = 0 /\ SumUp(g)[{}] = 0
      BY SumRecursion
    <3> QED
      BY <3>1
  <2>4. PICK x \in s : TRUE
    BY <2>3
  <2>5. /\ SumUp(f)[s] = f[x] + SumUp(f)[s \ {x}]
        /\ SumUp(g)[s] = g[x] + SumUp(g)[s \ {x}]
    BY SumSplits
  <2>6. SumUp(f)[s \ {x}] <= SumUp(g)[s \ {x}] /\ f[x] <= g[x]
    BY <2>2
  <2>7. /\ SumUp(f)[s \ {x}] \in Int /\ SumUp(g)[s \ {x}] \in Int
        /\ f[x] \in Int /\ g[x] \in Int
    BY SumType
  <2>8. ~ (SumUp(f)[s] <= SumUp(g)[s])
    BY <2>2
  <2> QED
    BY <2>5, <2>6, <2>7, <2>8
<1>2. D \in SUBSET D
  OBVIOUS
<1> QED
  BY <1>1, <1>2, SumOfType

LEMMA SumOfNats ==
    ASSUME NEW D, NEW f, Summable(f, D), \A x \in D : f[x] >= 0
    PROVE  SumOf(f) \in Int /\ SumOf(f) >= 0
<1> DEFINE zeros == [x \in D |-> 0]
<1>1. Summable(zeros, D) /\ \A x \in D : zeros[x] = 0
  BY DEF Summable
<1> HIDE DEF zeros
<1>2. SumOf(zeros) = 0
  BY <1>1, SumOfZeros DEF Summable
<1>3. \A x \in D : zeros[x] <= f[x]
  BY <1>1 DEF Summable
<1>4. SumOf(zeros) <= SumOf(f)
  BY <1>1, <1>3, SumOfGreater
<1>5. SumOf(f) \in Int
  BY SumOfType DEF Summable
<1> QED
  BY <1>2, <1>4, <1>5

LEMMA SumOfOmission ==
    ASSUME NEW D, NEW f, NEW E, NEW g, NEW d, NEW b, Omits(f, D, g, E, d, b)
    PROVE  SumOf(g) = SumOf(f) - f[d]
<1> USE DEF Omits, Summable
<1>1. D \in SUBSET D /\ D \ {d} \in SUBSET D /\ E \in SUBSET E
  OBVIOUS
<1>2. SumUp(f)[D] = f[d] + SumUp(f)[D \ {d}]
  BY <1>1, SumSplits
<1>a. SumUp(g)[E] = SumUp(f)[{b[x] : x \in E}]
  BY <1>1, SumReindexes
<1>3. SumUp(g)[E] = SumUp(f)[D \ {d}]
  BY <1>a
<1>4. SumUp(f)[D \ {d}] \in Int /\ f[d] \in Int
  BY <1>1, SumType
<1>5. SumOf(g) = SumUp(g)[E] /\ SumOf(f) = SumUp(f)[D]
  BY SumOfType
<1> QED
  BY <1>2, <1>3, <1>4, <1>5

LEMMA SumOfRemoval ==
    ASSUME NEW f, NEW g, NEW n, NEW i, Removes(f, g, n, i)
    PROVE  SumOf(g) = SumOf(f) - f[i]
<1> DEFINE D == 1..n
           E == 1..n - 1
           b == [j \in E |-> IF j < i THEN j ELSE j + 1]
<1>0. n \in Nat /\ i \in 1..n
  BY DEF Removes
<1>1. IsFiniteSet(D) /\ IsFiniteSet(E) /\ i \in D
  BY <1>0, FS_Interval
<1>2. b \in [E -> D] /\ (\A x, y \in E : b[x] = b[y] => x = y)
  BY <1>0
<1>3. \A x \in E : g[x] = f[b[x]]
  BY DEF Removes
<1>4. {b[x] : x \in E} = D \ {i}
  <2>1. \A x \in E : b[x] \in D \ {i}
    BY <1>0
  <2>2. ASSUME NEW y \in D, y # i PROVE \E x \in E : b[x] = y
    <3>1. CASE y < i
      <4>1. y \in E /\ b[y] = y
        BY <1>0, <3>1
      <4> QED
        BY <4>1
    <3>2. CASE y > i
      <4>1. y - 1 \in E /\ b[y - 1] = y
        BY <1>0, <3>2
      <4> QED
        BY <4>1
    <3> QED
      BY <1>0, <2>2, <3>1, <3>2
  <2> HIDE DEF b
  <2>3. ASSUME NEW y \in {b[x] : x \in E} PROVE y \in D \ {i}
    BY <2>1
  <2>4. ASSUME NEW y \in D \ {i} PROVE y \in {b[x] : x \in E}
    BY <2>2
  <2> QED
    BY <2>3, <2>4
<1>5. Summable(f, D) /\ Summable(g, E)
  BY <1>1 DEF Summable, Removes
<1> HIDE DEF b, D, E
<1>6. Omits(f, D, g, E, i, b)
  BY <1>1, <1>2, <1>3, <1>4, <1>5 DEF Omits
<1> QED
  BY <1>6, SumOfOmission

LEMMA SumOfPush ==
    ASSUME NEW f, NEW g, NEW n, Pushes(f, g, n)
    PROVE  SumOf(g) = SumOf(f) + g[1]
<1>1. PICK m \in Nat : m = n + 1 /\ n = m - 1 /\ n \in Nat
  BY DEF Pushes
<1>2. Removes(g, f, m, 1)
  BY <1>1 DEF Pushes, Removes
<1>3. SumOf(f) = SumOf(g) - g[1]
  BY <1>2, SumOfRemoval
<1>4. SumOf(g) \in Int /\ g[1] \in Int
  <2>1. g \in [1..m -> Int] /\ 1 \in 1..m /\ IsFiniteSet(1..m)
    BY <1>1, FS_Interval DEF Pushes
  <2> QED
    BY <2>1, SumOfType
<1> QED
  BY <1>3, <1>4

===============================================================================
