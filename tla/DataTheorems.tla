---------------------------- MODULE DataTheorems ----------------------------
(***************************************************************************)
(* Facts about numbers, finite sets, the sums of module Functions,         *)
(* recursive functions, folds and ranks that the proofs about the          *)
(* throttle, the rate limits and the grading of recordings rest on.        *)
(* Induction is over sets (a set of numbers with 0 that is closed under    *)
(* successor, a set of finite sets that is closed under one more element), *)
(* because the provers cannot instantiate a theorem about a predicate.     *)
(***************************************************************************)
EXTENDS Integers, FiniteSets, Functions, FiniteSetTheorems, WellFoundedInduction, TLAPS

----------------------------------------------------------------------------
(* Induction *)

\* A set of natural numbers has a least element.
LEMMA LeastNumber ==
  ASSUME NEW S, S \subseteq Nat, S # {}
  PROVE  \E m \in S : \A k \in S : m <= k
<1> DEFINE R == OpToRel(<, Nat)
<1>1. IsWellFoundedOn(R, Nat)
  BY NatLessThanWellFounded
<1>2. \A i, j \in Nat : i < j => <<i, j>> \in R
  BY DEF OpToRel
<1> HIDE DEF R
<1>3. PICK m \in S : \A k \in S : ~ (<<k, m>> \in R)
  BY <1>1, WFMin
<1>4. ASSUME NEW k \in S PROVE m <= k
  <2>1. k \in Nat /\ m \in Nat
    OBVIOUS
  <2>2. ~ (k < m)
    BY <1>2, <1>3, <2>1, Zenon
  <2> QED BY <2>1, <2>2
<1> QED BY <1>4

\* Induction over the natural numbers.
LEMMA NumberInduction ==
  ASSUME NEW P, 0 \in P, \A n \in Nat : n \in P => n + 1 \in P
  PROVE  Nat \subseteq P
<1> SUFFICES ASSUME Nat \ P # {} PROVE FALSE
  OBVIOUS
<1>1. PICK m \in Nat \ P : \A k \in Nat \ P : m <= k
  BY LeastNumber
<1>2. m # 0 /\ m - 1 \in Nat
  OBVIOUS
<1>3. m - 1 \in P
  BY <1>1, <1>2
<1> QED BY <1>2, <1>3

\* Induction over the subsets of a finite set.
LEMMA SubsetInduction ==
  ASSUME NEW S, IsFiniteSet(S), NEW P, {} \in P,
         \A T \in SUBSET S : \A x \in S \ T : T \in P => T \cup {x} \in P
  PROVE  S \in P
<1> DEFINE Q == {n \in Nat : \A T \in SUBSET S : Cardinality(T) = n => T \in P}
<1>1. \A T \in SUBSET S : IsFiniteSet(T) /\ Cardinality(T) \in Nat
  BY FS_Subset, FS_CardinalityType
<1>2. 0 \in Q
  <2>1. ASSUME NEW T \in SUBSET S, Cardinality(T) = 0 PROVE T = {}
    BY <1>1, <2>1, FS_EmptySet
  <2> QED BY <2>1
<1>3. ASSUME NEW n \in Nat, n \in Q PROVE n + 1 \in Q
  <2> SUFFICES ASSUME NEW T \in SUBSET S, Cardinality(T) = n + 1 PROVE T \in P
    OBVIOUS
  <2>1. T # {}
    <3>1. n + 1 # 0
      OBVIOUS
    <3> QED BY <3>1, FS_EmptySet, Zenon
  <2>2. PICK x : x \in T
    BY <2>1
  <2>3. Cardinality(T \ {x}) = n
    <3>1. Cardinality(T \ {x}) = Cardinality(T) - 1
      BY <1>1, <2>2, FS_RemoveElement, Zenon
    <3> HIDE DEF Q
    <3> QED BY <3>1
  <2>4. T \ {x} \in P
    BY <1>3, <2>3
  <2>5. T = (T \ {x}) \cup {x} /\ x \in S \ (T \ {x})
    BY <2>2
  <2> HIDE DEF Q
  <2> QED BY <2>4, <2>5
<1>4. Nat \subseteq Q
  <2> HIDE DEF Q
  <2> QED BY <1>2, <1>3, NumberInduction
<1> QED BY <1>1, <1>4

----------------------------------------------------------------------------
(* SumFunctionOnSet is a recursion over subsets that chooses an element    *)
(* each time.  First: the recursion has a solution.                        *)

Chosen(s) == CHOOSE x \in s : TRUE

Solves(g, f, D) ==
  g = [s \in D |-> IF s = {} THEN 0 ELSE f[Chosen(s)] + g[s \ {Chosen(s)}]]

LEMMA ChosenIn == \A s : s # {} => Chosen(s) \in s
BY DEF Chosen

LEMMA SumIsASolution ==
  ASSUME NEW f, NEW S
  PROVE  SumFunctionOnSet(f, S) = (CHOOSE g : Solves(g, f, SUBSET S))[S]
BY DEF SumFunctionOnSet, FoldFunctionOnSet, MapThenFoldSet, Solves, Chosen

LEMMA SolutionExists ==
  ASSUME NEW f, NEW S, IsFiniteSet(S), \A x \in S : f[x] \in Int
  PROVE  \E g \in [SUBSET S -> Int] : Solves(g, f, SUBSET S)
<1> DEFINE D(n) == {s \in SUBSET S : Cardinality(s) <= n}
           Q == {n \in Nat : \E g \in [D(n) -> Int] : Solves(g, f, D(n))}
<1>1. \A s \in SUBSET S : IsFiniteSet(s) /\ Cardinality(s) \in Nat
  BY FS_Subset, FS_CardinalityType
<1>2. 0 \in Q
  <2>1. \A s \in D(0) : s = {}
    BY <1>1, FS_EmptySet
  <2> DEFINE g == [s \in D(0) |-> 0]
  <2>2. g \in [D(0) -> Int]
    OBVIOUS
  <2>3. Solves(g, f, D(0))
    BY <2>1 DEF Solves
  <2> QED BY <2>2, <2>3
<1>3. ASSUME NEW n \in Nat, n \in Q PROVE n + 1 \in Q
  <2>1. PICK g \in [D(n) -> Int] : Solves(g, f, D(n))
    BY <1>3
  <2> DEFINE h == [s \in D(n + 1) |-> IF s = {} THEN 0 ELSE f[Chosen(s)] + g[s \ {Chosen(s)}]]
  <2>2. \A s \in D(n + 1) : s # {} =>
          /\ Chosen(s) \in S /\ s \ {Chosen(s)} \in D(n)
    BY <1>1, ChosenIn, FS_RemoveElement
  <2>3. h \in [D(n + 1) -> Int]
    BY <2>2
  <2>4. ASSUME NEW s \in D(n) PROVE s \in D(n + 1) /\ h[s] = g[s]
    <3>1. Cardinality(s) \in Nat /\ Cardinality(s) <= n
      BY <1>1
    <3>2. s \in D(n + 1)
      BY <3>1
    <3>3. g[s] = IF s = {} THEN 0 ELSE f[Chosen(s)] + g[s \ {Chosen(s)}]
      BY <2>1, Zenon DEF Solves
    <3> QED BY <3>2, <3>3
  <2>5. \A s \in D(n + 1) : s # {} => h[s \ {Chosen(s)}] = g[s \ {Chosen(s)}]
    BY <2>2, <2>4
  <2>6. h = [s \in D(n + 1) |-> IF s = {} THEN 0 ELSE f[Chosen(s)] + h[s \ {Chosen(s)}]]
    BY <2>5
  <2> HIDE DEF h, D
  <2>7. Solves(h, f, D(n + 1))
    BY <2>6, Zenon DEF Solves
  <2> QED BY <2>3, <2>7
<1>4. Nat \subseteq Q
  <2> HIDE DEF Q
  <2> QED BY <1>2, <1>3, NumberInduction
<1>5. D(Cardinality(S)) = SUBSET S
  BY FS_Subset
<1>6. Cardinality(S) \in Q
  <2> HIDE DEF Q
  <2> QED BY <1>4, FS_CardinalityType
<1> QED BY <1>5, <1>6

\* Second: the solution is the only one, so that the sums over the subsets of a
\* set are all values of one function.
LEMMA SolutionsAgree ==
  ASSUME NEW f, NEW T, IsFiniteSet(T), NEW g, NEW h, NEW D, SUBSET T \subseteq D,
         Solves(g, f, SUBSET T), Solves(h, f, D)
  PROVE  \A U \in SUBSET T : g[U] = h[U]
<1> DEFINE Wrong == {U \in SUBSET T : g[U] # h[U]}
           Sizes == {Cardinality(U) : U \in Wrong}
<1> SUFFICES ASSUME Wrong # {} PROVE FALSE
  OBVIOUS
<1>1. \A U \in SUBSET T : IsFiniteSet(U) /\ Cardinality(U) \in Nat
  BY FS_Subset, FS_CardinalityType
<1>2. PICK n \in Sizes : \A m \in Sizes : n <= m
  <2>1. Sizes \subseteq Nat /\ Sizes # {}
    BY <1>1
  <2> HIDE DEF Sizes
  <2> QED BY <2>1, LeastNumber
<1>3. PICK U \in Wrong : n = Cardinality(U)
  OBVIOUS
<1>4. /\ g[U] = IF U = {} THEN 0 ELSE f[Chosen(U)] + g[U \ {Chosen(U)}]
      /\ h[U] = IF U = {} THEN 0 ELSE f[Chosen(U)] + h[U \ {Chosen(U)}]
  BY Zenon DEF Solves
<1>5. U # {}
  BY <1>4
<1>6. Cardinality(U \ {Chosen(U)}) = n - 1 /\ n \in Nat
  BY <1>1, <1>3, <1>5, ChosenIn, FS_RemoveElement
<1>7. U \ {Chosen(U)} \notin Wrong
  BY <1>2, <1>6
<1> QED BY <1>4, <1>5, <1>7

LEMMA SumRecursion ==
  ASSUME NEW f, NEW S, IsFiniteSet(S), \A x \in S : f[x] \in Int
  PROVE  /\ SumFunctionOnSet(f, S) \in Int
         /\ SumFunctionOnSet(f, S) =
              IF S = {} THEN 0 ELSE f[Chosen(S)] + SumFunctionOnSet(f, S \ {Chosen(S)})
<1> DEFINE Sol(T) == CHOOSE g : Solves(g, f, SUBSET T)
<1>1. ASSUME NEW T \in SUBSET S
      PROVE  /\ IsFiniteSet(T) /\ Solves(Sol(T), f, SUBSET T)
             /\ SumFunctionOnSet(f, T) = Sol(T)[T]
  <2>1. IsFiniteSet(T)
    BY FS_Subset
  <2>2. \E g : Solves(g, f, SUBSET T)
    BY <2>1, SolutionExists
  <2> QED BY <2>1, <2>2, SumIsASolution, Zenon
<1>2. PICK g \in [SUBSET S -> Int] : Solves(g, f, SUBSET S)
  BY SolutionExists
<1>3. ASSUME NEW T \in SUBSET S PROVE SumFunctionOnSet(f, T) = g[T]
  <2>1. SUBSET T \subseteq SUBSET S
    OBVIOUS
  <2> HIDE DEF Sol
  <2> DEFINE k == Sol(T)
  <2>a. IsFiniteSet(T) /\ Solves(k, f, SUBSET T) /\ SumFunctionOnSet(f, T) = k[T]
    BY <1>1
  <2> HIDE DEF k
  <2> DEFINE D == SUBSET S
  <2>b. SUBSET T \subseteq D /\ Solves(g, f, D)
    BY <1>2, <2>1
  <2> HIDE DEF D
  <2>2. \A U \in SUBSET T : k[U] = g[U]
    BY ONLY <2>a, <2>b, SolutionsAgree
  <2> QED BY <2>a, <2>2
<1>4. g[S] = IF S = {} THEN 0 ELSE f[Chosen(S)] + g[S \ {Chosen(S)}]
  BY <1>2, Zenon DEF Solves
<1>5. S # {} => S \ {Chosen(S)} \in SUBSET S
  OBVIOUS
<1> QED BY <1>2, <1>3, <1>4, <1>5

----------------------------------------------------------------------------
(* What a sum does, whatever the order of the additions *)

LEMMA SumEmpty == ASSUME NEW f PROVE SumFunctionOnSet(f, {}) = 0
BY SumRecursion, FS_EmptySet

LEMMA SumType ==
  ASSUME NEW f, NEW S, IsFiniteSet(S), \A x \in S : f[x] \in Int
  PROVE  SumFunctionOnSet(f, S) \in Int
BY SumRecursion

LEMMA SumRemove ==
  ASSUME NEW f, NEW S, IsFiniteSet(S), \A x \in S : f[x] \in Int, NEW x \in S
  PROVE  SumFunctionOnSet(f, S) = f[x] + SumFunctionOnSet(f, S \ {x})
<1> DEFINE Sum(T) == SumFunctionOnSet(f, T)
           Wrong == {T \in SUBSET S : \E y \in T : Sum(T) # f[y] + Sum(T \ {y})}
           Sizes == {Cardinality(T) : T \in Wrong}
<1>1. \A T \in SUBSET S : IsFiniteSet(T) /\ Cardinality(T) \in Nat
  BY FS_Subset, FS_CardinalityType
<1>2. \A T \in SUBSET S : /\ Sum(T) \in Int
                          /\ T # {} => Sum(T) = f[Chosen(T)] + Sum(T \ {Chosen(T)})
  BY <1>1, SumRecursion
<1>3. ASSUME Wrong # {} PROVE FALSE
  <2>1. PICK n \in Sizes : \A m \in Sizes : n <= m
    <3>1. Sizes \subseteq Nat /\ Sizes # {}
      BY <1>1, <1>3
    <3> HIDE DEF Sizes
    <3> QED BY <3>1, LeastNumber
  <2>2. PICK T \in Wrong : n = Cardinality(T)
    OBVIOUS
  <2>3. PICK y \in T : Sum(T) # f[y] + Sum(T \ {y})
    BY <2>2
  <2> DEFINE z == Chosen(T)
  <2>4. z \in T /\ Sum(T) = f[z] + Sum(T \ {z})
    BY <1>2, <2>3, ChosenIn
  <2> HIDE DEF z
  <2>5. y # z
    BY <2>3, <2>4
  <2>6. ASSUME NEW v \in T PROVE \A u \in T \ {v} : Sum(T \ {v}) = f[u] + Sum((T \ {v}) \ {u})
    <3>1. Cardinality(T \ {v}) = n - 1 /\ n \in Nat
      BY <1>1, <2>2, FS_RemoveElement
    <3>2. Cardinality(T \ {v}) \notin Sizes
      BY <2>1, <3>1
    <3>3. T \ {v} \notin Wrong
      BY <3>2
    <3> QED BY <3>3
  <2>7. /\ Sum(T \ {z}) = f[y] + Sum((T \ {z}) \ {y})
        /\ Sum(T \ {y}) = f[z] + Sum((T \ {y}) \ {z})
    BY <2>4, <2>5, <2>6
  <2>8. (T \ {z}) \ {y} = (T \ {y}) \ {z}
    OBVIOUS
  <2>9. Sum((T \ {z}) \ {y}) \in Int /\ f[y] \in Int /\ f[z] \in Int
    BY <1>2, <2>4
  <2>10. Sum((T \ {y}) \ {z}) = Sum((T \ {z}) \ {y})
    BY <2>8, Zenon
  <2> HIDE DEF Sum
  <2>11. f[z] + (f[y] + Sum((T \ {z}) \ {y})) = f[y] + (f[z] + Sum((T \ {z}) \ {y}))
    BY <2>9
  <2>12. Sum(T) = f[y] + Sum(T \ {y})
    BY <2>4, <2>7, <2>10, <2>11, Zenon
  <2> QED BY <2>3, <2>12
<1> QED BY <1>3

LEMMA SumAdd ==
  ASSUME NEW f, NEW S, IsFiniteSet(S), NEW x, x \notin S, \A y \in S \cup {x} : f[y] \in Int
  PROVE  SumFunctionOnSet(f, S \cup {x}) = f[x] + SumFunctionOnSet(f, S)
<1>1. IsFiniteSet(S \cup {x}) /\ (S \cup {x}) \ {x} = S
  BY FS_AddElement
<1> QED BY <1>1, SumRemove

LEMMA SumNat ==
  ASSUME NEW f, NEW S, IsFiniteSet(S), \A x \in S : f[x] \in Nat
  PROVE  SumFunctionOnSet(f, S) \in Nat
<1> DEFINE P == {T \in SUBSET S : SumFunctionOnSet(f, T) \in Nat}
<1>1. {} \in P
  BY SumEmpty
<1>2. ASSUME NEW T \in SUBSET S, NEW x \in S \ T, T \in P PROVE T \cup {x} \in P
  <2>1. IsFiniteSet(T) /\ f[x] \in Nat /\ \A y \in T \cup {x} : f[y] \in Int
    BY FS_Subset
  <2>2. SumFunctionOnSet(f, T \cup {x}) = f[x] + SumFunctionOnSet(f, T)
    BY <2>1, SumAdd
  <2> QED BY <1>2, <2>1, <2>2
<1> HIDE DEF P
<1>3. S \in P
  BY <1>1, <1>2, SubsetInduction
<1> QED BY <1>3 DEF P

LEMMA SumUnion ==
  ASSUME NEW f, NEW S, NEW T, IsFiniteSet(S), IsFiniteSet(T), S \cap T = {},
         \A x \in S \cup T : f[x] \in Int
  PROVE  SumFunctionOnSet(f, S \cup T) = SumFunctionOnSet(f, S) + SumFunctionOnSet(f, T)
<1> DEFINE Sum(U) == SumFunctionOnSet(f, U)
           P == {U \in SUBSET T : Sum(S \cup U) = Sum(S) + Sum(U)}
<1>1. {} \in P
  <2>1. S \cup {} = S /\ Sum(S) \in Int
    BY SumType
  <2>2. Sum({}) = 0
    BY SumEmpty
  <2> HIDE DEF Sum
  <2>3. Sum(S \cup {}) = Sum(S)
    BY <2>1, Zenon
  <2> QED BY <2>1, <2>2, <2>3
<1>2. ASSUME NEW U \in SUBSET T, NEW x \in T \ U, U \in P PROVE U \cup {x} \in P
  <2>1. /\ IsFiniteSet(U) /\ IsFiniteSet(S \cup U)
        /\ x \notin S \cup U
        /\ \A y \in (S \cup U) \cup {x} : f[y] \in Int
    BY FS_Subset, FS_Union
  <2>2. Sum(U \cup {x}) = f[x] + Sum(U) /\ Sum((S \cup U) \cup {x}) = f[x] + Sum(S \cup U)
    BY <2>1, SumAdd
  <2>3. (S \cup U) \cup {x} = S \cup (U \cup {x})
    OBVIOUS
  <2>4. f[x] \in Int /\ Sum(S) \in Int /\ Sum(U) \in Int
    BY <2>1, SumType
  <2> HIDE DEF Sum
  <2>5. Sum(S \cup (U \cup {x})) = f[x] + (Sum(S) + Sum(U))
    BY <1>2, <2>2, <2>3, Zenon
  <2> QED BY <2>2, <2>4, <2>5
<1> HIDE DEF P
<1>3. T \in P
  BY <1>1, <1>2, SubsetInduction
<1> QED BY <1>3 DEF P

\* More terms, a greater sum.
LEMMA SumSubset ==
  ASSUME NEW f, NEW S, IsFiniteSet(S), \A x \in S : f[x] \in Nat, NEW T \in SUBSET S
  PROVE  SumFunctionOnSet(f, T) <= SumFunctionOnSet(f, S)
<1>1. IsFiniteSet(T) /\ IsFiniteSet(S \ T) /\ T \cup (S \ T) = S /\ T \cap (S \ T) = {}
  BY FS_Subset
<1>2. SumFunctionOnSet(f, S) = SumFunctionOnSet(f, T) + SumFunctionOnSet(f, S \ T)
  BY <1>1, SumUnion
<1>3. SumFunctionOnSet(f, T) \in Nat /\ SumFunctionOnSet(f, S \ T) \in Nat
  BY <1>1, SumNat
<1> QED BY <1>2, <1>3

\* The same terms under other names.
LEMMA SumRenamed ==
  ASSUME NEW f, NEW g, NEW S, NEW T, IsFiniteSet(S), NEW b \in Bijection(S, T),
         \A x \in S : f[x] \in Int /\ g[b[x]] = f[x]
  PROVE  SumFunctionOnSet(g, T) = SumFunctionOnSet(f, S)
<1> DEFINE Image(U) == {b[x] : x \in U}
           P == {U \in SUBSET S : SumFunctionOnSet(g, Image(U)) = SumFunctionOnSet(f, U)}
<1>b. /\ b \in [S -> T] /\ \A x, y \in S : b[x] = b[y] => x = y
      /\ \A z \in T : \E x \in S : b[x] = z
  BY DEF Bijection, Injection, Surjection, IsInjective
<1>1. {} \in P
  <2>1. Image({}) = {}
    OBVIOUS
  <2> QED BY <2>1, SumEmpty
<1>2. ASSUME NEW U \in SUBSET S, NEW x \in S \ U, U \in P PROVE U \cup {x} \in P
  <2>1. IsFiniteSet(U) /\ Image(U \cup {x}) = Image(U) \cup {b[x]} /\ b[x] \notin Image(U)
    BY <1>b, FS_Subset
  <2>2. IsFiniteSet(Image(U))
    <3>1. [y \in U |-> b[y]] \in Surjection(U, Image(U))
      BY DEF Surjection
    <3> QED BY <2>1, <3>1, FS_Surjection
  <2>3. \A y \in Image(U) \cup {b[x]} : g[y] \in Int
    OBVIOUS
  <2>4. SumFunctionOnSet(g, Image(U) \cup {b[x]}) = g[b[x]] + SumFunctionOnSet(g, Image(U))
    BY <2>1, <2>2, <2>3, SumAdd
  <2>5. SumFunctionOnSet(f, U \cup {x}) = f[x] + SumFunctionOnSet(f, U)
    BY <2>1, SumAdd
  <2> QED BY <1>2, <2>1, <2>4, <2>5
<1>3. S \in P
  <2> HIDE DEF P
  <2> QED BY <1>1, <1>2, SubsetInduction
<1>4. Image(S) = T
  BY <1>b
<1> QED BY <1>3, <1>4

LEMMA SumSame ==
  ASSUME NEW f, NEW g, NEW S, IsFiniteSet(S), \A x \in S : f[x] \in Int /\ g[x] = f[x]
  PROVE  SumFunctionOnSet(g, S) = SumFunctionOnSet(f, S)
<1> DEFINE b == [x \in S |-> x]
<1>1. b \in Bijection(S, S) /\ \A x \in S : g[b[x]] = f[x]
  BY DEF Bijection, Injection, Surjection, IsInjective
<1> QED BY <1>1, SumRenamed

\* One member of the set has one more.
LEMMA SumBump ==
  ASSUME NEW f, NEW g, NEW S, IsFiniteSet(S), NEW i \in S, \A x \in S : f[x] \in Int,
         g[i] = f[i] + 1, \A x \in S \ {i} : g[x] = f[x]
  PROVE  SumFunctionOnSet(g, S) = SumFunctionOnSet(f, S) + 1
<1>1. IsFiniteSet(S \ {i})
  BY FS_Subset
<1>2. SumFunctionOnSet(f, S) = f[i] + SumFunctionOnSet(f, S \ {i})
  BY SumRemove
<1>3. \A x \in S : g[x] \in Int
  OBVIOUS
<1>4. SumFunctionOnSet(g, S) = g[i] + SumFunctionOnSet(g, S \ {i})
  BY ONLY <1>3, SumRemove, IsFiniteSet(S), i \in S
<1>5. \A x \in S \ {i} : f[x] \in Int /\ g[x] = f[x]
  OBVIOUS
<1>6. SumFunctionOnSet(g, S \ {i}) = SumFunctionOnSet(f, S \ {i})
  BY ONLY <1>1, <1>5, SumSame
<1>7. SumFunctionOnSet(f, S \ {i}) \in Int
  BY ONLY <1>1, <1>5, SumType
<1>8. f[i] \in Int
  OBVIOUS
<1> QED BY ONLY <1>2, <1>4, <1>6, <1>7, <1>8, g[i] = f[i] + 1

\* An interval of indices is moved up by one.
LEMMA SumShift ==
  ASSUME NEW f, NEW g, NEW a \in Int, NEW b \in Int, NEW c, NEW d,
         c = a + 1, d = b + 1,
         \A x \in a .. b : f[x] \in Int /\ g[x + 1] = f[x]
  PROVE  SumFunctionOnSet(g, c .. d) = SumFunctionOnSet(f, a .. b)
<1> DEFINE s == [x \in a .. b |-> x + 1]
<1>1. IsFiniteSet(a .. b)
  BY FS_Interval
<1>2. s \in [a .. b -> c .. d]
  OBVIOUS
<1>3. \A x \in a .. b : \A y \in a .. b : s[x] = s[y] => x = y
  OBVIOUS
<1>4. ASSUME NEW z \in c .. d PROVE \E x \in a .. b : s[x] = z
  <2>1. z - 1 \in a .. b
    OBVIOUS
  <2>2. s[z - 1] = z
    BY <2>1
  <2> QED BY <2>1, <2>2
<1>5. \A x \in a .. b : f[x] \in Int /\ g[s[x]] = f[x]
  OBVIOUS
<1> HIDE DEF s
<1>6. s \in Bijection(a .. b, c .. d)
  BY <1>2, <1>3, <1>4 DEF Bijection, Injection, Surjection, IsInjective
<1> QED BY ONLY <1>1, <1>5, <1>6, SumRenamed

\* A sum of ones and zeros counts the ones.
LEMMA SumCounts ==
  ASSUME NEW f, NEW S, IsFiniteSet(S), \A x \in S : f[x] \in {0, 1}
  PROVE  SumFunctionOnSet(f, S) = Cardinality({x \in S : f[x] = 1})
<1> DEFINE Ones(T) == {x \in T : f[x] = 1}
           P == {T \in SUBSET S : SumFunctionOnSet(f, T) = Cardinality(Ones(T))}
<1>1. {} \in P
  <2>1. Ones({}) = {} /\ Cardinality({}) = 0
    BY FS_EmptySet
  <2> QED BY <2>1, SumEmpty
<1>2. ASSUME NEW T \in SUBSET S, NEW x \in S \ T, T \in P PROVE T \cup {x} \in P
  <2>1. IsFiniteSet(T) /\ x \notin T /\ \A y \in T \cup {x} : f[y] \in Int
    BY FS_Subset
  <2>2. SumFunctionOnSet(f, T \cup {x}) = f[x] + SumFunctionOnSet(f, T)
    BY ONLY <2>1, SumAdd
  <2>3. IsFiniteSet(Ones(T)) /\ Cardinality(Ones(T)) \in Nat /\ x \notin Ones(T)
    BY <2>1, FS_Subset, FS_CardinalityType
  <2>4. SumFunctionOnSet(f, T) = Cardinality(Ones(T))
    BY <1>2
  <2>5. CASE f[x] = 0
    <3>1. Ones(T \cup {x}) = Ones(T)
      BY <2>5
    <3>2. SumFunctionOnSet(f, T \cup {x}) = SumFunctionOnSet(f, T)
      BY <2>2, <2>3, <2>4, <2>5
    <3> QED BY <2>4, <3>1, <3>2
  <2>6. CASE f[x] = 1
    <3>1. Ones(T \cup {x}) = Ones(T) \cup {x}
      BY <2>6
    <3>2. Cardinality(Ones(T) \cup {x}) = Cardinality(Ones(T)) + 1
      BY <2>3, FS_AddElement
    <3> QED BY <2>2, <2>3, <2>4, <2>6, <3>1, <3>2
  <2> QED BY <2>5, <2>6
<1>3. S \in P
  <2> HIDE DEF P
  <2> QED BY <1>1, <1>2, SubsetInduction
<1> QED BY <1>3

----------------------------------------------------------------------------
(* Intervals of indices *)

\* Indices that are closed under what comes before them are the first ones.
LEMMA Heads ==
  ASSUME NEW n \in Nat, NEW G \in SUBSET (1 .. n), \A i \in G : \A j \in 1 .. i : j \in G
  PROVE  Cardinality(G) \in 0 .. n /\ G = 1 .. Cardinality(G)
<1> DEFINE Stops == {m \in Nat : m + 1 \notin G}
<1>1. n \in Stops
  OBVIOUS
<1>2. PICK m \in Stops : \A k \in Stops : m <= k
  BY <1>1, LeastNumber
<1>3. m \in Nat /\ m + 1 \notin G /\ m <= n
  BY <1>1, <1>2
<1>4. ASSUME NEW j \in 1 .. m PROVE j \in G
  <2>1. j - 1 \in Nat /\ j - 1 < m /\ (j - 1) + 1 = j
    BY <1>3
  <2>2. j - 1 \notin Stops
    BY <1>2, <1>3, <2>1
  <2> QED BY <2>1, <2>2
<1>5. ASSUME NEW j \in G PROVE j \in 1 .. m
  <2>1. j > m => m + 1 \in 1 .. j
    BY <1>3
  <2> QED BY <1>3, <2>1
<1>6. G = 1 .. m
  BY <1>4, <1>5
<1>7. Cardinality(1 .. m) = m
  BY <1>3, FS_Interval
<1> QED BY <1>3, <1>6, <1>7

----------------------------------------------------------------------------
(* Recursive functions.  A function defined by a recursion is any one that *)
(* satisfies its equation, so that nothing can be said of it before the    *)
(* equation is known to have a solution.                                   *)

\* The value H gives at an argument is in A and depends only on the values at
\* arguments of a smaller measure.
Recursion(H, D, A, m, N) ==
  /\ N \in Nat /\ m \in [D -> 0 .. N]
  /\ \A x \in D : \A f \in [D -> A] : H[<<x, f>>] \in A
  /\ \A x \in D : \A f, g \in [D -> A] :
       (\A y \in D : m[y] < m[x] => f[y] = g[y]) => H[<<x, f>>] = H[<<x, g>>]

\* A recursion has a solution.
LEMMA RecursionHasASolution ==
  ASSUME NEW D, NEW A, NEW N, NEW m, NEW H, A # {}, Recursion(H, D, A, m, N)
  PROVE  \E f \in [D -> A] : \A x \in D : f[x] = H[<<x, f>>]
<1>b. /\ N \in Nat /\ m \in [D -> 0 .. N]
      /\ \A x \in D : \A f \in [D -> A] : H[<<x, f>>] \in A
      /\ \A x \in D : \A f, g \in [D -> A] :
           (\A y \in D : m[y] < m[x] => f[y] = g[y]) => H[<<x, f>>] = H[<<x, g>>]
  BY DEF Recursion
<1> DEFINE Q == {n \in Nat : \E f \in [D -> A] : \A x \in D : m[x] < n => f[x] = H[<<x, f>>]}
<1>a. \A x \in D : m[x] \in Nat /\ m[x] < N + 1
  BY ONLY <1>b
<1>1. 0 \in Q
  <2>1. PICK base : base \in A
    OBVIOUS
  <2>3. [x \in D |-> base] \in [D -> A]
    BY ONLY <2>1
  <2>2. \A x \in D : ~ (m[x] < 0)
    BY ONLY <1>a
  <2> QED BY ONLY <2>3, <2>2 DEF Q
<1>2. ASSUME NEW n \in Nat, n \in Q PROVE n + 1 \in Q
  <2>1. PICK f \in [D -> A] : \A x \in D : m[x] < n => f[x] = H[<<x, f>>]
    BY <1>2
  <2> DEFINE g == [x \in D |-> H[<<x, f>>]]
  <2>2. g \in [D -> A]
    BY <1>b
  <2>3. ASSUME NEW x \in D, m[x] < n + 1 PROVE g[x] = H[<<x, g>>]
    <3>1. \A y \in D : m[y] < m[x] => m[y] < n
      BY ONLY <1>a, <2>3, n \in Nat, x \in D
    <3>2. \A y \in D : m[y] < m[x] => f[y] = g[y]
      BY <2>1, <3>1
    <3>3. g[x] = H[<<x, f>>]
      OBVIOUS
    <3> HIDE DEF g
    <3>4. H[<<x, f>>] = H[<<x, g>>]
      BY <1>b, <2>2, <3>2
    <3> QED BY <3>3, <3>4
  <2> HIDE DEF g
  <2>4. \A x \in D : m[x] < n + 1 => g[x] = H[<<x, g>>]
    BY ONLY <2>3
  <2> QED BY ONLY <2>2, <2>4, n \in Nat DEF Q
<1>3. N + 1 \in Q
  <2> HIDE DEF Q
  <2> QED BY <1>b, <1>1, <1>2, NumberInduction
<1>4. PICK f \in [D -> A] : \A x \in D : m[x] < N + 1 => f[x] = H[<<x, f>>]
  BY ONLY <1>3 DEF Q
<1> QED BY ONLY <1>a, <1>4

\* Each step of a fold takes a value of A and a member of S to a value of A.
Foldable(S, A, base, pick, step) ==
  /\ IsFiniteSet(S) /\ base \in A
  /\ \A s \in SUBSET S : s # {} => pick[s] \in s
  /\ \A x \in S : \A a \in A : step[<<a, x>>] \in A

\* The results of a fold over all subsets of S.
IsFold(it, S, A, base, pick, step) ==
  /\ it \in [SUBSET S -> A]
  /\ \A s \in SUBSET S :
       it[s] = IF s = {} THEN base ELSE step[<<it[s \ {pick[s]}], pick[s]>>]

\* A fold over a finite set has a solution, whatever member it picks each time.
LEMMA FoldHasASolution ==
  ASSUME NEW S, NEW A, NEW base, NEW pick, NEW step, Foldable(S, A, base, pick, step)
  PROVE  \E it : IsFold(it, S, A, base, pick, step)
<1>a. /\ IsFiniteSet(S) /\ base \in A
      /\ \A s \in SUBSET S : s # {} => pick[s] \in s
      /\ \A x \in S : \A a \in A : step[<<a, x>>] \in A
  BY DEF Foldable
<1> DEFINE D == SUBSET S
           m == [s \in D |-> Cardinality(s)]
           H == [p \in D \X [D -> A] |->
                  IF p[1] = {} THEN base
                  ELSE step[<<p[2][p[1] \ {pick[p[1]]}], pick[p[1]]>>]]
<1>1. \A s \in D : IsFiniteSet(s) /\ Cardinality(s) \in 0 .. Cardinality(S)
  BY <1>a, FS_Subset, FS_CardinalityType
<1>2. Cardinality(S) \in Nat /\ m \in [D -> 0 .. Cardinality(S)]
  BY <1>a, <1>1, FS_CardinalityType
<1>3. \A s \in D : \A f \in [D -> A] :
        H[<<s, f>>] = IF s = {} THEN base ELSE step[<<f[s \ {pick[s]}], pick[s]>>]
  OBVIOUS
<1>4. \A s \in D : s # {} => pick[s] \in S /\ s \ {pick[s]} \in D /\ m[s \ {pick[s]}] < m[s]
  <2> SUFFICES ASSUME NEW s \in D, s # {} PROVE m[s \ {pick[s]}] < m[s] /\ pick[s] \in s
    OBVIOUS
  <2>1. pick[s] \in s /\ IsFiniteSet(s)
    BY <1>a, <1>1
  <2>2. Cardinality(s \ {pick[s]}) = Cardinality(s) - 1
    BY <2>1, FS_RemoveElement, Zenon
  <2>3. s \ {pick[s]} \in D /\ Cardinality(s) \in Nat
    BY <1>1
  <2> QED BY <2>1, <2>2, <2>3
<1> HIDE DEF H, m, D
<1>5. \A s \in D : \A f \in [D -> A] : H[<<s, f>>] \in A
  <2> SUFFICES ASSUME NEW s \in D, NEW f \in [D -> A] PROVE H[<<s, f>>] \in A
    OBVIOUS
  <2> QED BY <1>a, <1>3, <1>4
<1>6. ASSUME NEW s \in D, NEW f \in [D -> A], NEW g \in [D -> A],
             \A y \in D : m[y] < m[s] => f[y] = g[y]
      PROVE  H[<<s, f>>] = H[<<s, g>>]
  <2>1. CASE s = {}
    BY <1>3, <2>1
  <2>2. CASE s # {}
    <3>1. f[s \ {pick[s]}] = g[s \ {pick[s]}]
      BY <1>4, <1>6, <2>2
    <3>2. H[<<s, f>>] = step[<<f[s \ {pick[s]}], pick[s]>>]
      BY <1>3, <2>2
    <3>3. H[<<s, g>>] = step[<<g[s \ {pick[s]}], pick[s]>>]
      BY <1>3, <2>2
    <3> QED BY <3>1, <3>2, <3>3
  <2> QED BY <2>1, <2>2
<1>7. \E f \in [D -> A] : \A s \in D : f[s] = H[<<s, f>>]
  <2>1. \A s \in D : \A f, g \in [D -> A] :
          (\A y \in D : m[y] < m[s] => f[y] = g[y]) => H[<<s, f>>] = H[<<s, g>>]
    BY <1>6
  <2> DEFINE N == Cardinality(S)
  <2>2. N \in Nat /\ m \in [D -> 0 .. N]
    BY <1>2
  <2>3. Recursion(H, D, A, m, N)
    BY <1>5, <2>1, <2>2 DEF Recursion
  <2>4. A # {}
    BY <1>a
  <2> HIDE DEF N
  <2> QED BY ONLY <2>3, <2>4, RecursionHasASolution
<1>8. PICK f \in [D -> A] : \A s \in D : f[s] = H[<<s, f>>]
  BY <1>7
<1>9. \A s \in D : f[s] = IF s = {} THEN base ELSE step[<<f[s \ {pick[s]}], pick[s]>>]
  BY <1>3, <1>8
<1> QED BY <1>8, <1>9 DEF D, IsFold

----------------------------------------------------------------------------
(* Ranks *)

\* The pairs P are a strict order of all members of S.
Orders(P, S) ==
  /\ \A x \in S : <<x, x>> \notin P
  /\ \A x, y, z \in S : <<x, y>> \in P /\ <<y, z>> \in P => <<x, z>> \in P
  /\ \A x, y \in S : x # y => <<x, y>> \in P \/ <<y, x>> \in P

BelowIn(P, S, x) == {y \in S : <<y, x>> \in P}

\* Of n members of a set each has another rank of those below n, so every
\* rank is had.
LEMMA EveryRank ==
  ASSUME NEW S, IsFiniteSet(S), NEW P, Orders(P, S), NEW k \in 1 .. Cardinality(S)
  PROVE  \E x \in S : Cardinality(BelowIn(P, S, x)) = k - 1
<1> DEFINE Below(x) == {y \in S : <<y, x>> \in P}
           n == Cardinality(S)
           rank == [x \in S |-> Cardinality(Below(x))]
<1>a. /\ \A x \in S : <<x, x>> \notin P
      /\ \A x, y, z \in S : <<x, y>> \in P /\ <<y, z>> \in P => <<x, z>> \in P
      /\ \A x, y \in S : x # y => <<x, y>> \in P \/ <<y, x>> \in P
  BY DEF Orders
<1>1. n \in Nat
  BY FS_CardinalityType
<1>2. \A x \in S : IsFiniteSet(Below(x)) /\ Cardinality(Below(x)) \in Nat
  BY FS_Subset, FS_CardinalityType
<1>3. ASSUME NEW x \in S PROVE rank[x] \in 0 .. n - 1
  <2>1. Below(x) \subseteq S /\ x \in S /\ x \notin Below(x)
    BY <1>a
  <2>2. Cardinality(Below(x)) < n
    <3>1. Below(x) \subseteq S \ {x} /\ IsFiniteSet(S \ {x})
      BY <2>1, FS_Subset
    <3>2. Cardinality(S \ {x}) = n - 1
      BY FS_RemoveElement
    <3>3. Cardinality(Below(x)) <= Cardinality(S \ {x})
      BY <3>1, FS_Subset
    <3> QED BY <1>1, <1>2, <3>2, <3>3
  <2>3. rank[x] = Cardinality(Below(x)) /\ Cardinality(Below(x)) \in Nat
    BY <1>2
  <2> HIDE DEF rank, Below
  <2> QED BY <1>1, <2>2, <2>3
<1>4. ASSUME NEW x \in S, NEW y \in S, <<x, y>> \in P PROVE rank[x] < rank[y]
  <2>1. Below(x) \subseteq Below(y) /\ x \in Below(y) /\ x \notin Below(x)
    BY <1>a, <1>4
  <2>2. Below(x) \subseteq Below(y) \ {x} /\ IsFiniteSet(Below(y) \ {x})
    BY <1>2, <2>1, FS_Subset
  <2>3. Cardinality(Below(y) \ {x}) = Cardinality(Below(y)) - 1
    BY <1>2, <2>1, FS_RemoveElement
  <2>4. Cardinality(Below(x)) <= Cardinality(Below(y) \ {x})
    BY <2>2, FS_Subset
  <2>5. rank[x] = Cardinality(Below(x)) /\ rank[y] = Cardinality(Below(y))
    OBVIOUS
  <2> HIDE DEF Below, rank
  <2> QED BY <1>2, <2>3, <2>4, <2>5
<1>5. \A x, y \in S : rank[x] = rank[y] => x = y
  <2> SUFFICES ASSUME NEW x \in S, NEW y \in S, x # y PROVE rank[x] # rank[y]
    OBVIOUS
  <2>1. rank[x] \in Nat /\ rank[y] \in Nat
    BY <1>2
  <2>2. rank[x] < rank[y] \/ rank[y] < rank[x]
    BY <1>a, <1>4
  <2> QED BY <2>1, <2>2
<1> DEFINE R == {rank[x] : x \in S}
<1>6. rank \in Bijection(S, R)
  BY <1>5 DEF Bijection, Injection, Surjection, IsInjective
<1>7. IsFiniteSet(R) /\ Cardinality(R) = n
  <2> HIDE DEF rank, R
  <2> QED BY <1>6, FS_Bijection DEF ExistsBijection
<1>8. R \subseteq 0 .. n - 1
  BY <1>3
<1>9. IsFiniteSet(0 .. n - 1) /\ Cardinality(0 .. n - 1) = n
  <2> HIDE DEF n
  <2> QED BY <1>1, FS_Interval
<1>10. R = 0 .. n - 1
  <2> HIDE DEF R, n
  <2> QED BY <1>7, <1>8, <1>9, FS_Subset
<1>11. k - 1 \in R
  <2> HIDE DEF R
  <2> QED BY <1>1, <1>10
<1> QED BY <1>11 DEF BelowIn
=============================================================================
