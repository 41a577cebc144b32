--------------------- MODULE PracticeRecording_proofs ---------------------
(***************************************************************************)
(* Proofs about a script, its recordings and their grading, for plans of   *)
(* any length, answers, texts and transcripts of any length and any        *)
(* numbers of voices, requests and recordings.                             *)
(***************************************************************************)
EXTENDS GradingReference, DataTheorems, SequenceTheorems

----------------------------------------------------------------------------
(* Numbers and sequences *)

\* The larger of two numbers.
LEMMA TwoMax == \A a, b \in Int : Max({a, b}) = IF a >= b THEN a ELSE b
<1> TAKE a, b \in Int
<1>1. \E x \in {a, b} : \A y \in {a, b} : x >= y
  OBVIOUS
<1>2. Max({a, b}) \in {a, b} /\ \A y \in {a, b} : Max({a, b}) >= y
  BY <1>1 DEF Max
<1> QED BY <1>2

\* The smaller of two numbers.
LEMMA TwoMin == \A a, b \in Int : Min({a, b}) = IF a <= b THEN a ELSE b
<1> TAKE a, b \in Int
<1>1. \E x \in {a, b} : \A y \in {a, b} : x <= y
  OBVIOUS
<1>2. Min({a, b}) \in {a, b} /\ \A y \in {a, b} : Min({a, b}) <= y
  BY <1>1 DEF Min
<1> QED BY <1>2

\* The smallest of three numbers.
LEMMA ThreeMin ==
  \A a, b, c \in Int : /\ Min({a, b, c}) \in {a, b, c}
                       /\ Min({a, b, c}) <= a /\ Min({a, b, c}) <= b /\ Min({a, b, c}) <= c
<1> TAKE a, b, c \in Int
<1>1. \E x \in {a, b, c} : \A y \in {a, b, c} : x <= y
  OBVIOUS
<1>2. Min({a, b, c}) \in {a, b, c} /\ \A y \in {a, b, c} : Min({a, b, c}) <= y
  BY <1>1 DEF Min
<1> QED BY <1>2

\* A set of numbers up to n has a largest member.
LEMMA MaxIn ==
  ASSUME NEW n \in Nat, NEW s \in SUBSET (1 .. n), s # {}
  PROVE  Max(s) \in s /\ \A x \in s : Max(s) >= x
<1> DEFINE Left == {n - x : x \in s}
<1>0. \A x \in s : x \in 1 .. n /\ n - x \in Nat
  OBVIOUS
<1>1. Left \subseteq Nat /\ Left # {}
  BY <1>0
<1>2. PICK l \in Left : \A k \in Left : l <= k
  BY <1>1, LeastNumber
<1>3. PICK x \in s : l = n - x
  BY <1>2
<1>4. \A y \in s : x >= y
  <2> SUFFICES ASSUME NEW y \in s PROVE x >= y
    OBVIOUS
  <2>1. l <= n - y
    BY <1>2
  <2> QED BY <1>0, <1>3, <2>1
<1> QED BY <1>4 DEF Max

\* The largest of the first n numbers.
LEMMA MaxOfFirst == \A n \in Nat \ {0} : Max(1 .. n) = n
<1> TAKE n \in Nat \ {0}
<1>1. n \in 1 .. n /\ 1 .. n \in SUBSET (1 .. n) /\ 1 .. n # {}
  OBVIOUS
<1>2. Max(1 .. n) \in 1 .. n /\ \A x \in 1 .. n : Max(1 .. n) >= x
  BY <1>1, MaxIn
<1> QED BY <1>1, <1>2

----------------------------------------------------------------------------
(* The edit distance *)

\* The cells of the table for a and b.
Cells(a, b) == (0 .. Len(a)) \X (0 .. Len(b))

\* The equation of the edit distance for the cell p.
DistanceAt(f, a, b, p) ==
  LET i == p[1]
      j == p[2]
  IN IF i = 0 \/ j = 0 THEN i + j
     ELSE Min({f[<<i - 1, j>>] + 1, f[<<i, j - 1>>] + 1,
               f[<<i - 1, j - 1>>] + (IF a[i] = b[j] THEN 0 ELSE 1)})

\* The equation gives a number when the cells it looks at hold numbers.
LEMMA DistanceIsNat ==
  ASSUME NEW a, NEW b, Len(a) \in Nat, Len(b) \in Nat, NEW p \in Cells(a, b), NEW f,
         p[1] > 0 /\ p[2] > 0 => /\ f[<<p[1] - 1, p[2]>>] \in Nat
                                 /\ f[<<p[1], p[2] - 1>>] \in Nat
                                 /\ f[<<p[1] - 1, p[2] - 1>>] \in Nat
  PROVE  DistanceAt(f, a, b, p) \in Nat
<1> DEFINE i == p[1]
           j == p[2]
           x == f[<<i - 1, j>>] + 1
           y == f[<<i, j - 1>>] + 1
           z == f[<<i - 1, j - 1>>] + (IF a[i] = b[j] THEN 0 ELSE 1)
<1>1. i \in Nat /\ j \in Nat
  BY DEF Cells
<1>2. CASE i = 0 \/ j = 0
  BY <1>1, <1>2 DEF DistanceAt
<1>3. CASE i > 0 /\ j > 0
  <2>1. x \in Nat /\ y \in Nat /\ z \in Nat
    BY <1>3
  <2>2. DistanceAt(f, a, b, p) = Min({x, y, z})
    BY <1>1, <1>3 DEF DistanceAt
  <2> HIDE DEF x, y, z
  <2>3. Min({x, y, z}) \in {x, y, z}
    <3>1. x \in Int /\ y \in Int /\ z \in Int
      BY <2>1
    <3> QED BY ONLY <3>1, ThreeMin, Zenon
  <2> QED BY <2>1, <2>2, <2>3
<1> QED BY <1>1, <1>2, <1>3

\* The table has all its cells: dp is the function its definition asks for, since
\* a cell only looks at cells nearer to <<0, 0>>.
LEMMA DistancesSolve ==
  ASSUME NEW a, NEW b, Len(a) \in Nat, Len(b) \in Nat
  PROVE  LET dp == Distances(a, b) IN
         dp = [p \in Cells(a, b) |-> DistanceAt(dp, a, b, p)]
<1> DEFINE D == Cells(a, b)
           m == [p \in D |-> p[1] + p[2]]
           N == Len(a) + Len(b)
           H == [q \in D \X [D -> Nat] |-> DistanceAt(q[2], a, b, q[1])]
<1>1. \A p \in D : \A f \in [D -> Nat] : H[<<p, f>>] = DistanceAt(f, a, b, p)
  OBVIOUS
<1>2. \A p \in D : p = <<p[1], p[2]>> /\ p[1] \in 0 .. Len(a) /\ p[2] \in 0 .. Len(b)
  BY DEF Cells
<1>3. N \in Nat /\ m \in [D -> 0 .. N]
  BY <1>2
<1>4. \A p \in D : p[1] > 0 /\ p[2] > 0 =>
        /\ <<p[1] - 1, p[2]>> \in D /\ m[<<p[1] - 1, p[2]>>] < m[p]
        /\ <<p[1], p[2] - 1>> \in D /\ m[<<p[1], p[2] - 1>>] < m[p]
        /\ <<p[1] - 1, p[2] - 1>> \in D /\ m[<<p[1] - 1, p[2] - 1>>] < m[p]
  BY <1>2 DEF Cells
<1> HIDE DEF D, m, H, N
<1>5. ASSUME NEW p \in D, NEW f \in [D -> Nat] PROVE H[<<p, f>>] \in Nat
  <2>1. p \in Cells(a, b)
    BY DEF D
  <2>2. DistanceAt(f, a, b, p) \in Nat
    BY <1>4, <2>1, DistanceIsNat
  <2> QED BY <1>1, <2>2
<1>6. ASSUME NEW p \in D, NEW f \in [D -> Nat], NEW g \in [D -> Nat],
             \A y \in D : m[y] < m[p] => f[y] = g[y]
      PROVE  H[<<p, f>>] = H[<<p, g>>]
  <2>1. DistanceAt(f, a, b, p) = DistanceAt(g, a, b, p)
    <3>1. CASE p[1] = 0 \/ p[2] = 0
      BY <3>1 DEF DistanceAt
    <3>2. CASE p[1] > 0 /\ p[2] > 0
      <4>1. /\ f[<<p[1] - 1, p[2]>>] = g[<<p[1] - 1, p[2]>>]
            /\ f[<<p[1], p[2] - 1>>] = g[<<p[1], p[2] - 1>>]
            /\ f[<<p[1] - 1, p[2] - 1>>] = g[<<p[1] - 1, p[2] - 1>>]
        BY <1>4, <1>6, <3>2
      <4> QED BY <4>1 DEF DistanceAt
    <3> QED BY <1>2, <3>1, <3>2
  <2> QED BY <1>1, <2>1
<1>7. Recursion(H, D, Nat, m, N)
  BY <1>3, <1>5, <1>6 DEF Recursion
<1>8. PICK f \in [D -> Nat] : \A p \in D : f[p] = H[<<p, f>>]
  <2>1. Nat # {}
    OBVIOUS
  <2> QED BY ONLY <1>7, <2>1, RecursionHasASolution
<1>9. f = [p \in Cells(a, b) |-> DistanceAt(f, a, b, p)]
  BY <1>1, <1>8 DEF D
<1> QED BY <1>9 DEF Distances, DistanceAt, Cells

\* Every cell holds a number, which its equation gives.
LEMMA DistanceOf ==
  ASSUME NEW a, NEW b, Len(a) \in Nat, Len(b) \in Nat
  PROVE  LET dp == Distances(a, b) IN
         /\ dp \in [Cells(a, b) -> Nat]
         /\ \A p \in Cells(a, b) : dp[p] = DistanceAt(dp, a, b, p)
<1> DEFINE dp == Distances(a, b)
           Q == {n \in Nat : \A p \in Cells(a, b) : p[1] + p[2] <= n => dp[p] \in Nat}
<1>1. dp = [p \in Cells(a, b) |-> DistanceAt(dp, a, b, p)]
  BY DistancesSolve
<1> HIDE DEF dp
<1>2. \A p \in Cells(a, b) : dp[p] = DistanceAt(dp, a, b, p)
  BY <1>1
<1>3. \A p \in Cells(a, b) : p = <<p[1], p[2]>> /\ p[1] \in Nat /\ p[2] \in Nat
  BY DEF Cells
<1>4. 0 \in Q
  <2> SUFFICES ASSUME NEW p \in Cells(a, b), p[1] + p[2] <= 0 PROVE dp[p] \in Nat
    OBVIOUS
  <2>1. ~ (p[1] > 0 /\ p[2] > 0)
    BY <1>3
  <2> QED BY <1>2, <2>1, DistanceIsNat
<1>5. ASSUME NEW n \in Nat, n \in Q PROVE n + 1 \in Q
  <2> SUFFICES ASSUME NEW p \in Cells(a, b), p[1] + p[2] <= n + 1 PROVE dp[p] \in Nat
    OBVIOUS
  <2>1. p[1] > 0 /\ p[2] > 0 => /\ dp[<<p[1] - 1, p[2]>>] \in Nat
                                /\ dp[<<p[1], p[2] - 1>>] \in Nat
                                /\ dp[<<p[1] - 1, p[2] - 1>>] \in Nat
    BY <1>3, <1>5 DEF Cells
  <2> QED BY <1>2, <2>1, DistanceIsNat
<1>6. Nat \subseteq Q
  <2> HIDE DEF Q
  <2> QED BY <1>4, <1>5, NumberInduction
<1>7. \A p \in Cells(a, b) : dp[p] \in Nat
  BY <1>3, <1>6
<1> QED BY <1>1, <1>2, <1>7 DEF dp

----------------------------------------------------------------------------
(* The words an alignment spells *)

\* A side of a pair that is a word.
Said(x) == x # ""

\* How many of the first k members of w are words.
WordsBefore(w, k) == Cardinality({l \in 1 .. k : Said(w[l])})

\* A word, or the side of a pair that has none.
MaybeWord == Word \cup {""}

\* The words of w are the first n of the text, each once and in order.
Spells(w, text, n) ==
  /\ w \in Seq(MaybeWord)
  /\ WordsBefore(w, Len(w)) = n
  /\ \A k \in DOMAIN w : Said(w[k]) => text[WordsBefore(w, k - 1) + 1] = w[k]

\* The empty sequence is a sequence of anything.
LEMMA EmptySequence == \A T : <<>> \in Seq(T)
OBVIOUS

\* Another member of the same type.
LEMMA AppendedIn == \A T, s, x : s \in Seq(T) /\ x \in T => Append(s, x) \in Seq(T)
OBVIOUS

\* What Append does.
LEMMA Appended ==
  ASSUME NEW T, NEW s \in Seq(T), NEW x \in T
  PROVE  /\ Append(s, x) \in Seq(T) /\ Len(Append(s, x)) = Len(s) + 1
         /\ DOMAIN Append(s, x) = 1 .. Len(s) + 1
         /\ Append(s, x)[Len(s) + 1] = x
         /\ \A k \in 1 .. Len(s) : Append(s, x)[k] = s[k]
OBVIOUS

\* No words spell the first none of a text.
LEMMA SpellsNothing == ASSUME NEW text PROVE Spells(<<>>, text, 0)
<1>1. {l \in 1 .. 0 : Said(<<>>[l])} = {}
  OBVIOUS
<1>2. WordsBefore(<<>>, 0) = 0
  BY <1>1, FS_EmptySet DEF WordsBefore
<1>3. <<>> \in Seq(MaybeWord) /\ Len(<<>>) = 0 /\ DOMAIN <<>> = {}
  OBVIOUS
<1> QED BY <1>2, <1>3 DEF Spells

\* The next word of the text, or the side of a pair that has none, can be added.
LEMMA SpellsMore ==
  ASSUME NEW w, NEW text, NEW n \in Nat, Spells(w, text, n),
         NEW v \in MaybeWord, Said(v) => text[n + 1] = v
  PROVE  Spells(Append(w, v), text, IF Said(v) THEN n + 1 ELSE n)
<1> DEFINE u == Append(w, v)
           m == Len(w)
<1>0. w \in Seq(MaybeWord)
  BY DEF Spells
<1>1. w \in Seq(MaybeWord) /\ m \in Nat /\ DOMAIN w = 1 .. m
  BY ONLY <1>0 DEF m
<1>2. /\ u \in Seq(MaybeWord) /\ Len(u) = m + 1 /\ u[m + 1] = v
      /\ DOMAIN u = 1 .. m + 1
      /\ \A k \in 1 .. m : u[k] = w[k]
  <2>1. v \in MaybeWord
    OBVIOUS
  <2> QED BY ONLY <1>0, <2>1, Appended DEF u, m
<1> HIDE DEF u, m
<1>3. ASSUME NEW k \in 0 .. m PROVE WordsBefore(u, k) = WordsBefore(w, k)
  <2>1. {l \in 1 .. k : Said(u[l])} = {l \in 1 .. k : Said(w[l])}
    BY <1>1, <1>2
  <2> QED BY <2>1 DEF WordsBefore
<1>4. WordsBefore(u, m + 1) = IF Said(v) THEN n + 1 ELSE n
  <2> DEFINE E == {l \in 1 .. m : Said(u[l])}
             F == {l \in 1 .. m + 1 : Said(u[l])}
  <2>1. IsFiniteSet(1 .. m) /\ IsFiniteSet(E)
    BY <1>1, FS_Interval, FS_Subset
  <2>2. Cardinality(E) = n
    <3>1. WordsBefore(u, m) = n
      BY <1>1, <1>3 DEF Spells, m
    <3> QED BY <3>1 DEF WordsBefore
  <2>3. m + 1 \notin E
    BY <1>1
  <2>4. F = IF Said(v) THEN E \cup {m + 1} ELSE E
    BY <1>1, <1>2
  <2>5. Cardinality(E \cup {m + 1}) = n + 1
    <3> HIDE DEF E
    <3> QED BY <2>1, <2>2, <2>3, FS_AddElement
  <2>6. WordsBefore(u, m + 1) = Cardinality(F)
    BY DEF WordsBefore
  <2> HIDE DEF E, F
  <2> QED BY <2>2, <2>4, <2>5, <2>6
<1>5. ASSUME NEW k \in 1 .. m + 1, Said(u[k]) PROVE text[WordsBefore(u, k - 1) + 1] = u[k]
  <2>1. CASE k \in 1 .. m
    <3>1. k - 1 \in 0 .. m /\ u[k] = w[k] /\ k \in DOMAIN w
      BY <1>1, <1>2, <2>1
    <3> QED BY <1>3, <1>5, <3>1 DEF Spells
  <2>2. CASE k = m + 1
    <3>1. k - 1 = m /\ m \in 0 .. m /\ u[k] = v
      BY <1>1, <1>2, <2>2
    <3>2. WordsBefore(u, k - 1) = n
      BY <1>3, <3>1 DEF Spells, m
    <3> QED BY <1>5, <3>1, <3>2
  <2> QED BY <1>1, <2>1, <2>2
<1>6. Spells(u, text, IF Said(v) THEN n + 1 ELSE n)
  BY <1>2, <1>4, <1>5 DEF Spells
<1> QED BY <1>6 DEF u

----------------------------------------------------------------------------
(* Alignments *)

\* The pairs of an alignment.
Op == {"eq", "sub", "ins", "del"}
AlignedPair == [op : Op, expected : MaybeWord, actual : MaybeWord]

\* The operation of a pair says which sides it has and whether they differ.
WellMade(p) ==
  /\ p.op = "del" <=> ~ Said(p.actual)
  /\ p.op = "ins" <=> ~ Said(p.expected)
  /\ p.op = "eq" <=> p.expected = p.actual

\* The sides of an alignment.
ExpectedSide(al) == [k \in DOMAIN al |-> al[k].expected]
ActualSide(al) == [k \in DOMAIN al |-> al[k].actual]

\* al aligns the first i words of e with the first j words of a, with n errors.
Aligns(al, e, a, i, j, n) ==
  /\ al \in Seq(AlignedPair)
  /\ \A k \in DOMAIN al : WellMade(al[k])
  /\ Spells(ExpectedSide(al), e, i) /\ Spells(ActualSide(al), a, j)
  /\ Errors(al) = n

\* The operation of a pair is op.
IsOp(p, op) == p.op = op

\* One more pair counts for its own operation.
LEMMA CountAppended ==
  ASSUME NEW T, NEW al \in Seq(T), NEW p \in T, NEW op
  PROVE  /\ Count(al, op) \in Nat
         /\ Count(Append(al, p), op) = Count(al, op) + (IF p.op = op THEN 1 ELSE 0)
<1> DEFINE m == Len(al)
           E == {k \in 1 .. m : IsOp(al[k], op)}
           F == {k \in 1 .. m + 1 : IsOp(Append(al, p)[k], op)}
<1>1. m \in Nat /\ DOMAIN al = 1 .. m
  OBVIOUS
<1>2. /\ DOMAIN Append(al, p) = 1 .. m + 1
      /\ Append(al, p)[m + 1] = p /\ \A k \in 1 .. m : Append(al, p)[k] = al[k]
  BY Appended
<1>3. Count(al, op) = Cardinality(E) /\ Count(Append(al, p), op) = Cardinality(F)
  BY <1>1, <1>2 DEF Count, IsOp
<1> HIDE DEF m
<1>4. IsFiniteSet(E) /\ Cardinality(E) \in Nat
  <2>1. IsFiniteSet(1 .. m)
    BY <1>1, FS_Interval
  <2>2. E \in SUBSET (1 .. m)
    OBVIOUS
  <2> HIDE DEF E
  <2> QED BY <2>1, <2>2, FS_Subset, FS_CardinalityType
<1>5. F = IF IsOp(p, op) THEN E \cup {m + 1} ELSE E
  BY <1>1, <1>2
<1>6. m + 1 \notin E
  BY <1>1
<1> HIDE DEF E, F
<1>7. Cardinality(E \cup {m + 1}) = Cardinality(E) + 1
  BY <1>4, <1>6, FS_AddElement
<1>8. CASE IsOp(p, op)
  BY <1>3, <1>4, <1>5, <1>7, <1>8 DEF IsOp
<1>9. CASE ~ IsOp(p, op)
  BY <1>3, <1>4, <1>5, <1>9 DEF IsOp
<1> QED BY <1>8, <1>9

\* One more pair is an error unless its sides are equal.
LEMMA ErrorsAppended ==
  ASSUME NEW al \in Seq(AlignedPair), NEW p \in AlignedPair
  PROVE  /\ Errors(al) \in Nat
         /\ Errors(Append(al, p)) = Errors(al) + (IF p.op = "eq" THEN 0 ELSE 1)
<1>1. \A op \in Op : /\ Count(al, op) \in Nat
                     /\ Count(Append(al, p), op) = Count(al, op) + (IF p.op = op THEN 1 ELSE 0)
  BY CountAppended
<1>2. p.op \in Op
  BY DEF AlignedPair
<1> QED BY <1>1, <1>2, SMTT(30) DEF Errors, Op

\* One more pair adds its sides.
LEMMA SidesAppended ==
  ASSUME NEW al \in Seq(AlignedPair), NEW p \in AlignedPair
  PROVE  /\ ExpectedSide(Append(al, p)) = Append(ExpectedSide(al), p.expected)
         /\ ActualSide(Append(al, p)) = Append(ActualSide(al), p.actual)
         /\ ExpectedSide(al) \in Seq(MaybeWord) /\ ActualSide(al) \in Seq(MaybeWord)
<1> DEFINE m == Len(al)
<1>1. m \in Nat /\ DOMAIN al = 1 .. m /\ \A k \in 1 .. m : al[k] \in AlignedPair
  OBVIOUS
<1>2. /\ DOMAIN Append(al, p) = 1 .. m + 1
      /\ Append(al, p)[m + 1] = p /\ \A k \in 1 .. m : Append(al, p)[k] = al[k]
  BY Appended
<1> HIDE DEF m
<1>3. \A q \in AlignedPair : q.expected \in MaybeWord /\ q.actual \in MaybeWord
  BY DEF AlignedPair
<1>4. /\ ExpectedSide(al) \in Seq(MaybeWord) /\ Len(ExpectedSide(al)) = m
      /\ \A k \in 1 .. m : ExpectedSide(al)[k] = al[k].expected
  BY <1>1, <1>3 DEF ExpectedSide
<1>5. /\ ActualSide(al) \in Seq(MaybeWord) /\ Len(ActualSide(al)) = m
      /\ \A k \in 1 .. m : ActualSide(al)[k] = al[k].actual
  BY <1>1, <1>3 DEF ActualSide
<1>6. ExpectedSide(Append(al, p)) = Append(ExpectedSide(al), p.expected)
  <2>1. ExpectedSide(Append(al, p)) = [k \in 1 .. m + 1 |-> Append(al, p)[k].expected]
    BY <1>2 DEF ExpectedSide
  <2>2. Append(ExpectedSide(al), p.expected)
          = [k \in 1 .. m + 1 |-> IF k = m + 1 THEN p.expected ELSE ExpectedSide(al)[k]]
    BY <1>3, <1>4
  <2> QED BY <1>1, <1>2, <1>4, <2>1, <2>2
<1>7. ActualSide(Append(al, p)) = Append(ActualSide(al), p.actual)
  <2>1. ActualSide(Append(al, p)) = [k \in 1 .. m + 1 |-> Append(al, p)[k].actual]
    BY <1>2 DEF ActualSide
  <2>2. Append(ActualSide(al), p.actual)
          = [k \in 1 .. m + 1 |-> IF k = m + 1 THEN p.actual ELSE ActualSide(al)[k]]
    BY <1>3, <1>5
  <2> QED BY <1>1, <1>2, <1>5, <2>1, <2>2
<1> QED BY <1>4, <1>5, <1>6, <1>7

\* An alignment may be continued with the next word of either text or of both.
LEMMA AlignsMore ==
  ASSUME NEW al, NEW e, NEW a, NEW i \in Nat, NEW j \in Nat, NEW n,
         Aligns(al, e, a, i, j, n), NEW p \in AlignedPair, WellMade(p),
         Said(p.expected) => e[i + 1] = p.expected,
         Said(p.actual) => a[j + 1] = p.actual
  PROVE  Aligns(Append(al, p), e, a, IF Said(p.expected) THEN i + 1 ELSE i,
                IF Said(p.actual) THEN j + 1 ELSE j, IF p.op = "eq" THEN n ELSE n + 1)
<1>1. al \in Seq(AlignedPair) /\ Append(al, p) \in Seq(AlignedPair)
  BY DEF Aligns
<1>2. p.expected \in MaybeWord /\ p.actual \in MaybeWord
  BY DEF AlignedPair
<1>3. Spells(ExpectedSide(Append(al, p)), e, IF Said(p.expected) THEN i + 1 ELSE i)
  BY <1>1, <1>2, SidesAppended, SpellsMore DEF Aligns
<1>4. Spells(ActualSide(Append(al, p)), a, IF Said(p.actual) THEN j + 1 ELSE j)
  BY <1>1, <1>2, SidesAppended, SpellsMore DEF Aligns
<1>5. Errors(Append(al, p)) = IF p.op = "eq" THEN n ELSE n + 1
  BY <1>1, ErrorsAppended DEF Aligns
<1>6. \A k \in DOMAIN Append(al, p) : WellMade(Append(al, p)[k])
  BY <1>1 DEF Aligns
<1> QED BY <1>1, <1>3, <1>4, <1>5, <1>6 DEF Aligns

----------------------------------------------------------------------------
(* The back-trace of align_words *)

\* The three kinds of pairs the back-trace makes.
LeftOut(v) == Pair("del", v, "")
PutIn(w) == Pair("ins", "", w)
Met(v, w) == Pair(IF v = w THEN "eq" ELSE "sub", v, w)

\* The step of the back-trace at the cell p.
AlignedAt(f, dp, e, a, p) ==
  LET i == p[1]
      j == p[2]
  IN IF i = 0 /\ j = 0 THEN <<>>
     ELSE IF i > 0 /\ dp[p] = dp[<<i - 1, j>>] + 1
       THEN Append(f[<<i - 1, j>>], LeftOut(e[i]))
     ELSE IF j > 0 /\ dp[p] = dp[<<i, j - 1>>] + 1
       THEN Append(f[<<i, j - 1>>], PutIn(a[j]))
     ELSE Append(f[<<i - 1, j - 1>>],
                 Met(e[i], a[j]))

\* Where the back-trace stops, goes up, left, or diagonally.
Stops(dp, e, a, i, j) ==
  /\ i = 0 /\ j = 0 /\ dp[<<i, j>>] = 0
  /\ \A f : AlignedAt(f, dp, e, a, <<i, j>>) = <<>>

GoesUp(dp, e, a, i, j) ==
  /\ i > 0 /\ dp[<<i, j>>] = dp[<<i - 1, j>>] + 1
  /\ \A f : AlignedAt(f, dp, e, a, <<i, j>>) = Append(f[<<i - 1, j>>], LeftOut(e[i]))

GoesLeft(dp, e, a, i, j) ==
  /\ j > 0 /\ dp[<<i, j>>] = dp[<<i, j - 1>>] + 1
  /\ \A f : AlignedAt(f, dp, e, a, <<i, j>>) = Append(f[<<i, j - 1>>], PutIn(a[j]))

GoesDiagonally(dp, e, a, i, j) ==
  /\ i > 0 /\ j > 0
  /\ dp[<<i, j>>] = dp[<<i - 1, j - 1>>] + (IF e[i] = a[j] THEN 0 ELSE 1)
  /\ \A f : AlignedAt(f, dp, e, a, <<i, j>>) =
       Append(f[<<i - 1, j - 1>>], Met(e[i], a[j]))

\* dp satisfies the equations of the edit distance.
Counts(dp, a, b) ==
  \A i \in 0 .. Len(a), j \in 0 .. Len(b) :
    /\ dp[<<i, j>>] \in Nat
    /\ i = 0 \/ j = 0 => dp[<<i, j>>] = i + j
    /\ i > 0 /\ j > 0 =>
         dp[<<i, j>>] = Min({dp[<<i - 1, j>>] + 1, dp[<<i, j - 1>>] + 1,
                             dp[<<i - 1, j - 1>>] + (IF a[i] = b[j] THEN 0 ELSE 1)})

\* The table of align_words satisfies the equations.
LEMMA DistancesCount ==
  ASSUME NEW a, NEW b, Len(a) \in Nat, Len(b) \in Nat
  PROVE  Counts(Distances(a, b), a, b)
<1> DEFINE dp == Distances(a, b)
<1> SUFFICES ASSUME NEW i \in 0 .. Len(a), NEW j \in 0 .. Len(b)
             PROVE  /\ dp[<<i, j>>] \in Nat
                    /\ i = 0 \/ j = 0 => dp[<<i, j>>] = i + j
                    /\ i > 0 /\ j > 0 =>
                         dp[<<i, j>>] = Min({dp[<<i - 1, j>>] + 1, dp[<<i, j - 1>>] + 1,
                           dp[<<i - 1, j - 1>>] + (IF a[i] = b[j] THEN 0 ELSE 1)})
  BY DEF Counts
<1>1. <<i, j>> \in Cells(a, b)
  BY DEF Cells
<1>2. dp[<<i, j>>] \in Nat /\ dp[<<i, j>>] = DistanceAt(dp, a, b, <<i, j>>)
  BY <1>1, DistanceOf
<1> QED BY <1>2 DEF DistanceAt

\* At every cell the back-trace stops or one of its three steps explains the
\* distance: there is no cell from which it walks off the table.
LEMMA BackTrace ==
  ASSUME NEW e \in Seq(Word), NEW a \in Seq(Word), NEW i \in 0 .. Len(e), NEW j \in 0 .. Len(a)
  PROVE  LET dp == Distances(e, a) IN
         \/ Stops(dp, e, a, i, j)
         \/ GoesUp(dp, e, a, i, j)
         \/ GoesLeft(dp, e, a, i, j)
         \/ GoesDiagonally(dp, e, a, i, j)
<1> DEFINE dp == Distances(e, a)
<1>1. Len(e) \in Nat /\ Len(a) \in Nat
  OBVIOUS
<1>a. dp = Distances(e, a)
  OBVIOUS
<1> HIDE DEF dp
<1>b. Counts(dp, e, a)
  BY <1>1, <1>a, DistancesCount
<1>2. \A k \in 0 .. Len(e), l \in 0 .. Len(a) :
        /\ dp[<<k, l>>] \in Nat
        /\ k = 0 \/ l = 0 => dp[<<k, l>>] = k + l
  BY <1>b DEF Counts
<1>3. i > 0 /\ j > 0 =>
        dp[<<i, j>>] = Min({dp[<<i - 1, j>>] + 1, dp[<<i, j - 1>>] + 1,
                            dp[<<i - 1, j - 1>>] + (IF e[i] = a[j] THEN 0 ELSE 1)})
  BY <1>b DEF Counts
<1>4. CASE i = 0 /\ j = 0
  <2>1. Stops(dp, e, a, i, j)
    BY <1>2, <1>4 DEF AlignedAt, Stops
  <2> QED BY <2>1 DEF dp
<1>5. CASE i > 0 /\ dp[<<i, j>>] = dp[<<i - 1, j>>] + 1
  <2>1. GoesUp(dp, e, a, i, j)
    BY <1>1, <1>5 DEF AlignedAt, GoesUp
  <2> QED BY <2>1 DEF dp
<1>6. CASE j > 0 /\ dp[<<i, j>>] = dp[<<i, j - 1>>] + 1
           /\ ~ (i > 0 /\ dp[<<i, j>>] = dp[<<i - 1, j>>] + 1)
  <2>1. \A f : AlignedAt(f, dp, e, a, <<i, j>>) = Append(f[<<i, j - 1>>], PutIn(a[j]))
    <3>1. ~ (i = 0 /\ j = 0) /\ ~ (i > 0 /\ dp[<<i, j>>] = dp[<<i - 1, j>>] + 1)
          /\ j > 0 /\ dp[<<i, j>>] = dp[<<i, j - 1>>] + 1
      BY <1>6
    <3> QED BY ONLY <3>1 DEF AlignedAt
  <2>2. GoesLeft(dp, e, a, i, j)
    BY <1>6, <2>1 DEF GoesLeft
  <2> QED BY <2>2 DEF dp
<1>7. CASE /\ ~ (i = 0 /\ j = 0)
           /\ ~ (i > 0 /\ dp[<<i, j>>] = dp[<<i - 1, j>>] + 1)
           /\ ~ (j > 0 /\ dp[<<i, j>>] = dp[<<i, j - 1>>] + 1)
  <2>1. i > 0
    <3>1. i = 0 => j > 0 /\ dp[<<i, j>>] = j /\ dp[<<i, j - 1>>] = j - 1
      BY <1>1, <1>2, <1>7
    <3> QED BY <1>7, <3>1
  <2>2. j > 0
    <3>1. j = 0 => dp[<<i, j>>] = i /\ dp[<<i - 1, j>>] = i - 1
      BY <1>1, <1>2, <2>1
    <3> QED BY <1>7, <2>1, <3>1
  <2> DEFINE x == dp[<<i - 1, j>>] + 1
             y == dp[<<i, j - 1>>] + 1
             z == dp[<<i - 1, j - 1>>] + (IF e[i] = a[j] THEN 0 ELSE 1)
  <2>3. dp[<<i, j>>] = Min({x, y, z})
    BY <1>3, <2>1, <2>2
  <2>4. x \in Int /\ y \in Int /\ z \in Int
    <3>1. i - 1 \in 0 .. Len(e) /\ j - 1 \in 0 .. Len(a)
      BY <1>1, <2>1, <2>2
    <3>2. dp[<<i - 1, j>>] \in Nat /\ dp[<<i, j - 1>>] \in Nat /\ dp[<<i - 1, j - 1>>] \in Nat
      BY <1>2, <3>1
    <3> QED BY <3>2
  <2>5. dp[<<i, j>>] # x /\ dp[<<i, j>>] # y
    BY <1>7, <2>1, <2>2
  <2>6. dp[<<i, j>>] = z
    <3> HIDE DEF x, y, z
    <3>1. Min({x, y, z}) \in {x, y, z}
      BY ONLY <2>4, ThreeMin, Zenon
    <3> QED BY <2>3, <2>5, <3>1
  <2>7. \A f : AlignedAt(f, dp, e, a, <<i, j>>) =
           Append(f[<<i - 1, j - 1>>], Met(e[i], a[j]))
    BY <1>7 DEF AlignedAt
  <2>8. GoesDiagonally(dp, e, a, i, j)
    BY <2>1, <2>2, <2>6, <2>7 DEF GoesDiagonally
  <2> QED BY <2>8 DEF dp
<1> QED BY <1>4, <1>5, <1>6, <1>7

\* The pairs of the back-trace are well made.
LEMMA PairsMade ==
  ASSUME NEW v \in Word, NEW w \in Word
  PROVE  /\ LeftOut(v) \in AlignedPair /\ WellMade(LeftOut(v))
         /\ LeftOut(v).expected = v /\ ~ Said(LeftOut(v).actual) /\ LeftOut(v).op # "eq"
         /\ PutIn(w) \in AlignedPair /\ WellMade(PutIn(w))
         /\ PutIn(w).actual = w /\ ~ Said(PutIn(w).expected) /\ PutIn(w).op # "eq"
         /\ Met(v, w) \in AlignedPair /\ WellMade(Met(v, w))
         /\ Met(v, w).expected = v /\ Met(v, w).actual = w /\ (Met(v, w).op = "eq" <=> v = w)
         /\ Said(v) /\ Said(w)
BY WordAssumption DEF LeftOut, PutIn, Met, Pair, AlignedPair, MaybeWord, Op, WellMade, Said

\* align_words follows the back-trace from every cell.
LEMMA AlignedIsSolved ==
  ASSUME NEW e \in Seq(Word), NEW a \in Seq(Word)
  PROVE  \E f : /\ f = [p \in Cells(e, a) |-> AlignedAt(f, Distances(e, a), e, a, p)]
                /\ AlignWords(e, a) = f[<<Len(e), Len(a)>>]
<1> DEFINE D == Cells(e, a)
           A == Seq(AlignedPair)
           dp == Distances(e, a)
           m == [p \in D |-> p[1] + p[2]]
           N == Len(e) + Len(a)
           H == [q \in D \X [D -> A] |-> AlignedAt(q[2], dp, e, a, q[1])]
<1>1. Len(e) \in Nat /\ Len(a) \in Nat
  OBVIOUS
<1>2. \A p \in D : \A f \in [D -> A] : H[<<p, f>>] = AlignedAt(f, dp, e, a, p)
  OBVIOUS
<1>3. \A p \in D : p = <<p[1], p[2]>> /\ p[1] \in 0 .. Len(e) /\ p[2] \in 0 .. Len(a)
  BY DEF Cells
<1>4. N \in Nat /\ m \in [D -> 0 .. N]
  BY <1>1, <1>3
<1>5. ASSUME NEW i \in 0 .. Len(e), NEW j \in 0 .. Len(a)
      PROVE  /\ <<i, j>> \in D
             /\ i > 0 => <<i - 1, j>> \in D /\ m[<<i - 1, j>>] < m[<<i, j>>]
             /\ j > 0 => <<i, j - 1>> \in D /\ m[<<i, j - 1>>] < m[<<i, j>>]
             /\ i > 0 /\ j > 0 => <<i - 1, j - 1>> \in D /\ m[<<i - 1, j - 1>>] < m[<<i, j>>]
  BY <1>1 DEF Cells
<1>6. ASSUME NEW i \in 0 .. Len(e), NEW j \in 0 .. Len(a)
      PROVE  \/ Stops(dp, e, a, i, j) \/ GoesUp(dp, e, a, i, j)
             \/ GoesLeft(dp, e, a, i, j) \/ GoesDiagonally(dp, e, a, i, j)
  BY BackTrace
<1> HIDE DEF D, m, H, N, dp
<1>7. ASSUME NEW i \in 0 .. Len(e), NEW j \in 0 .. Len(a), NEW f \in [D -> A]
      PROVE  AlignedAt(f, dp, e, a, <<i, j>>) \in A
  <2>1. (i > 0 => e[i] \in Word) /\ (j > 0 => a[j] \in Word)
    BY <1>1
  <2>2. CASE Stops(dp, e, a, i, j)
    BY <2>2, EmptySequence DEF Stops
  <2>3. CASE GoesUp(dp, e, a, i, j)
    <3>1. i > 0 /\ AlignedAt(f, dp, e, a, <<i, j>>) = Append(f[<<i - 1, j>>], LeftOut(e[i]))
      BY <2>3 DEF GoesUp
    <3>2. f[<<i - 1, j>>] \in A /\ LeftOut(e[i]) \in AlignedPair
      BY <1>5, <2>1, <3>1, PairsMade
    <3> QED BY <3>1, <3>2, AppendedIn
  <2>4. CASE GoesLeft(dp, e, a, i, j)
    <3>1. j > 0 /\ AlignedAt(f, dp, e, a, <<i, j>>) = Append(f[<<i, j - 1>>], PutIn(a[j]))
      BY <2>4 DEF GoesLeft
    <3>2. f[<<i, j - 1>>] \in A /\ PutIn(a[j]) \in AlignedPair
      BY <1>5, <2>1, <3>1, PairsMade
    <3> QED BY <3>1, <3>2, AppendedIn
  <2>5. CASE GoesDiagonally(dp, e, a, i, j)
    <3>1. /\ i > 0 /\ j > 0
          /\ AlignedAt(f, dp, e, a, <<i, j>>) = Append(f[<<i - 1, j - 1>>], Met(e[i], a[j]))
      BY <2>5 DEF GoesDiagonally
    <3>2. f[<<i - 1, j - 1>>] \in A /\ Met(e[i], a[j]) \in AlignedPair
      BY <1>5, <2>1, <3>1, PairsMade
    <3> QED BY <3>1, <3>2, AppendedIn
  <2> QED BY <1>6, <2>2, <2>3, <2>4, <2>5
<1>8. ASSUME NEW i \in 0 .. Len(e), NEW j \in 0 .. Len(a),
             NEW f \in [D -> A], NEW g \in [D -> A],
             \A y \in D : m[y] < m[<<i, j>>] => f[y] = g[y]
      PROVE  AlignedAt(f, dp, e, a, <<i, j>>) = AlignedAt(g, dp, e, a, <<i, j>>)
  <2>2. CASE Stops(dp, e, a, i, j)
    BY <2>2 DEF Stops
  <2>3. CASE GoesUp(dp, e, a, i, j)
    <3>1. f[<<i - 1, j>>] = g[<<i - 1, j>>]
      BY <1>5, <1>8, <2>3 DEF GoesUp
    <3> QED BY <2>3, <3>1 DEF GoesUp
  <2>4. CASE GoesLeft(dp, e, a, i, j)
    <3>1. f[<<i, j - 1>>] = g[<<i, j - 1>>]
      BY <1>5, <1>8, <2>4 DEF GoesLeft
    <3> QED BY <2>4, <3>1 DEF GoesLeft
  <2>5. CASE GoesDiagonally(dp, e, a, i, j)
    <3>1. f[<<i - 1, j - 1>>] = g[<<i - 1, j - 1>>]
      BY <1>5, <1>8, <2>5 DEF GoesDiagonally
    <3> QED BY <2>5, <3>1 DEF GoesDiagonally
  <2> QED BY <1>6, <2>2, <2>3, <2>4, <2>5
<1>9. Recursion(H, D, A, m, N)
  <2>1. ASSUME NEW p \in D, NEW f \in [D -> A] PROVE H[<<p, f>>] \in A
    <3>1. PICK i \in 0 .. Len(e), j \in 0 .. Len(a) : p = <<i, j>>
      BY <1>3
    <3>2. AlignedAt(f, dp, e, a, p) \in A
      BY <1>7, <3>1
    <3> QED BY <1>2, <3>2
  <2>2. ASSUME NEW p \in D, NEW f \in [D -> A], NEW g \in [D -> A],
               \A y \in D : m[y] < m[p] => f[y] = g[y]
        PROVE  H[<<p, f>>] = H[<<p, g>>]
    <3>1. PICK i \in 0 .. Len(e), j \in 0 .. Len(a) : p = <<i, j>>
      BY <1>3
    <3>2. AlignedAt(f, dp, e, a, p) = AlignedAt(g, dp, e, a, p)
      BY <1>8, <2>2, <3>1
    <3> QED BY <1>2, <3>2
  <2> HIDE DEF A
  <2> QED BY <1>4, <2>1, <2>2 DEF Recursion
<1>10. PICK f \in [D -> A] : \A p \in D : f[p] = H[<<p, f>>]
  <2>1. A # {}
    BY EmptySequence
  <2> HIDE DEF A
  <2> QED BY ONLY <1>9, <2>1, RecursionHasASolution
<1>11. f = [p \in D |-> AlignedAt(f, dp, e, a, p)]
  BY <1>2, <1>10
<1> DEFINE Solved(g) == g = [p \in D |-> AlignedAt(g, dp, e, a, p)]
<1>12. Solved(CHOOSE g : Solved(g))
  <2>1. Solved(f)
    BY <1>11
  <2> HIDE DEF Solved
  <2> QED BY <2>1
<1>13. AlignWords(e, a) = (CHOOSE g : Solved(g))[<<Len(e), Len(a)>>]
  BY DEF AlignWords, AlignedAt, LeftOut, PutIn, Met, Cells, D, dp
<1> QED BY <1>12, <1>13 DEF D, dp

\* The empty alignment.
LEMMA NothingAligns == ASSUME NEW e, NEW a PROVE Aligns(<<>>, e, a, 0, 0, 0)
<1>1. <<>> \in Seq(AlignedPair) /\ DOMAIN <<>> = {}
  BY EmptySequence
<1>2. ExpectedSide(<<>>) = <<>> /\ ActualSide(<<>>) = <<>>
  BY <1>1 DEF ExpectedSide, ActualSide
<1>3. \A op : Count(<<>>, op) = 0
  BY <1>1, FS_EmptySet DEF Count
<1>4. Errors(<<>>) = 0
  BY <1>3 DEF Errors
<1> QED BY <1>1, <1>2, <1>4, SpellsNothing DEF Aligns

\* align_words aligns the two texts, and the errors it leaves are their distance.
LEMMA AlignWordsAligns ==
  ASSUME NEW e \in Seq(Word), NEW a \in Seq(Word)
  PROVE  Aligns(AlignWords(e, a), e, a, Len(e), Len(a), Distances(e, a)[<<Len(e), Len(a)>>])
<1> DEFINE dp == Distances(e, a)
<1>1. Len(e) \in Nat /\ Len(a) \in Nat
  OBVIOUS
<1>2. PICK f : /\ f = [p \in Cells(e, a) |-> AlignedAt(f, dp, e, a, p)]
               /\ AlignWords(e, a) = f[<<Len(e), Len(a)>>]
  BY AlignedIsSolved
<1>3. ASSUME NEW i \in 0 .. Len(e), NEW j \in 0 .. Len(a)
      PROVE  f[<<i, j>>] = AlignedAt(f, dp, e, a, <<i, j>>)
  <2>1. <<i, j>> \in Cells(e, a)
    BY DEF Cells
  <2> HIDE DEF dp
  <2> QED BY <1>2, <2>1
<1>4. ASSUME NEW i \in 0 .. Len(e), NEW j \in 0 .. Len(a)
      PROVE  \/ Stops(dp, e, a, i, j) \/ GoesUp(dp, e, a, i, j)
             \/ GoesLeft(dp, e, a, i, j) \/ GoesDiagonally(dp, e, a, i, j)
  BY BackTrace
<1>5. Counts(dp, e, a)
  BY <1>1, DistancesCount
<1> HIDE DEF dp
<1> DEFINE Good(i, j) == Aligns(f[<<i, j>>], e, a, i, j, dp[<<i, j>>])
           Q == {n \in Nat : \A i \in 0 .. Len(e), j \in 0 .. Len(a) : i + j < n => Good(i, j)}
<1>6. 0 \in Q
  BY <1>1
<1>7. ASSUME NEW n \in Nat, n \in Q PROVE n + 1 \in Q
  <2> SUFFICES ASSUME NEW i \in 0 .. Len(e), NEW j \in 0 .. Len(a), i + j < n + 1 PROVE Good(i, j)
    OBVIOUS
  <2>1. (i > 0 => e[i] \in Word) /\ (j > 0 => a[j] \in Word)
    BY <1>1
  <2>2. /\ i > 0 => Good(i - 1, j)
        /\ j > 0 => Good(i, j - 1)
        /\ i > 0 /\ j > 0 => Good(i - 1, j - 1)
    <3> HIDE DEF Good
    <3> QED BY <1>1, <1>7
  <2>3. CASE Stops(dp, e, a, i, j)
    BY <1>3, <2>3, NothingAligns DEF Stops
  <2>4. CASE GoesUp(dp, e, a, i, j)
    <3> DEFINE x == f[<<i - 1, j>>]
               p == LeftOut(e[i])
    <3>1. i > 0 /\ f[<<i, j>>] = Append(x, p) /\ dp[<<i, j>>] = dp[<<i - 1, j>>] + 1
      BY <1>3, <2>4 DEF GoesUp
    <3>2. Aligns(x, e, a, i - 1, j, dp[<<i - 1, j>>])
      BY <2>2, <3>1
    <3>3. /\ p \in AlignedPair /\ WellMade(p) /\ p.expected = e[i] /\ ~ Said(p.actual)
          /\ Said(p.expected) /\ p.op # "eq"
      BY <2>1, <3>1, PairsMade
    <3>4. i - 1 \in Nat /\ j \in Nat /\ (i - 1) + 1 = i
      BY <3>1
    <3> HIDE DEF x, p
    <3>5. Aligns(Append(x, p), e, a, (i - 1) + 1, j, dp[<<i - 1, j>>] + 1)
      BY <3>2, <3>3, <3>4, AlignsMore, SMTT(60)
    <3> QED BY <3>1, <3>4, <3>5
  <2>5. CASE GoesLeft(dp, e, a, i, j)
    <3> DEFINE x == f[<<i, j - 1>>]
               p == PutIn(a[j])
    <3>1. j > 0 /\ f[<<i, j>>] = Append(x, p) /\ dp[<<i, j>>] = dp[<<i, j - 1>>] + 1
      BY <1>3, <2>5 DEF GoesLeft
    <3>2. Aligns(x, e, a, i, j - 1, dp[<<i, j - 1>>])
      BY <2>2, <3>1
    <3>3. /\ p \in AlignedPair /\ WellMade(p) /\ p.actual = a[j] /\ ~ Said(p.expected)
          /\ Said(p.actual) /\ p.op # "eq"
      BY <2>1, <3>1, PairsMade
    <3>4. i \in Nat /\ j - 1 \in Nat /\ (j - 1) + 1 = j
      BY <3>1
    <3> HIDE DEF x, p
    <3>5. Aligns(Append(x, p), e, a, i, (j - 1) + 1, dp[<<i, j - 1>>] + 1)
      BY <3>2, <3>3, <3>4, AlignsMore, SMTT(60)
    <3> QED BY <3>1, <3>4, <3>5
  <2>6. CASE GoesDiagonally(dp, e, a, i, j)
    <3> DEFINE x == f[<<i - 1, j - 1>>]
               p == Met(e[i], a[j])
               d == dp[<<i - 1, j - 1>>]
    <3>1. /\ i > 0 /\ j > 0 /\ f[<<i, j>>] = Append(x, p)
          /\ dp[<<i, j>>] = d + (IF e[i] = a[j] THEN 0 ELSE 1)
      BY <1>3, <2>6 DEF GoesDiagonally
    <3>2. Aligns(x, e, a, i - 1, j - 1, d)
      BY <2>2, <3>1
    <3>3. /\ p \in AlignedPair /\ WellMade(p) /\ p.expected = e[i] /\ p.actual = a[j]
          /\ Said(p.expected) /\ Said(p.actual) /\ (p.op = "eq" <=> e[i] = a[j])
      BY <2>1, <3>1, PairsMade
    <3>4. /\ i - 1 \in Nat /\ j - 1 \in Nat /\ (i - 1) + 1 = i /\ (j - 1) + 1 = j
          /\ d \in Nat
      <4>1. i - 1 \in 0 .. Len(e) /\ j - 1 \in 0 .. Len(a)
        BY <1>1, <3>1
      <4>2. d \in Nat
        BY <1>5, <4>1 DEF Counts
      <4> QED BY <3>1, <4>1, <4>2
    <3> HIDE DEF x, p, d
    <3>5. Aligns(Append(x, p), e, a, (i - 1) + 1, (j - 1) + 1, IF p.op = "eq" THEN d ELSE d + 1)
      BY <3>2, <3>3, <3>4, AlignsMore, SMTT(60)
    <3>6. (IF p.op = "eq" THEN d ELSE d + 1) = dp[<<i, j>>]
      BY <3>1, <3>3, <3>4
    <3> QED BY <3>1, <3>4, <3>5, <3>6
  <2> QED BY <1>4, <2>3, <2>4, <2>5, <2>6
<1>8. Nat \subseteq Q
  <2> HIDE DEF Q
  <2> QED BY <1>6, <1>7, NumberInduction
<1>9. Good(Len(e), Len(a))
  <2>1. Len(e) + Len(a) + 1 \in Q
    BY <1>1, <1>8
  <2> HIDE DEF Good
  <2> QED BY <1>1, <2>1
<1> QED BY <1>2, <1>9 DEF dp

----------------------------------------------------------------------------
(* Folds over a sequence *)

\* The choice a fold over a sequence of length n makes.
Latest(n) == [s \in SUBSET (1 .. n) |-> Max(s)]

\* The numbers a fold over a sequence still has to look at.
LEMMA FirstsShrink ==
  ASSUME NEW n \in Nat, NEW k \in 1 .. n
  PROVE  /\ Max(1 .. k) = k /\ (1 .. k) \ {k} = 1 .. k - 1
         /\ 1 .. k # {} /\ 1 .. k \in SUBSET (1 .. n) /\ 1 .. k - 1 \in SUBSET (1 .. n)
BY MaxOfFirst

\* A fold that takes the last member first.
LEMMA LatestIsFoldable ==
  ASSUME NEW n \in Nat, NEW A, NEW base, base \in A, NEW step,
         \A x \in 1 .. n : \A y \in A : step[<<y, x>>] \in A
  PROVE  Foldable(1 .. n, A, base, Latest(n), step)
<1>1. IsFiniteSet(1 .. n)
  BY FS_Interval
<1>2. \A s \in SUBSET (1 .. n) : s # {} => Latest(n)[s] \in s
  BY MaxIn DEF Latest
<1> QED BY <1>1, <1>2 DEF Foldable

----------------------------------------------------------------------------
(* Mispronounced words *)

\* A word read as another that is spelled alike.
Misread(p) ==
  /\ p.expected # "" /\ p.actual # "" /\ p.expected # p.actual
  /\ NearMiss(p.expected, p.actual)

\* The step of mispronounced_words.
Noted(found, p) ==
  IF Misread(p) /\ p.expected \notin Range(found) THEN Append(found, p.expected) ELSE found

\* The step keeps a sequence of words.
LEMMA NotedIn ==
  ASSUME NEW found \in Seq(MaybeWord), NEW p \in AlignedPair
  PROVE  Noted(found, p) \in Seq(MaybeWord)
<1>1. p.expected \in MaybeWord
  BY DEF AlignedPair
<1> QED BY <1>1, AppendedIn DEF Noted

\* MispronouncedWords is what the steps make of the pairs from first to last.
LEMMA MispronouncedSteps ==
  ASSUME NEW al \in Seq(AlignedPair)
  PROVE  \E g : /\ g[0] = <<>>
                /\ \A k \in 1 .. Len(al) : g[k] = Noted(g[k - 1], al[k])
                /\ MispronouncedWords(al) = g[Len(al)]
<1> DEFINE n == Len(al)
           A == Seq(MaybeWord)
           step == [q \in A \X (1 .. n) |-> Noted(q[1], al[q[2]])]
           Solved(it) == it = [s \in SUBSET (1 .. n) |->
                                 IF s = {} THEN <<>> ELSE Noted(it[s \ {Max(s)}], al[Max(s)])]
           sol == CHOOSE it : Solved(it)
           g == [k \in 0 .. n |-> sol[1 .. k]]
<1>1. n \in Nat /\ DOMAIN al = 1 .. n /\ \A k \in 1 .. n : al[k] \in AlignedPair
  OBVIOUS
<1> HIDE DEF n, A
<1>2. \A y \in A : \A x \in 1 .. n : step[<<y, x>>] = Noted(y, al[x])
  OBVIOUS
<1> HIDE DEF step
<1>3. <<>> \in A
  BY EmptySequence DEF A
<1>4. \A x \in 1 .. n : \A y \in A : step[<<y, x>>] \in A
  BY <1>1, <1>2, NotedIn DEF A
<1>5. Foldable(1 .. n, A, <<>>, Latest(n), step)
  BY <1>1, <1>3, <1>4, LatestIsFoldable
<1>6. PICK it : IsFold(it, 1 .. n, A, <<>>, Latest(n), step)
  BY <1>5, FoldHasASolution
<1>7. ASSUME NEW s \in SUBSET (1 .. n)
      PROVE  it[s] = IF s = {} THEN <<>> ELSE Noted(it[s \ {Max(s)}], al[Max(s)])
  <2>1. s # {} => Max(s) \in 1 .. n /\ it[s \ {Max(s)}] \in A /\ Latest(n)[s] = Max(s)
    BY <1>1, <1>6, MaxIn DEF Latest, IsFold
  <2> QED BY <1>2, <1>6, <2>1 DEF IsFold
<1>8. Solved(sol)
  <2>1. Solved(it)
    BY <1>6, <1>7 DEF IsFold
  <2> HIDE DEF Solved
  <2> QED BY <2>1
<1>9. MispronouncedWords(al) = sol[1 .. n]
  BY <1>1 DEF MispronouncedWords, FoldLeft, MapThenFoldSet, Noted, Misread
<1>10. sol[{}] = <<>>
  <2> HIDE DEF sol
  <2> QED BY <1>8
<1>11. ASSUME NEW k \in 1 .. n PROVE sol[1 .. k] = Noted(sol[1 .. k - 1], al[k])
  <2> DEFINE s == 1 .. k
  <2>1. s # {} /\ s \in SUBSET (1 .. n) /\ Max(s) = k /\ s \ {k} = 1 .. k - 1
    BY <1>1, FirstsShrink
  <2> HIDE DEF sol, s
  <2>2. sol[s] = Noted(sol[s \ {k}], al[k])
    BY <1>8, <2>1
  <2> QED BY <2>1, <2>2 DEF s
<1> HIDE DEF sol, Solved
<1>12. g[0] = <<>> /\ g[n] = MispronouncedWords(al)
  <2>1. 1 .. 0 = {}
    OBVIOUS
  <2> QED BY <1>1, <1>9, <1>10, <2>1
<1>13. \A k \in 1 .. n : g[k] = Noted(g[k - 1], al[k])
  BY <1>1, <1>11
<1> HIDE DEF g
<1> QED BY <1>12, <1>13 DEF n

----------------------------------------------------------------------------
(* The entries of the analysis *)

\* The entry of the k-th pair, and the step of the loop that reports or ignores it.
Entry(pairs, k) == [why |-> Reason(pairs, k), pair |-> pairs[k]]

Entered(pairs, reported, entries, k) ==
  IF (Reason(pairs, k) = "near_miss") = reported
  THEN Append(entries, Entry(pairs, k)) ELSE entries

\* Entries is what the steps make of the pairs from first to last.
LEMMA EntriesSteps ==
  ASSUME NEW T, NEW pairs \in Seq(T), NEW reported
  PROVE  \E g : /\ g[0] = <<>>
                /\ \A k \in 1 .. Len(pairs) : g[k] = Entered(pairs, reported, g[k - 1], k)
                /\ Entries(pairs, reported) = g[Len(pairs)]
<1> DEFINE n == Len(pairs)
           E == {Entry(pairs, k) : k \in 1 .. n}
           A == Seq(E)
           step == [q \in A \X (1 .. n) |-> Entered(pairs, reported, q[1], q[2])]
           self == [i \in DOMAIN pairs |-> i]
           Solved(it) == it = [s \in SUBSET DOMAIN self |->
             IF s = {} THEN <<>>
             ELSE Entered(pairs, reported, it[s \ {Max(s)}], self[Max(s)])]
           sol == CHOOSE it : Solved(it)
           g == [k \in 0 .. n |-> sol[1 .. k]]
<1>1. n \in Nat /\ DOMAIN pairs = 1 .. n
  OBVIOUS
<1>2. DOMAIN self = 1 .. n /\ \A k \in 1 .. n : self[k] = k
  BY <1>1
<1>3. \A k \in 1 .. n : Entry(pairs, k) \in E
  OBVIOUS
<1> HIDE DEF n, E, self
<1>4. ASSUME NEW y \in A, NEW x \in 1 .. n PROVE Entered(pairs, reported, y, x) \in A
  <2>1. Append(y, Entry(pairs, x)) \in A
    BY <1>3, AppendedIn
  <2> QED BY <2>1 DEF Entered
<1>5. <<>> \in A
  BY EmptySequence
<1> HIDE DEF A
<1>6. \A y \in A : \A x \in 1 .. n : step[<<y, x>>] = Entered(pairs, reported, y, x)
  OBVIOUS
<1> HIDE DEF step
<1>7. Foldable(1 .. n, A, <<>>, Latest(n), step)
  <2>1. \A x \in 1 .. n : \A y \in A : step[<<y, x>>] \in A
    BY <1>4, <1>6
  <2> QED BY <1>1, <1>5, <2>1, LatestIsFoldable
<1>8. PICK it : IsFold(it, 1 .. n, A, <<>>, Latest(n), step)
  BY <1>7, FoldHasASolution
<1>9. ASSUME NEW s \in SUBSET (1 .. n)
      PROVE  it[s] = IF s = {} THEN <<>>
                     ELSE Entered(pairs, reported, it[s \ {Max(s)}], self[Max(s)])
  <2>1. s # {} => Max(s) \in 1 .. n /\ it[s \ {Max(s)}] \in A /\ Latest(n)[s] = Max(s)
    BY <1>1, <1>8, MaxIn DEF Latest, IsFold
  <2>2. s # {} => self[Max(s)] = Max(s)
    BY <1>2, <2>1
  <2> QED BY <1>6, <1>8, <2>1, <2>2 DEF IsFold
<1>10. Solved(sol)
  <2>1. Solved(it)
    BY <1>2, <1>8, <1>9 DEF IsFold
  <2> HIDE DEF Solved
  <2> QED BY <2>1
<1>11. Entries(pairs, reported) = sol[DOMAIN self]
  BY DEF Entries, FoldLeftDomain, FoldLeft, MapThenFoldSet, Entered, Entry, self
<1>12. sol[{}] = <<>>
  <2> HIDE DEF sol
  <2> QED BY <1>10
<1>13. ASSUME NEW k \in 1 .. n
       PROVE  sol[1 .. k] = Entered(pairs, reported, sol[1 .. k - 1], k)
  <2> DEFINE s == 1 .. k
  <2>1. s # {} /\ s \in SUBSET (1 .. n) /\ Max(s) = k /\ s \ {k} = 1 .. k - 1
    BY <1>1, FirstsShrink
  <2> HIDE DEF sol, s
  <2>2. sol[s] = Entered(pairs, reported, sol[s \ {k}], k)
    BY <1>2, <1>10, <2>1
  <2> QED BY <2>1, <2>2 DEF s
<1> HIDE DEF sol, Solved
<1>14. g[0] = <<>> /\ g[n] = Entries(pairs, reported)
  <2>1. 1 .. 0 = {}
    OBVIOUS
  <2> QED BY <1>1, <1>2, <1>11, <1>12, <2>1
<1>15. \A k \in 1 .. n : g[k] = Entered(pairs, reported, g[k - 1], k)
  BY <1>1, <1>13
<1> HIDE DEF g
<1> QED BY <1>14, <1>15 DEF n

\* The pairs of the analysis are those of the alignment.
LEMMA PairsAligned ==
  ASSUME NEW al \in Seq(AlignedPair), NEW k \in DOMAIN al
  PROVE  /\ DOMAIN AlignedPairs(al) = DOMAIN al
         /\ AlignedPairs(al)[k].op = ClassifyOp(al[k].expected, al[k].actual)
         /\ AlignedPairs(al)[k].expected = al[k].expected
         /\ AlignedPairs(al)[k].actual = al[k].actual
         /\ AlignedPairs(al)[k].expectedIdx = ExpectedIdx(al, k)
         /\ AlignedPairs(al)[k].actualIdx = ActualIdx(al, k)
BY DEF AlignedPairs

\* The operation named in the analysis is the one the alignment counted.
LEMMA OperationsAgree ==
  ASSUME NEW p \in AlignedPair, WellMade(p)
  PROVE  LET op == ClassifyOp(p.expected, p.actual) IN
         /\ op = "match" <=> p.op = "eq"
         /\ op = "substitute" <=> p.op = "sub"
         /\ op = "insert" <=> p.op = "ins"
         /\ op = "delete" <=> p.op = "del"
         /\ op \in {"match", "substitute", "insert", "delete"}
         /\ Misread(p) <=> op = "substitute" /\ NearMiss(p.expected, p.actual)
<1>1. p.op \in Op
  BY DEF AlignedPair
<1> QED BY <1>1 DEF WellMade, Said, ClassifyOp, Op, Misread

\* A pair is reported when it is misread for the first time.
LEMMA ReasonToReport ==
  ASSUME NEW al \in Seq(AlignedPair), \A l \in DOMAIN al : WellMade(al[l]),
         NEW k \in DOMAIN al
  PROVE  (Reason(AlignedPairs(al), k) = "near_miss")
           <=> /\ Misread(al[k])
               /\ ~ \E l \in 1 .. k - 1 : Misread(al[l]) /\ al[l].expected = al[k].expected
<1> DEFINE pairs == AlignedPairs(al)
           Near(l) == pairs[l].op = "substitute" /\ NearMiss(pairs[l].expected, pairs[l].actual)
           seen == \E l \in 1 .. k - 1 : Near(l) /\ pairs[l].expected = pairs[k].expected
<1>1. DOMAIN al = 1 .. Len(al) /\ Len(al) \in Nat
  OBVIOUS
<1>2. ASSUME NEW l \in 1 .. k
      PROVE  /\ l \in DOMAIN al /\ al[l] \in AlignedPair /\ WellMade(al[l])
             /\ pairs[l].expected = al[l].expected
             /\ pairs[l].op = ClassifyOp(al[l].expected, al[l].actual)
             /\ Near(l) <=> Misread(al[l])
  <2>1. l \in DOMAIN al /\ al[l] \in AlignedPair /\ WellMade(al[l])
    BY <1>1
  <2> QED BY <2>1, PairsAligned, OperationsAgree
<1>3. k \in 1 .. k /\ \A l \in 1 .. k - 1 : l \in 1 .. k
  BY <1>1
<1> HIDE DEF pairs
<1>4. Reason(pairs, k) =
        CASE pairs[k].op = "insert" -> "insertion"
          [] pairs[k].op = "delete" -> "deletion"
          [] pairs[k].op = "match" -> "exact_match"
          [] OTHER -> IF ~Near(k) THEN "too_far_from_expected"
                      ELSE IF seen THEN "deduped" ELSE "near_miss"
  BY DEF Reason
<1>5. seen <=> \E l \in 1 .. k - 1 : Misread(al[l]) /\ al[l].expected = al[k].expected
  BY <1>2, <1>3
<1>6. pairs[k].op \in {"match", "substitute", "insert", "delete"}
  BY <1>2, <1>3, OperationsAgree
<1>7. Reason(pairs, k) = "near_miss" <=> Near(k) /\ ~ seen
  <2> HIDE DEF seen
  <2> QED BY <1>4, <1>6
<1> HIDE DEF seen, Near
<1> QED BY <1>2, <1>3, <1>5, <1>7 DEF pairs

\* The entries of all pairs.
EntriesOf(pairs) == {Entry(pairs, k) : k \in DOMAIN pairs}

\* Every pair is in one entry, reported or ignored.
LEMMA EntriesArePairs ==
  ASSUME NEW T, NEW pairs \in Seq(T)
  PROVE  /\ Entries(pairs, TRUE) \in Seq(EntriesOf(pairs))
         /\ Entries(pairs, FALSE) \in Seq(EntriesOf(pairs))
         /\ Len(Entries(pairs, TRUE)) + Len(Entries(pairs, FALSE)) = Len(pairs)
<1> DEFINE n == Len(pairs)
           E == EntriesOf(pairs)
<1>1. n \in Nat /\ DOMAIN pairs = 1 .. n
  OBVIOUS
<1>2. PICK g : /\ g[0] = <<>>
               /\ \A k \in 1 .. n : g[k] = Entered(pairs, TRUE, g[k - 1], k)
               /\ Entries(pairs, TRUE) = g[n]
  BY EntriesSteps
<1>3. PICK h : /\ h[0] = <<>>
               /\ \A k \in 1 .. n : h[k] = Entered(pairs, FALSE, h[k - 1], k)
               /\ Entries(pairs, FALSE) = h[n]
  BY EntriesSteps
<1>4. \A k \in 1 .. n : Entry(pairs, k) \in E
  BY <1>1 DEF EntriesOf
<1> HIDE DEF n, E
<1> DEFINE Good(k) == /\ g[k] \in Seq(E) /\ h[k] \in Seq(E)
                      /\ Len(g[k]) + Len(h[k]) = k
           Q == {k \in Nat : k <= n => Good(k)}
<1>5. 0 \in Q
  <2>1. <<>> \in Seq(E) /\ Len(<<>>) + Len(<<>>) = 0
    BY EmptySequence
  <2>2. Good(0)
    BY <1>2, <1>3, <2>1
  <2> HIDE DEF Good
  <2> QED BY <2>2
<1>6. ASSUME NEW k \in Nat, k \in Q PROVE k + 1 \in Q
  <2> HIDE DEF Good
  <2> SUFFICES ASSUME k + 1 <= n PROVE Good(k + 1)
    OBVIOUS
  <2>1. k + 1 \in 1 .. n /\ (k + 1) - 1 = k /\ k <= n
    BY <1>1
  <2>2. /\ g[k + 1] = Entered(pairs, TRUE, g[k], k + 1)
        /\ h[k + 1] = Entered(pairs, FALSE, h[k], k + 1)
    BY <1>2, <1>3, <2>1
  <2>0. Good(k)
    BY <1>6, <2>1
  <2>3. g[k] \in Seq(E) /\ h[k] \in Seq(E) /\ Len(g[k]) + Len(h[k]) = k
    BY <2>0 DEF Good
  <2> DEFINE e == Entry(pairs, k + 1)
  <2>4. e \in E
    BY <1>4, <2>1
  <2> HIDE DEF e
  <2>5. \/ g[k + 1] = Append(g[k], e) /\ h[k + 1] = h[k]
        \/ g[k + 1] = g[k] /\ h[k + 1] = Append(h[k], e)
    BY <2>2 DEF Entered, e
  <2>6. \A s \in Seq(E) : /\ Append(s, e) \in Seq(E) /\ Len(s) \in Nat
                          /\ Len(Append(s, e)) = Len(s) + 1
    BY <2>4, Appended
  <2>7. g[k + 1] \in Seq(E) /\ h[k + 1] \in Seq(E)
    BY <2>3, <2>5, <2>6
  <2>8. Len(g[k + 1]) + Len(h[k + 1]) = k + 1
    <3>1. Len(g[k]) \in Nat /\ Len(h[k]) \in Nat
      BY <2>3, <2>6
    <3>2. \/ Len(g[k + 1]) = Len(g[k]) + 1 /\ Len(h[k + 1]) = Len(h[k])
          \/ Len(g[k + 1]) = Len(g[k]) /\ Len(h[k + 1]) = Len(h[k]) + 1
      BY <2>3, <2>5, <2>6
    <3>3. Len(g[k]) + Len(h[k]) = k
      BY <2>3
    <3> DEFINE x == Len(g[k])
               y == Len(h[k])
               xx == Len(g[k + 1])
               yy == Len(h[k + 1])
    <3>4. x \in Nat /\ y \in Nat /\ x + y = k /\ ((xx = x + 1 /\ yy = y) \/ (xx = x /\ yy = y + 1))
      BY ONLY <3>1, <3>2, <3>3 DEF x, y, xx, yy
    <3> HIDE DEF x, y, xx, yy
    <3>5. xx + yy = k + 1
      BY ONLY <3>4, k \in Nat
    <3> QED BY <3>5 DEF xx, yy
  <2> QED BY <2>7, <2>8 DEF Good
<1>7. n \in Q
  <2> HIDE DEF Q
  <2> QED BY <1>1, <1>5, <1>6, NumberInduction
<1>8. Good(n)
  <2> HIDE DEF Good
  <2> QED BY <1>1, <1>7
<1> QED BY <1>2, <1>3, <1>8 DEF n, E

\* After k pairs the words found and the entries reported are the same words in
\* the same order, each once: those that were misread so far.
Agree(al, words, entries, k) ==
  /\ words \in Seq(MaybeWord)
  /\ entries \in Seq(EntriesOf(AlignedPairs(al)))
  /\ Len(entries) = Len(words)
  /\ \A i \in 1 .. Len(words) : entries[i].pair.expected = words[i]
  /\ \A i, j \in 1 .. Len(words) : words[i] = words[j] => i = j
  /\ \A v : v \in Range(words) <=> \E l \in 1 .. k : Misread(al[l]) /\ al[l].expected = v

\* The loop over the words and the loop over the entries stay together.
LEMMA AgreeStep ==
  ASSUME NEW al \in Seq(AlignedPair), \A l \in DOMAIN al : WellMade(al[l]),
         NEW k \in Nat, k + 1 \in DOMAIN al, NEW words, NEW entries, Agree(al, words, entries, k)
  PROVE  Agree(al, Noted(words, al[k + 1]),
               Entered(AlignedPairs(al), TRUE, entries, k + 1), k + 1)
<1> DEFINE pairs == AlignedPairs(al)
           p == al[k + 1]
           v == p.expected
           e == Entry(pairs, k + 1)
           m == Len(words)
<1>1. p \in AlignedPair /\ v \in MaybeWord
  <2>1. p \in AlignedPair
    OBVIOUS
  <2> HIDE DEF p
  <2> QED BY <2>1 DEF AlignedPair
<1>2. e \in EntriesOf(pairs) /\ e.pair.expected = v
  BY PairsAligned DEF EntriesOf, Entry
<1>3. Reason(pairs, k + 1) = "near_miss"
        <=> Misread(p) /\ ~ \E l \in 1 .. k : Misread(al[l]) /\ al[l].expected = v
  <2>1. (k + 1) - 1 = k
    OBVIOUS
  <2> QED BY <2>1, ReasonToReport
<1> HIDE DEF pairs, p, v, e
<1>4. /\ words \in Seq(MaybeWord) /\ entries \in Seq(EntriesOf(pairs))
      /\ Len(entries) = m
      /\ \A i \in 1 .. m : entries[i].pair.expected = words[i]
      /\ \A i, j \in 1 .. m : words[i] = words[j] => i = j
      /\ \A u : u \in Range(words) <=> \E l \in 1 .. k : Misread(al[l]) /\ al[l].expected = u
  BY DEF Agree, pairs
<1>5. m \in Nat /\ DOMAIN words = 1 .. m
  BY <1>4
<1>6. Noted(words, p) = IF Misread(p) /\ v \notin Range(words) THEN Append(words, v) ELSE words
  BY DEF Noted, v
<1>7. Entered(pairs, TRUE, entries, k + 1)
        = IF Reason(pairs, k + 1) = "near_miss" THEN Append(entries, e) ELSE entries
  BY DEF Entered, e
<1>8. Reason(pairs, k + 1) = "near_miss" <=> Misread(p) /\ v \notin Range(words)
  BY <1>3, <1>4
<1>9. \A l \in 1 .. k + 1 : l \in 1 .. k \/ l = k + 1
  OBVIOUS
<1>10. CASE Misread(p) /\ v \notin Range(words)
  <2> DEFINE w == Append(words, v)
             h == Append(entries, e)
  <2>1. /\ w \in Seq(MaybeWord) /\ Len(w) = m + 1 /\ DOMAIN w = 1 .. m + 1
        /\ w[m + 1] = v /\ \A i \in 1 .. m : w[i] = words[i]
    BY <1>1, <1>4, Appended
  <2>2. /\ h \in Seq(EntriesOf(pairs)) /\ Len(h) = m + 1
        /\ h[m + 1] = e /\ \A i \in 1 .. m : h[i] = entries[i]
    BY <1>2, <1>4, Appended
  <2> HIDE DEF w, h, m
  <2>a. \A i \in 1 .. m + 1 : i \in 1 .. m \/ i = m + 1
    BY <1>5
  <2>3. \A i \in 1 .. m + 1 : h[i].pair.expected = w[i]
    BY <1>2, <1>4, <2>1, <2>2, <2>a
  <2>4. \A i \in 1 .. m : words[i] \in Range(words)
    BY <1>5 DEF Range
  <2>5. ASSUME NEW i \in 1 .. m + 1, NEW j \in 1 .. m + 1, w[i] = w[j] PROVE i = j
    <3>1. \A l \in 1 .. m : w[l] # v
      BY <1>10, <2>1, <2>4
    <3> QED BY <1>4, <2>1, <2>5, <2>a, <3>1
  <2>6. \A u : u \in Range(w) <=> u \in Range(words) \/ u = v
    BY <1>5, <2>1, <2>a DEF Range
  <2>7. \A u : u \in Range(w) <=> \E l \in 1 .. k + 1 : Misread(al[l]) /\ al[l].expected = u
    <3>1. k + 1 \in 1 .. k + 1 /\ \A l \in 1 .. k : l \in 1 .. k + 1
      OBVIOUS
    <3>2. Misread(al[k + 1]) /\ al[k + 1].expected = v
      BY <1>10 DEF p, v
    <3> QED BY <1>4, <1>9, <2>6, <3>1, <3>2
  <2>8. Agree(al, w, h, k + 1)
    BY <2>1, <2>2, <2>3, <2>5, <2>7 DEF Agree, pairs
  <2> QED BY <1>6, <1>7, <1>8, <1>10, <2>8 DEF pairs, p, w, h
<1>11. CASE ~ (Misread(p) /\ v \notin Range(words))
  <2>1. \A u : (\E l \in 1 .. k + 1 : Misread(al[l]) /\ al[l].expected = u)
                <=> \E l \in 1 .. k : Misread(al[l]) /\ al[l].expected = u
    BY <1>4, <1>9, <1>11 DEF p, v
  <2>2. Agree(al, words, entries, k + 1)
    BY <1>4, <2>1 DEF Agree, pairs
  <2> QED BY <1>6, <1>7, <1>8, <1>11, <2>2 DEF pairs, p
<1> QED BY <1>10, <1>11

\* The two loops find the same words.
LEMMA ReportsTheWords ==
  ASSUME NEW al \in Seq(AlignedPair), \A l \in DOMAIN al : WellMade(al[l])
  PROVE  Agree(al, MispronouncedWords(al), Entries(AlignedPairs(al), TRUE), Len(al))
<1> DEFINE n == Len(al)
           pairs == AlignedPairs(al)
<1>1. n \in Nat /\ DOMAIN al = 1 .. n
  OBVIOUS
<1>2. PICK g : /\ g[0] = <<>>
               /\ \A k \in 1 .. n : g[k] = Noted(g[k - 1], al[k])
               /\ MispronouncedWords(al) = g[n]
  BY MispronouncedSteps
<1>3. pairs \in Seq(Range(pairs)) /\ Len(pairs) = n
  BY <1>1 DEF AlignedPairs, Range
<1>4. PICK h : /\ h[0] = <<>>
               /\ \A k \in 1 .. n : h[k] = Entered(pairs, TRUE, h[k - 1], k)
               /\ Entries(pairs, TRUE) = h[n]
  <2>1. \E h : /\ h[0] = <<>>
               /\ \A k \in 1 .. Len(pairs) : h[k] = Entered(pairs, TRUE, h[k - 1], k)
               /\ Entries(pairs, TRUE) = h[Len(pairs)]
    <3> HIDE DEF pairs
    <3> QED BY <1>3, EntriesSteps
  <2> HIDE DEF pairs
  <2> QED BY <1>3, <2>1
<1> HIDE DEF n, pairs
<1> DEFINE Q == {k \in Nat : k <= n => Agree(al, g[k], h[k], k)}
<1>5. 0 \in Q
  <2>1. Len(<<>>) = 0 /\ Range(<<>>) = {} /\ 1 .. 0 = {}
    BY DEF Range
  <2>2. Agree(al, <<>>, <<>>, 0)
    BY <2>1, EmptySequence DEF Agree
  <2> QED BY <1>2, <1>4, <2>2
<1>6. ASSUME NEW k \in Nat, k \in Q PROVE k + 1 \in Q
  <2> SUFFICES ASSUME k + 1 <= n PROVE Agree(al, g[k + 1], h[k + 1], k + 1)
    OBVIOUS
  <2>1. k + 1 \in 1 .. n /\ (k + 1) - 1 = k /\ k <= n
    BY <1>1
  <2>2. g[k + 1] = Noted(g[k], al[k + 1]) /\ h[k + 1] = Entered(pairs, TRUE, h[k], k + 1)
    BY <1>2, <1>4, <2>1
  <2>3. Agree(al, g[k], h[k], k) /\ k + 1 \in DOMAIN al
    BY <1>1, <1>6, <2>1
  <2> QED BY <2>2, <2>3, AgreeStep DEF pairs
<1>7. n \in Q
  <2> HIDE DEF Q
  <2> QED BY <1>1, <1>5, <1>6, NumberInduction
<1>8. Agree(al, g[n], h[n], n)
  BY <1>1, <1>7
<1> QED BY <1>2, <1>4, <1>8 DEF n, pairs

----------------------------------------------------------------------------
(* The order of the reported words *)

\* Entries that are in the order of their words are left as they are.
LEMMA InOrderIsKept ==
  ASSUME NEW T, NEW entries \in Seq(T), NEW words \in Seq(MaybeWord),
         Len(entries) = Len(words),
         \A i \in 1 .. Len(words) : entries[i].pair.expected = words[i],
         \A i, j \in 1 .. Len(words) : words[i] = words[j] => i = j
  PROVE  InOrderOf(words, entries) = entries
<1> DEFINE n == Len(words)
           Place(i) == SelectInSeq(words, LAMBDA w : w = entries[i].pair.expected)
           Before(x) == {y \in DOMAIN entries :
                           Place(y) < Place(x) \/ (Place(y) = Place(x) /\ y < x)}
           Ranked(k) == CHOOSE x \in DOMAIN entries : Cardinality(Before(x)) = k - 1
           order == [k \in 1 .. Cardinality(DOMAIN entries) |-> Ranked(k)]
<1>1. n \in Nat /\ DOMAIN entries = 1 .. n /\ DOMAIN words = 1 .. n
  OBVIOUS
<1>2. entries = [k \in 1 .. n |-> entries[k]]
  OBVIOUS
<1>3. ASSUME NEW i \in 1 .. n PROVE Place(i) = i
  <2>1. {k \in 1 .. n : words[k] = entries[i].pair.expected} = {i}
    BY <1>1
  <2>2. Place(i) = Min({i})
    BY <2>1 DEF SelectInSeq
  <2>3. Min({i}) = i
    BY DEF Min
  <2> HIDE DEF Place
  <2> QED BY <2>2, <2>3
<1>4. InOrderOf(words, entries) = [k \in DOMAIN entries |-> entries[order[k]]]
  BY DEF InOrderOf, Sorted
<1> HIDE DEF n, Place
<1>5. ASSUME NEW x \in 1 .. n PROVE Cardinality(Before(x)) = x - 1
  <2>1. Before(x) = 1 .. x - 1
    BY <1>1, <1>3
  <2>2. x - 1 \in Nat /\ 1 \in Int
    BY <1>1
  <2>3. Cardinality(1 .. x - 1) = x - 1
    BY <1>1, FS_Interval
  <2> HIDE DEF Before
  <2> QED BY <2>1, <2>3
<1>6. Cardinality(DOMAIN entries) = n
  <2>1. Cardinality(1 .. n) = n
    BY <1>1, FS_Interval
  <2> QED BY <1>1, <2>1
<1> HIDE DEF Before
<1>7. ASSUME NEW k \in 1 .. n PROVE order[k] = k
  <2>1. \A x \in 1 .. n : Cardinality(Before(x)) = k - 1 <=> x = k
    BY <1>1, <1>5
  <2>2. Ranked(k) = k
    BY <1>1, <2>1
  <2> HIDE DEF Ranked
  <2> QED BY <1>6, <2>2
<1> HIDE DEF order
<1> QED BY <1>1, <1>2, <1>4, <1>7

----------------------------------------------------------------------------
(* The analysis *)

\* The members of a finite set with a property and those without it.
LEMMA Split ==
  ASSUME NEW S, IsFiniteSet(S), NEW P \in SUBSET S
  PROVE  /\ IsFiniteSet(P) /\ Cardinality(P) \in Nat
         /\ Cardinality(S \ P) = Cardinality(S) - Cardinality(P)
<1>1. IsFiniteSet(P) /\ IsFiniteSet(S \ P) /\ P \cap (S \ P) = {} /\ P \cup (S \ P) = S
  BY FS_Subset
<1>2. Cardinality(P \cap (S \ P)) = 0
  BY <1>1, FS_EmptySet
<1>3. /\ Cardinality(P \cup (S \ P))
           = Cardinality(P) + Cardinality(S \ P) - Cardinality(P \cap (S \ P))
      /\ Cardinality(P) \in Nat /\ Cardinality(S \ P) \in Nat
  BY <1>1, FS_Union, FS_CardinalityType
<1>4. Cardinality(S) = Cardinality(P) + Cardinality(S \ P) - Cardinality(P \cap (S \ P))
  BY <1>1, <1>3
<1>5. Cardinality(S) = Cardinality(P) + Cardinality(S \ P)
  BY <1>2, <1>3, <1>4
<1> QED BY <1>1, <1>3, <1>5

\* The words of an alignment's expected side are those that are not put in.
LEMMA WordsAreCounted ==
  ASSUME NEW al \in Seq(AlignedPair), \A l \in DOMAIN al : WellMade(al[l])
  PROVE  WordsBefore(ExpectedSide(al), Len(al))
           = Count(al, "eq") + Count(al, "sub") + Count(al, "del")
<1> DEFINE n == Len(al)
           Of(op) == {k \in DOMAIN al : al[k].op = op}
           W == {k \in DOMAIN al : Said(al[k].expected)}
<1>1. n \in Nat /\ DOMAIN al = 1 .. n
  OBVIOUS
<1>2. \A k \in DOMAIN al : al[k].op \in Op /\ (al[k].op = "ins" <=> ~ Said(al[k].expected))
  <2> SUFFICES ASSUME NEW k \in DOMAIN al
               PROVE  al[k].op \in Op /\ (al[k].op = "ins" <=> ~ Said(al[k].expected))
    OBVIOUS
  <2>1. al[k] \in AlignedPair /\ WellMade(al[k])
    OBVIOUS
  <2> QED BY <2>1 DEF AlignedPair, WellMade
<1>3. WordsBefore(ExpectedSide(al), n) = Cardinality(W)
  <2>1. W = {l \in 1 .. n : Said(ExpectedSide(al)[l])}
    BY <1>1 DEF ExpectedSide
  <2> QED BY <2>1 DEF WordsBefore
<1>4. IsFiniteSet(DOMAIN al)
  BY <1>1, FS_Interval
<1>5. IsFiniteSet(W)
  BY <1>4, FS_Subset
<1>6. /\ Of("eq") \in SUBSET W
      /\ Of("sub") \in SUBSET (W \ Of("eq"))
      /\ Of("del") = (W \ Of("eq")) \ Of("sub")
  BY <1>2 DEF Op
<1>7. Count(al, "eq") = Cardinality(Of("eq")) /\ Count(al, "sub") = Cardinality(Of("sub"))
        /\ Count(al, "del") = Cardinality(Of("del"))
  BY DEF Count
<1> HIDE DEF Of, W, n
<1>8. /\ IsFiniteSet(W \ Of("eq")) /\ Cardinality(Of("eq")) \in Nat
      /\ Cardinality(W \ Of("eq")) = Cardinality(W) - Cardinality(Of("eq"))
  BY <1>5, <1>6, Split, FS_Subset
<1>9. /\ Cardinality(Of("sub")) \in Nat
      /\ Cardinality((W \ Of("eq")) \ Of("sub"))
           = Cardinality(W \ Of("eq")) - Cardinality(Of("sub"))
  BY <1>6, <1>8, Split
<1>10. Cardinality(W) \in Nat
  BY <1>5, FS_CardinalityType
<1>11. Cardinality(W) = Count(al, "eq") + Count(al, "sub") + Count(al, "del")
  <2> DEFINE x == Cardinality(Of("eq"))
             y == Cardinality(Of("sub"))
             z == Cardinality(Of("del"))
             u == Cardinality(W \ Of("eq"))
  <2>1. x \in Nat /\ y \in Nat /\ Cardinality(W) \in Nat /\ u = Cardinality(W) - x
    BY <1>8, <1>9, <1>10
  <2>2. z = u - y
    BY <1>6, <1>9
  <2> HIDE DEF x, y, z, u
  <2>3. Cardinality(W) = x + y + z
    BY ONLY <2>1, <2>2
  <2> QED BY <1>7, <2>3 DEF x, y, z
<1> QED BY <1>3, <1>11 DEF n

\* The cursors count the words before a pair.
LEMMA CursorsCount ==
  ASSUME NEW al \in Seq(AlignedPair), NEW k \in DOMAIN al
  PROVE  /\ ExpectedIdx(al, k) = WordsBefore(ExpectedSide(al), k - 1)
         /\ ActualIdx(al, k) = WordsBefore(ActualSide(al), k - 1)
<1>1. DOMAIN al = 1 .. Len(al) /\ Len(al) \in Nat /\ k \in 1 .. Len(al)
  OBVIOUS
<1>2. \A l \in 1 .. k - 1 : l \in DOMAIN al
  BY <1>1
<1>3. /\ {l \in 1 .. k - 1 : al[l].expected # ""} = {l \in 1 .. k - 1 : Said(ExpectedSide(al)[l])}
      /\ {l \in 1 .. k - 1 : al[l].actual # ""} = {l \in 1 .. k - 1 : Said(ActualSide(al)[l])}
  BY <1>2 DEF Said, ExpectedSide, ActualSide
<1> QED BY <1>3 DEF ExpectedIdx, ActualIdx, WordsBefore

\* The analysis reports the mispronounced words themselves.
LEMMA ReportedAreTheWords ==
  ASSUME NEW e \in Seq(Word), NEW a \in Seq(Word)
  PROVE  LET al == AlignWords(e, a)
             words == MispronouncedWords(al)
             reported == Entries(AlignedPairs(al), TRUE)
         IN /\ InOrderOf(words, reported) = reported
            /\ [k \in DOMAIN reported |-> reported[k].pair.expected] = words
            /\ Agree(al, words, reported, Len(al))
<1> DEFINE al == AlignWords(e, a)
           words == MispronouncedWords(al)
           pairs == AlignedPairs(al)
           reported == Entries(pairs, TRUE)
<1>1. al \in Seq(AlignedPair) /\ \A k \in DOMAIN al : WellMade(al[k])
  BY AlignWordsAligns DEF Aligns
<1>2. Agree(al, words, reported, Len(al))
  <2> HIDE DEF al
  <2> QED BY <1>1, ReportsTheWords
<1>3. /\ words \in Seq(MaybeWord) /\ reported \in Seq(EntriesOf(pairs))
      /\ Len(reported) = Len(words)
      /\ \A i \in 1 .. Len(words) : reported[i].pair.expected = words[i]
      /\ \A i, j \in 1 .. Len(words) : words[i] = words[j] => i = j
  BY <1>2 DEF Agree
<1> HIDE DEF al, words, pairs, reported
<1>4. InOrderOf(words, reported) = reported
  BY <1>3, InOrderIsKept
<1>5. [k \in DOMAIN reported |-> reported[k].pair.expected] = words
  <2>1. DOMAIN reported = 1 .. Len(words) /\ words = [k \in 1 .. Len(words) |-> words[k]]
    BY <1>3
  <2> QED BY <1>3, <2>1
<1> QED BY <1>2, <1>4, <1>5 DEF al, words, pairs, reported

\* The analysis explains the scores, for every text and every transcript.
LEMMA AnalysisExplains ==
  ASSUME NEW e \in Seq(Word), NEW a \in Seq(Word)
  PROVE  Explains(e, a)
<1> DEFINE al == AlignWords(e, a)
           words == MispronouncedWords(al)
           pairs == AlignedPairs(al)
           reported == Entries(pairs, TRUE)
           ignored == Entries(pairs, FALSE)
           analysis == BuildSpeechAnalysis(e, a, al, words)
           OpCount(op) == Cardinality({k \in DOMAIN pairs : pairs[k].op = op})
<1>1. /\ al \in Seq(AlignedPair) /\ \A k \in DOMAIN al : WellMade(al[k])
      /\ Spells(ExpectedSide(al), e, Len(e)) /\ Spells(ActualSide(al), a, Len(a))
  BY AlignWordsAligns DEF Aligns
<1>2. /\ InOrderOf(words, reported) = reported
      /\ [k \in DOMAIN reported |-> reported[k].pair.expected] = words
  BY ReportedAreTheWords
<1>3. /\ analysis.pairs = pairs /\ analysis.mispronounced = reported
      /\ analysis.ignored = ignored
      /\ analysis.substitutions = Count(al, "sub")
      /\ analysis.insertions = Count(al, "ins")
      /\ analysis.deletions = Count(al, "del")
      /\ analysis.correct = Max({0, Len(e) - Count(al, "sub") - Count(al, "del")})
  BY <1>2 DEF BuildSpeechAnalysis
<1> HIDE DEF al, words
<1>4. ASSUME NEW k \in DOMAIN al
      PROVE  /\ pairs[k].expected = al[k].expected /\ pairs[k].actual = al[k].actual
             /\ pairs[k].expectedIdx = WordsBefore(ExpectedSide(al), k - 1)
             /\ pairs[k].actualIdx = WordsBefore(ActualSide(al), k - 1)
             /\ pairs[k].op = "match" <=> al[k].op = "eq"
             /\ pairs[k].op = "substitute" <=> al[k].op = "sub"
             /\ pairs[k].op = "insert" <=> al[k].op = "ins"
             /\ pairs[k].op = "delete" <=> al[k].op = "del"
  <2>1. al[k] \in AlignedPair /\ WellMade(al[k])
    BY <1>1
  <2> QED BY <1>1, <2>1, PairsAligned, OperationsAgree, CursorsCount
<1>5. DOMAIN pairs = DOMAIN al /\ DOMAIN al = 1 .. Len(al) /\ Len(al) \in Nat
  BY <1>1 DEF AlignedPairs
<1>6. Len(reported) + Len(ignored) = Len(pairs)
  <2>1. pairs \in Seq(Range(pairs))
    BY <1>5 DEF AlignedPairs, Range
  <2> QED BY <2>1, EntriesArePairs
<1> HIDE DEF pairs
<1>7. ASSUME NEW p \in Range(pairs)
      PROVE  /\ p.op # "insert" => e[p.expectedIdx + 1] = p.expected
             /\ p.op # "delete" => a[p.actualIdx + 1] = p.actual
  <2>1. PICK k \in DOMAIN al : p = pairs[k]
    BY <1>5 DEF Range
  <2>2. /\ DOMAIN ExpectedSide(al) = DOMAIN al /\ ExpectedSide(al)[k] = al[k].expected
        /\ DOMAIN ActualSide(al) = DOMAIN al /\ ActualSide(al)[k] = al[k].actual
    BY DEF ExpectedSide, ActualSide
  <2>3. /\ Said(al[k].expected) => e[WordsBefore(ExpectedSide(al), k - 1) + 1] = al[k].expected
        /\ Said(al[k].actual) => a[WordsBefore(ActualSide(al), k - 1) + 1] = al[k].actual
    BY <1>1, <2>2 DEF Spells
  <2>4. (al[k].op = "del" <=> ~ Said(al[k].actual)) /\ (al[k].op = "ins" <=> ~ Said(al[k].expected))
    BY <1>1 DEF WellMade
  <2> QED BY <1>4, <2>1, <2>3, <2>4
<1>8. /\ OpCount("match") = Count(al, "eq") /\ OpCount("substitute") = Count(al, "sub")
      /\ OpCount("insert") = Count(al, "ins") /\ OpCount("delete") = Count(al, "del")
  BY <1>4, <1>5 DEF Count
<1>9. Len(e) = Count(al, "eq") + Count(al, "sub") + Count(al, "del")
  <2>1. Len(ExpectedSide(al)) = Len(al)
    BY <1>5 DEF ExpectedSide
  <2> QED BY <1>1, <2>1, WordsAreCounted DEF Spells
<1>10. /\ Count(al, "eq") \in Nat /\ Count(al, "sub") \in Nat /\ Count(al, "del") \in Nat
  <2>1. \A op : Count(al, op) = Cardinality({k \in 1 .. Len(al) : al[k].op = op})
    BY <1>5 DEF Count
  <2>2. IsFiniteSet(1 .. Len(al))
    BY <1>5, FS_Interval
  <2>3. ASSUME NEW op PROVE Count(al, op) \in Nat
    <3> DEFINE E == {k \in 1 .. Len(al) : al[k].op = op}
    <3>1. E \in SUBSET (1 .. Len(al)) /\ Count(al, op) = Cardinality(E)
      BY <2>1
    <3> HIDE DEF E
    <3> QED BY <2>2, <3>1, FS_Subset, FS_CardinalityType
  <2> QED BY <2>3
<1>11. Max({0, Len(e) - Count(al, "sub") - Count(al, "del")}) = Count(al, "eq")
  <2>1. Len(e) - Count(al, "sub") - Count(al, "del") = Count(al, "eq")
    BY <1>9, <1>10
  <2>2. Max({0, Count(al, "eq")}) = Count(al, "eq")
    <3>1. \A c \in Nat : Max({0, c}) = c
      BY TwoMax
    <3> QED BY <1>10, <3>1
  <2> QED BY <2>1, <2>2
<1> HIDE DEF reported, ignored, analysis
<1>12. /\ [k \in DOMAIN analysis.mispronounced |->
             analysis.mispronounced[k].pair.expected] = words
       /\ Len(analysis.mispronounced) + Len(analysis.ignored) = Len(analysis.pairs)
       /\ analysis.correct = OpCount("match")
       /\ analysis.substitutions = OpCount("substitute")
       /\ analysis.insertions = OpCount("insert")
       /\ analysis.deletions = OpCount("delete")
  BY <1>2, <1>3, <1>6, <1>8, <1>11
<1> QED BY <1>3, <1>7, <1>12 DEF Explains, al, words, analysis

----------------------------------------------------------------------------
(* The words of the text *)

\* The word of a text that a member of a spelling of it is.
LEMMA SpelledIn ==
  ASSUME NEW w, NEW text, NEW n \in Nat, Spells(w, text, n), NEW k \in DOMAIN w, Said(w[k])
  PROVE  WordsBefore(w, k - 1) + 1 \in 1 .. n /\ text[WordsBefore(w, k - 1) + 1] = w[k]
<1> DEFINE m == Len(w)
           E == {l \in 1 .. k - 1 : Said(w[l])}
           F == {l \in 1 .. m : Said(w[l])}
<1>1. m \in Nat /\ DOMAIN w = 1 .. m /\ k \in 1 .. m
  <2>1. w \in Seq(MaybeWord)
    BY DEF Spells
  <2> QED BY <2>1
<1>2. WordsBefore(w, k - 1) = Cardinality(E) /\ Cardinality(F) = n
  BY DEF WordsBefore, Spells
<1> HIDE DEF m
<1>3. IsFiniteSet(F) /\ E \cup {k} \in SUBSET F /\ k \notin E
  <2>1. IsFiniteSet(1 .. m) /\ F \in SUBSET (1 .. m)
    BY <1>1, FS_Interval
  <2>2. IsFiniteSet(F)
    <3> HIDE DEF F
    <3> QED BY <2>1, FS_Subset
  <2> QED BY <1>1, <2>2
<1> HIDE DEF E, F
<1>4. IsFiniteSet(E) /\ IsFiniteSet(E \cup {k}) /\ Cardinality(E \cup {k}) <= Cardinality(F)
  BY <1>3, FS_Subset
<1>5. Cardinality(E \cup {k}) = Cardinality(E) + 1 /\ Cardinality(E) \in Nat
  BY <1>3, <1>4, FS_AddElement, FS_CardinalityType
<1>6. WordsBefore(w, k - 1) + 1 \in 1 .. n
  BY <1>2, <1>4, <1>5
<1> QED BY <1>6 DEF Spells

\* A side of a pair of an alignment that is a word is a word of its text.
LEMMA AlignedWords ==
  ASSUME NEW e \in Seq(Word), NEW a \in Seq(Word), NEW k \in DOMAIN AlignWords(e, a)
  PROVE  LET p == AlignWords(e, a)[k] IN
         /\ p \in AlignedPair /\ WellMade(p)
         /\ Said(p.expected) => p.expected \in Range(e)
         /\ Said(p.actual) => p.actual \in Range(a)
<1> DEFINE al == AlignWords(e, a)
<1>1. /\ al \in Seq(AlignedPair) /\ \A l \in DOMAIN al : WellMade(al[l])
      /\ Spells(ExpectedSide(al), e, Len(e)) /\ Spells(ActualSide(al), a, Len(a))
  BY AlignWordsAligns DEF Aligns
<1>2. Len(e) \in Nat /\ DOMAIN e = 1 .. Len(e) /\ Len(a) \in Nat /\ DOMAIN a = 1 .. Len(a)
  OBVIOUS
<1> HIDE DEF al
<1>3. /\ k \in DOMAIN ExpectedSide(al) /\ ExpectedSide(al)[k] = al[k].expected
      /\ k \in DOMAIN ActualSide(al) /\ ActualSide(al)[k] = al[k].actual
  BY DEF ExpectedSide, ActualSide, al
<1>4. Said(al[k].expected) => al[k].expected \in Range(e)
  <2> SUFFICES ASSUME Said(al[k].expected) PROVE al[k].expected \in Range(e)
    OBVIOUS
  <2>1. \E l \in 1 .. Len(e) : e[l] = al[k].expected
    BY <1>1, <1>2, <1>3, SpelledIn
  <2> QED BY <1>2, <2>1 DEF Range
<1>5. Said(al[k].actual) => al[k].actual \in Range(a)
  <2> SUFFICES ASSUME Said(al[k].actual) PROVE al[k].actual \in Range(a)
    OBVIOUS
  <2>1. \E l \in 1 .. Len(a) : a[l] = al[k].actual
    BY <1>1, <1>2, <1>3, SpelledIn
  <2> QED BY <1>2, <2>1 DEF Range
<1>6. al[k] \in AlignedPair /\ WellMade(al[k])
  <2>1. k \in DOMAIN al
    BY DEF al
  <2> QED BY <1>1, <2>1
<1> QED BY <1>4, <1>5, <1>6 DEF al

\* The mispronounced words are words of the text, at most as many as the errors.
LEMMA MispronouncedAreRead ==
  ASSUME NEW e \in Seq(Word), NEW a \in Seq(Word)
  PROVE  LET words == MispronouncedWords(AlignWords(e, a)) IN
         words \in Seq(Word) /\ Range(words) \subseteq Range(e)
<1> DEFINE al == AlignWords(e, a)
           words == MispronouncedWords(al)
<1>1. Agree(al, words, Entries(AlignedPairs(al), TRUE), Len(al))
  BY ReportedAreTheWords
<1>2. al \in Seq(AlignedPair)
  BY AlignWordsAligns DEF Aligns
<1>3. DOMAIN al = 1 .. Len(al)
  BY <1>2
<1>4. words \in Seq(MaybeWord)
      /\ \A v : v \in Range(words) <=> \E l \in 1 .. Len(al) : Misread(al[l]) /\ al[l].expected = v
  BY <1>1 DEF Agree
<1>5. \A l \in DOMAIN al : Misread(al[l]) => al[l].expected \in Range(e)
  BY AlignedWords DEF Misread, Said
<1>6. Range(words) \subseteq Range(e)
  <2> HIDE DEF al, words
  <2> QED BY <1>3, <1>4, <1>5
<1>7. Range(e) \subseteq Word
  BY DEF Range
<1>8. words \in Seq(Word)
  <2> HIDE DEF words
  <2>1. Range(words) \subseteq Word
    BY <1>6, <1>7
  <2> QED BY <1>4, <2>1, SeqOfRange, SeqMonotonic
<1> QED BY <1>6, <1>8

----------------------------------------------------------------------------
(* Scores *)

\* A score is between 0 and 100.
LEMMA ClampIn == \A v \in Int : Clamp(v) \in 0 .. 100
<1> TAKE v \in Int
<1>1. Min({100, v}) \in Int /\ Min({100, v}) <= 100
  BY TwoMin
<1> DEFINE m == Min({100, v})
<1>2. Max({0, m}) \in 0 .. 100
  <2> HIDE DEF m
  <2>1. m \in Int /\ m <= 100
    BY <1>1 DEF m
  <2>2. Max({0, m}) = IF 0 >= m THEN 0 ELSE m
    BY <2>1, TwoMax
  <2> QED BY <2>1, <2>2
<1> QED BY <1>2 DEF Clamp

\* The score before it is clamped.
Rounded(n, d) ==
  LET value == 100 * d - n
      below == value \div d
      twice == 2 * (value % d)
  IN IF twice > d \/ (twice = d /\ below % 2 = 1) THEN below + 1 ELSE below

\* A score is its rounded value, clamped.
LEMMA OutOf100In ==
  ASSUME NEW n \in Int, NEW d \in Nat \ {0}
  PROVE  /\ Rounded(n, d) \in Int
         /\ OutOf100(n, d) = Clamp(Rounded(n, d))
         /\ OutOf100(n, d) \in 0 .. 100
<1>1. 100 * d - n \in Int
  OBVIOUS
<1> DEFINE v == 100 * d - n
<1>2. v \div d \in Int
  BY <1>1
<1>3. Rounded(n, d) \in Int
  <2> DEFINE b == v \div d
  <2>1. b \in Int
    BY <1>2
  <2>2. Rounded(n, d) = b \/ Rounded(n, d) = b + 1
    BY DEF Rounded
  <2> HIDE DEF b
  <2> QED BY <2>1, <2>2
<1>4. OutOf100(n, d) = Clamp(Rounded(n, d))
  BY DEF OutOf100, Rounded
<1> QED BY <1>3, <1>4, ClampIn

\* No text has more filler words than words.
LEMMA FillersAreHeard ==
  ASSUME NEW a \in Seq(Word)
  PROVE  CountFillers(a) \in 0 .. Len(a)
<1> DEFINE n == Len(a)
           F == {i \in DOMAIN a : a[i] \in FillerWords}
           Y == {i \in DOMAIN a : /\ a[i] = "you"
                                  /\ i < Len(a) /\ a[i + 1] = "know"}
<1>1. n \in Nat /\ DOMAIN a = 1 .. n
  OBVIOUS
<1>2. F \in SUBSET (1 .. n) /\ Y \in SUBSET (1 .. n) /\ F \cap Y = {}
  BY <1>1 DEF FillerWords
<1>3. CountFillers(a) = Cardinality(F) + Cardinality(Y)
  BY DEF CountFillers
<1> HIDE DEF F, Y, n
<1>4. IsFiniteSet(1 .. n) /\ Cardinality(1 .. n) = n
  BY <1>1, FS_Interval
<1>5. IsFiniteSet(F) /\ IsFiniteSet(Y) /\ F \cup Y \in SUBSET (1 .. n)
  BY <1>2, <1>4, FS_Subset
<1>6. /\ Cardinality(F) \in Nat /\ Cardinality(Y) \in Nat
      /\ Cardinality(F \cup Y) = Cardinality(F) + Cardinality(Y) - Cardinality(F \cap Y)
      /\ Cardinality(F \cap Y) = 0
  BY <1>2, <1>5, FS_Union, FS_CardinalityType, FS_EmptySet
<1>7. Cardinality(F \cup Y) <= n
  BY <1>4, <1>5, FS_Subset
<1> QED BY <1>1, <1>3, <1>6, <1>7 DEF n

\* The numbers compute_scores works with.
LEMMA FiguresOf ==
  ASSUME NEW e \in Seq(Word), NEW a \in Seq(Word), NEW l \in Int
  PROVE  /\ ClampLeniency(l) \in 5 .. 15
         /\ CountFillers(a) \in Nat
         /\ Max({1, Len(e)}) \in Nat \ {0} /\ Max({1, Len(a)}) \in Nat \ {0}
         /\ Errors(AlignWords(e, a)) \in Nat
         /\ Len(MispronouncedWords(AlignWords(e, a))) \in Nat
<1>1. Len(e) \in Nat /\ Len(a) \in Nat
  OBVIOUS
<1>2. ClampLeniency(l) \in 5 .. 15
  <2>1. Min({15, l}) \in Int /\ Min({15, l}) <= 15
    BY TwoMin
  <2> DEFINE m == Min({15, l})
  <2>2. \A k \in Int : k <= 15 => Max({5, k}) \in 5 .. 15
    BY TwoMax
  <2> QED BY <2>1, <2>2 DEF ClampLeniency
<1>3. CountFillers(a) \in Nat
  BY <1>1, FillersAreHeard
<1>4. \A k \in Nat : Max({1, k}) \in Nat \ {0}
  BY TwoMax
<1>5. Errors(AlignWords(e, a)) \in Nat
  <2>1. Errors(AlignWords(e, a)) = Distances(e, a)[<<Len(e), Len(a)>>]
    BY AlignWordsAligns DEF Aligns
  <2>2. Counts(Distances(e, a), e, a)
    BY <1>1, DistancesCount
  <2>3. Distances(e, a)[<<Len(e), Len(a)>>] \in Nat
    <3>1. Len(e) \in 0 .. Len(e) /\ Len(a) \in 0 .. Len(a)
      BY <1>1
    <3> QED BY <2>2, <3>1 DEF Counts
  <2> QED BY <2>1, <2>3
<1>6. Len(MispronouncedWords(AlignWords(e, a))) \in Nat
  <2>1. MispronouncedWords(AlignWords(e, a)) \in Seq(Word)
    BY MispronouncedAreRead
  <2> QED BY <2>1, LenProperties
<1> QED BY <1>1, <1>2, <1>3, <1>4, <1>5, <1>6

\* A product of positive numbers.
LEMMA Products ==
  ASSUME NEW x \in Nat \ {0}, NEW y \in Nat \ {0}
  PROVE  x * y \in Nat \ {0}
OBVIOUS

\* compute_scores gives scores.
LEMMA ScoresAreScores ==
  ASSUME NEW e \in Seq(Word), NEW a \in Seq(Word), NEW l \in Int
  PROVE  ComputeScores(e, a, l) \in Score
<1> DEFINE t == ClampLeniency(l)
           f == CountFillers(a)
           w == Max({1, Len(e)})
           g == Max({1, Len(a)})
           r == Errors(AlignWords(e, a))
           m == Len(MispronouncedWords(AlignWords(e, a)))
<1>1. /\ t \in Nat \ {0} /\ f \in Nat /\ w \in Nat \ {0} /\ g \in Nat \ {0}
      /\ r \in Nat /\ m \in Nat
  <2>1. t \in 5 .. 15 /\ f \in Nat /\ w \in Nat \ {0} /\ g \in Nat \ {0}
        /\ r \in Nat /\ m \in Nat
    BY FiguresOf
  <2> HIDE DEF t, f, w, g, r, m
  <2> QED BY <2>1
<1>2. ComputeScores(e, a, l) =
        [hesitation |-> OutOf100(10 * 140 * f, g * t),
         confidence |-> OutOf100(10 * 110 * r, w * t),
         fluency |-> OutOf100(10 * (80 * f * w + (120 * m + 40 * r) * g), g * w * t)]
  BY DEF ComputeScores
<1> HIDE DEF t, f, w, g, r, m
<1>3. g * t \in Nat \ {0} /\ w * t \in Nat \ {0} /\ g * w \in Nat \ {0}
  BY <1>1, Products
<1>4. g * w * t \in Nat \ {0}
  BY <1>1, <1>3, Products
<1>5. OutOf100(10 * 140 * f, g * t) \in 0 .. 100
  BY <1>1, <1>3, OutOf100In, SMTT(30)
<1>6. OutOf100(10 * 110 * r, w * t) \in 0 .. 100
  BY <1>1, <1>3, OutOf100In, SMTT(30)
<1>7. OutOf100(10 * (80 * f * w + (120 * m + 40 * r) * g), g * w * t) \in 0 .. 100
  BY <1>1, <1>4, OutOf100In, SMTT(30)
<1> QED BY <1>2, <1>5, <1>6, <1>7 DEF Score

----------------------------------------------------------------------------
(* The script and the recordings *)

\* An accepted script is what was asked for, has a voice for each turn, and is
\* stored when all of them are done.
ScriptInv ==
  /\ stage \in {"asking", "voicing", "stored", "failed"}
  /\ stage \in {"voicing", "stored"} =>
       /\ script \in Seq(Role) /\ Len(script) = Target
       /\ IsStrictlyAlternating(script) /\ script[Target] = "ai"
       /\ voice \in [1 .. Target -> VoiceState]
  /\ stage = "stored" => \A i \in 1 .. Target : voice[i] = "done"

\* The requests, as far as the recordings go.
Request ==
  [pc : {"idle", "transcribing", "uploading", "updating"}, turn : Turn \cup {Nothing},
   recording : Nat, heard : Seq(Word)]

\* A turn nothing crossed has either no request between upload and update, and
\* the object its score is of, or one, which made the object.
AudioInv ==
  /\ made \in Nat /\ attempt \in [Handler -> Request]
  /\ object \in [Turn -> Nat] /\ graded \in [Turn -> Nat]
  /\ \A h \in Handler : attempt[h].pc # "idle" => attempt[h].turn \in Turn
  /\ \A t \in Turn \ crossed :
       /\ Updating(t) = {} => object[t] = graded[t]
       /\ \A h \in Updating(t) : Updating(t) = {h} /\ object[t] = attempt[h].recording

\* What a valid answer is trimmed to.
LEMMA Trimmed ==
  ASSUME NEW reply \in Reply, Valid(reply)
  PROVE  LET kept == TrimTurns(reply) IN
         /\ kept \in Seq(Role) /\ Len(kept) = Target
         /\ IsStrictlyAlternating(kept) /\ kept[Target] = "ai"
<1> DEFINE kept == TrimTurns(reply)
<1> USE GenerationAssumption
<1>1. PICK n \in 0 .. MaxReply : reply \in [1 .. n -> Item]
  <2>1. reply \in UNION {[1 .. n -> Item] : n \in 0 .. MaxReply}
    BY DEF Reply, Valid, Parses
  <2> QED BY <2>1
<1>2. reply \in Seq(Role) /\ Len(reply) = n
  BY <1>1 DEF Valid, Parses, Item
<1>3. Target \in Nat \ {0} /\ Target >= 5
  BY DEF TurnPlan
<1>4. kept \in Seq(Role) /\ Len(kept) <= Target
  BY <1>2, <1>3 DEF TrimTurns
<1>5. Len(kept) >= Target /\ IsStrictlyAlternating(kept) /\ kept[Len(kept)] = "ai"
  BY DEF Valid
<1>6. Len(kept) = Target
  BY <1>4, <1>5, <1>3
<1> QED BY <1>4, <1>5, <1>6

\* Every step of the generation keeps the script in order.
LEMMA ScriptStep == ScriptInv /\ [Next]_vars => ScriptInv'
<1> SUFFICES ASSUME ScriptInv, [Next]_vars PROVE ScriptInv'
  OBVIOUS
<1> USE GenerationAssumption DEF ScriptInv
<1>1. CASE UNCHANGED generationVars
  BY <1>1 DEF generationVars, IsStrictlyAlternating
<1>2. ASSUME NEW reply \in Reply, Accept(reply) PROVE ScriptInv'
  <2>1. /\ script' \in Seq(Role) /\ Len(script') = Target /\ script'[Target] = "ai"
        /\ IsStrictlyAlternating(script')
    BY <1>2, Trimmed DEF Accept
  <2>2. DOMAIN script' = 1 .. Target
    BY <2>1
  <2>3. voice' \in [1 .. Target -> VoiceState]
    BY <1>2, <2>2 DEF Accept, VoiceState
  <2> QED BY <1>2, <2>1, <2>3 DEF Accept, IsStrictlyAlternating
<1>3. CASE AskFails \/ \E reply \in Reply : Reject(reply)
  BY <1>3 DEF AskFails, Reject
<1>4. ASSUME NEW i \in DOMAIN voice, Speak(i) \/ Voiced(i) \/ MeetQuota(i) PROVE ScriptInv'
  BY <1>4 DEF Speak, Voiced, MeetQuota, IsStrictlyAlternating, VoiceState
<1>5. ASSUME NEW i \in DOMAIN voice, VoiceFails(i) PROVE ScriptInv'
  BY <1>5 DEF VoiceFails
<1>6. CASE Store \/ OtherMeetsQuota
  BY <1>6 DEF Store, OtherMeetsQuota, IsStrictlyAlternating
<1> QED BY <1>1, <1>2, <1>3, <1>4, <1>5, <1>6 DEF Next, Generate, vars

\* Every step of a recording keeps object and score together or crosses the turn.
LEMMA AudioStep == AudioInv /\ [Next]_vars => AudioInv'
<1> SUFFICES ASSUME AudioInv, [Next]_vars PROVE AudioInv'
  OBVIOUS
<1> USE DEF AudioInv, Updating, Request
<1>1. CASE UNCHANGED scoringVars
  BY <1>1 DEF scoringVars
<1>2. ASSUME NEW h \in Handler, NEW t \in Turn, Record(h, t) PROVE AudioInv'
  BY <1>2 DEF Record, Idle
<1>3. ASSUME NEW h \in Handler, Transcribe(h) PROVE AudioInv'
  <2>1. PICK heard \in Heard[attempt[h].turn] :
          attempt' = [attempt EXCEPT ![h].pc = "uploading", ![h].heard = heard]
    BY <1>3 DEF Transcribe
  <2> DEFINE q == [attempt[h] EXCEPT !.pc = "uploading", !.heard = heard]
  <2>2. attempt[h].turn \in Turn /\ attempt[h].pc = "transcribing"
    BY <1>3 DEF Transcribe
  <2>3. q \in Request /\ q.turn = attempt[h].turn /\ q.pc = "uploading"
    <3>1. attempt[h] \in Request /\ heard \in Seq(Word)
      BY <2>2, ScoringAssumption
    <3> HIDE DEF AudioInv, Updating
    <3> QED BY <3>1
  <2>4. attempt' = [attempt EXCEPT ![h] = q]
    BY <2>1
  <2>5. attempt' \in [Handler -> Request]
    BY <2>3, <2>4
  <2>6. \A t \in Turn : Updating(t)' = Updating(t)
    BY <2>2, <2>3, <2>4
  <2>7. \A t \in Turn : \A k \in Updating(t) : k \in Handler /\ attempt'[k] = attempt[k]
    BY <2>2, <2>4
  <2>8. UNCHANGED <<object, made, graded, crossed>>
    BY <1>3 DEF Transcribe
  <2>9. \A k \in Handler : attempt'[k].pc # "idle" => attempt'[k].turn \in Turn
    BY <2>2, <2>3, <2>4
  <2> HIDE DEF Updating, q, Request
  <2> QED BY <2>5, <2>6, <2>7, <2>8, <2>9
<1>4. ASSUME NEW h \in Handler, Upload(h) PROVE AudioInv'
  <2> DEFINE t == attempt[h].turn
             q == [attempt[h] EXCEPT !.pc = "updating"]
  <2>1. attempt[h].pc = "uploading" /\ t \in Turn
    BY <1>4 DEF Upload
  <2>2. q \in Request /\ q.turn = t /\ q.recording = attempt[h].recording /\ q.pc = "updating"
    <3>1. attempt[h] \in Request
      OBVIOUS
    <3> HIDE DEF AudioInv, Updating
    <3> QED BY <3>1
  <2>3. attempt' = [attempt EXCEPT ![h] = q] /\ attempt' \in [Handler -> Request]
    BY <1>4, <2>2 DEF Upload
  <2>4. Updating(t)' = Updating(t) \cup {h} /\ h \notin Updating(t)
    BY <2>1, <2>2, <2>3
  <2>5. \A u \in Turn \ {t} : Updating(u)' = Updating(u)
    BY <2>1, <2>2, <2>3
  <2>6. \A k \in Handler \ {h} : attempt'[k] = attempt[k]
    BY <2>3
  <2>7. /\ object' = [object EXCEPT ![t] = attempt[h].recording]
        /\ crossed' = (IF Updating(t) = {} THEN crossed ELSE crossed \cup {t})
        /\ made' = made /\ graded' = graded
    BY <1>4 DEF Upload
  <2>8. ASSUME NEW u \in Turn \ crossed'
        PROVE  /\ Updating(u)' = {} => object'[u] = graded'[u]
               /\ \A k \in Updating(u)' :
                    Updating(u)' = {k} /\ object'[u] = attempt'[k].recording
    <3>1. CASE u = t
      <4>1. Updating(t) = {} /\ Updating(t)' = {h}
        BY <3>1, <2>4, <2>7
      <4> HIDE DEF Updating
      <4> QED BY <3>1, <4>1, <2>1, <2>2, <2>3, <2>7
    <3>2. CASE u # t
      <4>1. Updating(u)' = Updating(u) /\ h \notin Updating(u) /\ u \notin crossed
        BY <3>2, <2>1, <2>5, <2>7
      <4>2. Updating(u) \subseteq Handler
        OBVIOUS
      <4> HIDE DEF Updating
      <4> QED BY <3>2, <4>1, <4>2, <2>1, <2>6, <2>7
    <3> QED BY <3>1, <3>2
  <2> HIDE DEF Updating, q, Request
  <2> QED BY <2>1, <2>2, <2>3, <2>6, <2>7, <2>8 DEF Request
<1>5. ASSUME NEW h \in Handler, Update(h) PROVE AudioInv'
  BY <1>5 DEF Update, Idle
<1>6. ASSUME NEW h \in Handler, Abort(h) PROVE AudioInv'
  BY <1>6 DEF Abort, Idle
<1> QED BY <1>1, <1>2, <1>3, <1>4, <1>5, <1>6 DEF Next, ScoringNext, vars

----------------------------------------------------------------------------
(* What a turn holds *)

\* The type of the generation; nothing speaks before there is a script.
GenerationInv == GenerationTypeOK /\ (stage = "asking" => script = <<>>)

\* The turns of v that have the audio semaphore.
Has(state) == state \in {"speaking", "held"}
Having(v) == {i \in DOMAIN v : Has(v[i])}

\* One turn takes the semaphore, gives it back or neither.
LEMMA HavingChanges ==
  ASSUME NEW n \in Nat, NEW States, NEW v \in [1 .. n -> States], NEW i \in 1 .. n, NEW s
  PROVE  LET w == [v EXCEPT ![i] = s] IN
         /\ Cardinality(Having(v)) \in Nat
         /\ ~Has(v[i]) /\ Has(s) => Cardinality(Having(w)) = Cardinality(Having(v)) + 1
         /\ Has(v[i]) /\ ~Has(s) => Cardinality(Having(w)) = Cardinality(Having(v)) - 1
         /\ Has(v[i]) /\ Has(s) => Having(w) = Having(v)
<1> DEFINE w == [v EXCEPT ![i] = s]
<1>1. IsFiniteSet(1 .. n)
  BY FS_Interval
<1>2. IsFiniteSet(Having(v))
  <2>1. Having(v) \in SUBSET (1 .. n)
    BY DEF Having
  <2> QED BY <1>1, <2>1, FS_Subset
<1>3. ~Has(v[i]) /\ Has(s) => Having(w) = Having(v) \cup {i} /\ i \notin Having(v)
  BY DEF Having, Has
<1>4. Has(v[i]) /\ ~Has(s) => Having(w) = Having(v) \ {i} /\ i \in Having(v)
  BY DEF Having, Has
<1>5. Has(v[i]) /\ Has(s) => Having(w) = Having(v)
  BY DEF Having, Has
<1> HIDE DEF w
<1> QED BY <1>2, <1>3, <1>4, <1>5, FS_AddElement, FS_RemoveElement, FS_CardinalityType DEF w

\* Every step of the generation keeps its types.
LEMMA GenerationStep == GenerationInv /\ [Next]_vars => GenerationInv'
<1> SUFFICES ASSUME GenerationInv, [Next]_vars PROVE GenerationInv'
  OBVIOUS
<1> USE GenerationAssumption DEF GenerationInv, GenerationTypeOK
<1> DEFINE n == Len(script)
<1>1. n \in Nat /\ DOMAIN script = 1 .. n /\ DOMAIN voice = 1 .. n /\ voice \in [1 .. n -> VoiceState]
  OBVIOUS
<1>2. Speaking = Having(voice) /\ Speaking' = Having(voice')
  BY DEF Speaking, Having, Has
<1>3. CASE UNCHANGED generationVars
  BY <1>3 DEF generationVars, Speaking
<1>4. ASSUME NEW reply \in Reply, Accept(reply) PROVE GenerationInv'
  <2>1. /\ script' \in Seq(Role) /\ stage' = "voicing" /\ permits' = permits
        /\ quotaMet' = quotaMet
    BY <1>4, Trimmed DEF Accept
  <2>2. voice' = [i \in DOMAIN script' |-> "waiting"]
    BY <1>4 DEF Accept
  <2>3. Speaking = {} /\ Speaking' = {}
    <3>1. DOMAIN voice = {}
      BY <1>4 DEF Accept
    <3> QED BY <2>2, <3>1 DEF Speaking
  <2> QED BY <2>1, <2>2, <2>3 DEF VoiceState
<1>5. CASE AskFails \/ OtherMeetsQuota \/ \E reply \in Reply : Reject(reply)
  BY <1>5 DEF AskFails, Reject, OtherMeetsQuota, Speaking
<1>6. ASSUME NEW i \in DOMAIN voice, NEW s \in VoiceState, voice' = [voice EXCEPT ![i] = s]
      PROVE  /\ voice' \in [DOMAIN script -> VoiceState]
             /\ Cardinality(Speaking) \in Nat /\ Cardinality(Speaking') \in Nat
             /\ ~Has(voice[i]) /\ Has(s) => Cardinality(Speaking') = Cardinality(Speaking) + 1
             /\ Has(voice[i]) /\ ~Has(s) => Cardinality(Speaking') = Cardinality(Speaking) - 1
             /\ Has(voice[i]) /\ Has(s) => Speaking' = Speaking
  <2>1. /\ voice \in [1 .. n -> VoiceState] /\ i \in 1 .. n /\ n \in Nat
        /\ voice' \in [1 .. n -> VoiceState]
    BY <1>1, <1>6
  <2>2. voice' \in [DOMAIN script -> VoiceState]
    BY <1>6
  <2> HIDE DEF GenerationInv, GenerationTypeOK, n
  <2>3. Cardinality(Having(voice')) \in Nat
    <3>1. LET w == [voice' EXCEPT ![i] = s] IN Cardinality(Having(voice')) \in Nat
      BY ONLY <2>1, HavingChanges
    <3> QED BY <3>1
  <2>4. LET w == [voice EXCEPT ![i] = s] IN
        /\ Cardinality(Having(voice)) \in Nat
        /\ ~Has(voice[i]) /\ Has(s) => Cardinality(Having(w)) = Cardinality(Having(voice)) + 1
        /\ Has(voice[i]) /\ ~Has(s) => Cardinality(Having(w)) = Cardinality(Having(voice)) - 1
        /\ Has(voice[i]) /\ Has(s) => Having(w) = Having(voice)
    BY ONLY <2>1, HavingChanges
  <2> QED BY <1>2, <1>6, <2>2, <2>3, <2>4
<1>7. ASSUME NEW i \in DOMAIN voice, Speak(i) PROVE GenerationInv'
  <2>1. /\ permits \in 1 .. AudioConcurrency /\ permits' = permits - 1
        /\ voice' = [voice EXCEPT ![i] = "speaking"] /\ voice[i] = "waiting"
        /\ stage' = stage /\ script' = script /\ quotaMet' = quotaMet
    BY <1>7 DEF Speak
  <2>2. ~Has(voice[i]) /\ Has("speaking") /\ "speaking" \in VoiceState
    BY <2>1 DEF Has, VoiceState
  <2>3. /\ voice' \in [DOMAIN script -> VoiceState] /\ Cardinality(Speaking) \in Nat
        /\ Cardinality(Speaking') = Cardinality(Speaking) + 1
    BY <1>6, <2>1, <2>2
  <2> QED BY <2>1, <2>3
<1>8. ASSUME NEW i \in DOMAIN voice, Voiced(i) \/ VoiceFails(i) PROVE GenerationInv'
  <2>1. PICK s \in {"done", "failed"} :
          /\ permits' = permits + 1
          /\ voice' = [voice EXCEPT ![i] = s] /\ voice[i] = "speaking"
          /\ stage' \in {stage, "failed"} /\ script' = script /\ quotaMet' = quotaMet
    BY <1>8 DEF Voiced, VoiceFails
  <2>2. Has(voice[i]) /\ ~Has(s) /\ s \in VoiceState
    BY <2>1 DEF Has, VoiceState
  <2>3. /\ voice' \in [DOMAIN script -> VoiceState]
        /\ Cardinality(Speaking) \in Nat /\ Cardinality(Speaking') \in Nat
        /\ Cardinality(Speaking') = Cardinality(Speaking) - 1
    BY <1>6, <2>1, <2>2
  <2>4. permits' = AudioConcurrency - Cardinality(Speaking') /\ permits' \in 0 .. AudioConcurrency
    BY <2>1, <2>3
  <2> QED BY <2>1, <2>3, <2>4
<1>9. ASSUME NEW i \in DOMAIN voice, MeetQuota(i) PROVE GenerationInv'
  <2>1. /\ permits' = permits /\ voice' = [voice EXCEPT ![i] = "held"] /\ voice[i] = "speaking"
        /\ stage' = stage /\ script' = script /\ quotaMet' = TRUE
    BY <1>9 DEF MeetQuota
  <2>2. Has(voice[i]) /\ Has("held") /\ "held" \in VoiceState
    BY <2>1 DEF Has, VoiceState
  <2>3. voice' \in [DOMAIN script -> VoiceState] /\ Speaking' = Speaking
    BY <1>6, <2>1, <2>2
  <2>4. quotaMet' \in BOOLEAN
    BY <2>1
  <2> QED BY <2>1, <2>3, <2>4
<1>10. CASE Store
  BY <1>10 DEF Store, Speaking
<1> QED BY <1>3, <1>4, <1>5, <1>7, <1>8, <1>9, <1>10 DEF Next, Generate, vars

\* What a turn may hold: nothing yet, or the grading of one transcript, its words
\* those of an earlier one when it has none.
Stored(t, r) ==
  \/ r = Ungraded
  \/ \E heard \in Heard[t], old \in Seq(Word) :
       /\ Range(old) \subseteq Range(Text[t])
       /\ r = [Grade(t, heard) EXCEPT !.words = Kept(@, old)]

\* What is stored for a transcript, with the words it may keep.
LEMMA KeptFields ==
  ASSUME NEW t \in Turn, NEW heard, NEW old
  PROVE  LET r == [Grade(t, heard) EXCEPT !.words = Kept(@, old)]
             al == AlignWords(Text[t], heard)
             words == MispronouncedWords(al)
         IN /\ r.score = ComputeScores(Text[t], heard, Leniency)
            /\ r.words = Kept(words, old)
            /\ r.analysis = BuildSpeechAnalysis(Text[t], heard, al, words)
BY DEF Grade

\* The entries that are reported and those that are ignored.
Reported(al) == Entries(AlignedPairs(al), TRUE)
Ignored(al) == Entries(AlignedPairs(al), FALSE)

\* The parts of an analysis.
LEMMA AnalysisParts ==
  \A v, w, x, y :
    /\ BuildSpeechAnalysis(v, w, x, y).expectedTokens = v
    /\ BuildSpeechAnalysis(v, w, x, y).actualTokens = w
    /\ BuildSpeechAnalysis(v, w, x, y).mispronounced
         = InOrderOf(y, Reported(x))
    /\ BuildSpeechAnalysis(v, w, x, y).ignored = Ignored(x)
BY DEF BuildSpeechAnalysis, Reported, Ignored

\* What a turn holds is scored as its analysis says.
LEMMA StoredIsOneRecording ==
  ASSUME NEW t \in Turn, NEW r, Stored(t, r), r.analysis # Nothing
  PROVE  /\ r.analysis.expectedTokens = Text[t]
         /\ r.score = ComputeScores(Text[t], r.analysis.actualTokens, Leniency)
         /\ LET reported == [k \in DOMAIN r.analysis.mispronounced |->
                               r.analysis.mispronounced[k].pair.expected]
            IN reported # <<>> => r.words = reported
<1>1. PICK heard \in Heard[t], old \in Seq(Word) :
        r = [Grade(t, heard) EXCEPT !.words = Kept(@, old)]
  BY DEF Stored, Ungraded
<1> DEFINE al == AlignWords(Text[t], heard)
           words == MispronouncedWords(al)
           reported == Reported(al)
<1>2. /\ r.score = ComputeScores(Text[t], heard, Leniency) /\ r.words = Kept(words, old)
      /\ r.analysis = BuildSpeechAnalysis(Text[t], heard, al, words)
  BY <1>1, KeptFields
<1>3. Text[t] \in Seq(Word) /\ heard \in Seq(Word)
  BY ScoringAssumption
<1>4. /\ InOrderOf(words, reported) = reported
      /\ [k \in DOMAIN reported |-> reported[k].pair.expected] = words
  BY <1>3, ReportedAreTheWords DEF Reported
<1> HIDE DEF words, al
<1>5. /\ r.analysis.expectedTokens = Text[t] /\ r.analysis.actualTokens = heard
      /\ r.analysis.mispronounced = reported
  <2> DEFINE b == BuildSpeechAnalysis(Text[t], heard, al, words)
  <2>1. /\ b.expectedTokens = Text[t] /\ b.actualTokens = heard
        /\ b.mispronounced = InOrderOf(words, reported)
    BY AnalysisParts
  <2> HIDE DEF b, reported
  <2> QED BY <1>2, <1>4, <2>1 DEF b
<1> QED BY <1>2, <1>4, <1>5 DEF Kept

\* The words of a turn are words of its text.
LEMMA StoredWords ==
  ASSUME NEW t \in Turn, NEW r, Stored(t, r)
  PROVE  /\ r.words \in Seq(Word) /\ Range(r.words) \subseteq Range(Text[t])
         /\ r.score \in Score \cup {Nothing}
<1>1. CASE r = Ungraded
  <2>1. Range(<<>>) = {} /\ <<>> \in Seq(Word)
    BY DEF Range
  <2> QED BY <1>1, <2>1 DEF Ungraded
<1>2. ASSUME NEW heard \in Heard[t], NEW old \in Seq(Word), Range(old) \subseteq Range(Text[t]),
             r = [Grade(t, heard) EXCEPT !.words = Kept(@, old)]
      PROVE  /\ r.words \in Seq(Word) /\ Range(r.words) \subseteq Range(Text[t])
             /\ r.score \in Score
  <2> DEFINE words == MispronouncedWords(AlignWords(Text[t], heard))
  <2>1. Text[t] \in Seq(Word) /\ heard \in Seq(Word) /\ Leniency \in Int
    BY ScoringAssumption
  <2>2. words \in Seq(Word) /\ Range(words) \subseteq Range(Text[t])
    BY <2>1, MispronouncedAreRead
  <2>3. r.words = Kept(words, old) /\ r.score = ComputeScores(Text[t], heard, Leniency)
    BY <1>2, KeptFields
  <2>4. r.score \in Score
    BY <2>1, <2>3, ScoresAreScores
  <2> HIDE DEF words
  <2> QED BY <1>2, <2>2, <2>3, <2>4 DEF Kept
<1> QED BY <1>1, <1>2 DEF Stored

\* What an update writes.
LEMMA WrittenIsStored ==
  ASSUME NEW t \in Turn, NEW heard \in Heard[t], Stored(t, turns[t])
  PROVE  LET r == Written(t, Grade(t, heard)) IN Stored(t, r) /\ r.score \in Score
<1> DEFINE old == turns[t].words
           r == [Grade(t, heard) EXCEPT !.words = Kept(@, old)]
<1>1. old \in Seq(Word) /\ Range(old) \subseteq Range(Text[t])
  BY StoredWords
<1>2. Written(t, Grade(t, heard)) = r
  BY DEF Written
<1>3. Stored(t, r)
  <2> HIDE DEF old
  <2> QED BY <1>1 DEF Stored
<1>4. r.score = ComputeScores(Text[t], heard, Leniency)
  BY KeptFields
<1>5. r.score \in Score
  <2>1. Text[t] \in Seq(Word) /\ heard \in Seq(Word) /\ Leniency \in Int
    BY ScoringAssumption
  <2> QED BY <1>4, <2>1, ScoresAreScores
<1> QED BY <1>2, <1>3, <1>5

\* The requests and what the turns hold.
ScoringInv ==
  /\ DOMAIN turns = Turn
  /\ \A t \in Turn : Stored(t, turns[t]) /\ (turns[t].score = Nothing) = (graded[t] = 0)
  /\ object \in [Turn -> Recording \cup {0}]
  /\ attempt \in [Handler -> Attempt]
  /\ made \in 0 .. MaxRecordings
  /\ graded \in [Turn -> Recording \cup {0}]
  /\ crossed \subseteq Turn

\* A request that is transcribing.
LEMMA Transcribing ==
  ASSUME NEW t \in Turn, NEW k \in Recording
  PROVE  [pc |-> "transcribing", turn |-> t, recording |-> k, heard |-> <<>>] \in Attempt
BY DEF Attempt

\* A request that has a transcript.
LEMMA Transcribed ==
  ASSUME NEW t \in Turn, NEW k \in Recording, NEW heard \in Heard[t],
         NEW pc \in {"uploading", "updating"}
  PROVE  [pc |-> pc, turn |-> t, recording |-> k, heard |-> heard] \in Attempt
BY DEF Attempt

\* What is known of a request.
LEMMA Attempts ==
  ASSUME NEW r \in Attempt
  PROVE  /\ r \in Request
         /\ r # Idle => r.turn \in Turn /\ r.recording \in Recording
         /\ r.pc = "transcribing" => r # Idle
         /\ r.pc \in {"uploading", "updating"} => r # Idle /\ r.heard \in Heard[r.turn]
<1>1. Recording \subseteq Nat /\ 0 \in Nat
  BY ScoringAssumption DEF Recording
<1>2. \A t \in Turn : Heard[t] \subseteq Seq(Word)
  BY ScoringAssumption
<1>3. <<>> \in Seq(Word)
  BY EmptySequence
<1>4. CASE r = Idle
  BY <1>1, <1>3, <1>4 DEF Idle, Request
<1>5. CASE r \in [pc : {"transcribing"}, turn : Turn, recording : Recording, heard : {<<>>}]
  <2>1. /\ r.pc = "transcribing" /\ r.turn \in Turn /\ r.recording \in Recording
        /\ r.heard = <<>>
        /\ r = [pc |-> r.pc, turn |-> r.turn, recording |-> r.recording, heard |-> r.heard]
    BY ONLY <1>5
  <2>2. r \in Request
    BY ONLY <1>1, <1>3, <2>1 DEF Request
  <2> QED BY <2>1, <2>2 DEF Idle
<1>6. ASSUME NEW t \in Turn,
             r \in [pc : {"uploading", "updating"}, turn : {t}, recording : Recording,
                   heard : Heard[t]]
      PROVE  /\ r \in Request /\ r.turn \in Turn /\ r.recording \in Recording
             /\ r.heard \in Heard[r.turn] /\ r # Idle
             /\ r.pc \in {"uploading", "updating"}
  <2>1. /\ r.pc \in {"uploading", "updating"} /\ r.turn = t /\ r.recording \in Recording
        /\ r.heard \in Heard[t]
        /\ r = [pc |-> r.pc, turn |-> r.turn, recording |-> r.recording, heard |-> r.heard]
    BY ONLY <1>6
  <2>2. r \in Request
    BY ONLY <1>1, <1>2, <2>1, t \in Turn DEF Request
  <2> QED BY <2>1, <2>2 DEF Idle
<1> QED BY <1>4, <1>5, <1>6 DEF Attempt, Idle

\* Every step of the recordings keeps what the turns hold.
LEMMA ScoringStep == ScoringInv /\ [Next]_vars => ScoringInv'
<1> SUFFICES ASSUME ScoringInv, [Next]_vars PROVE ScoringInv'
  OBVIOUS
<1>1. CASE UNCHANGED scoringVars
  BY <1>1 DEF scoringVars, ScoringInv
<1>a. ASSUME NEW h \in Handler, NEW q \in Attempt, attempt' = [attempt EXCEPT ![h] = q]
      PROVE  attempt' \in [Handler -> Attempt]
  BY <1>a DEF ScoringInv
<1>b. \A h \in Handler : attempt[h] \in Attempt
  BY DEF ScoringInv
<1>2. ASSUME NEW h \in Handler, NEW t \in Turn, Record(h, t) PROVE ScoringInv'
  <2>1. made + 1 \in Recording /\ made' = made + 1 /\ made' \in 0 .. MaxRecordings
    BY <1>2, ScoringAssumption DEF Record, Recording, ScoringInv
  <2>2. attempt' \in [Handler -> Attempt]
    BY <1>2, <1>a, <2>1, Transcribing DEF Record
  <2> QED BY <1>2, <2>1, <2>2 DEF Record, ScoringInv
<1>3. ASSUME NEW h \in Handler, Transcribe(h) PROVE ScoringInv'
  <2>1. PICK heard \in Heard[attempt[h].turn] :
          attempt' = [attempt EXCEPT ![h].pc = "uploading", ![h].heard = heard]
    BY <1>3 DEF Transcribe
  <2> DEFINE r == attempt[h]
             q == [r EXCEPT !.pc = "uploading", !.heard = heard]
  <2>2. r \in Request /\ r.turn \in Turn /\ r.recording \in Recording
    BY <1>3, <1>b, Attempts DEF Transcribe
  <2>3. attempt' = [attempt EXCEPT ![h] = q]
    BY <2>1
  <2> HIDE DEF r
  <2>4. /\ q.pc = "uploading" /\ q.turn = r.turn /\ q.recording = r.recording
        /\ q.heard = heard
        /\ q = [pc |-> q.pc, turn |-> q.turn, recording |-> q.recording, heard |-> q.heard]
    <3>1. r \in Request /\ heard \in Seq(Word)
      BY <2>1, <2>2, ScoringAssumption DEF r
    <3>2. q \in Request /\ q.pc = "uploading" /\ q.turn = r.turn
          /\ q.recording = r.recording /\ q.heard = heard
      BY ONLY <3>1 DEF Request, q
    <3> HIDE DEF q
    <3> QED BY ONLY <3>2 DEF Request
  <2>5. q \in Attempt
    <3>1. heard \in Heard[r.turn]
      BY <2>1 DEF r
    <3>2. [pc |-> "uploading", turn |-> r.turn, recording |-> r.recording, heard |-> heard]
            \in Attempt
      BY <2>2, <3>1, Transcribed
    <3> HIDE DEF q
    <3> QED BY ONLY <2>4, <3>2
  <2> HIDE DEF q
  <2>6. attempt' \in [Handler -> Attempt]
    BY <1>a, <2>3, <2>5
  <2> QED BY <1>3, <2>6 DEF Transcribe, ScoringInv
<1>4. ASSUME NEW h \in Handler, Upload(h) PROVE ScoringInv'
  <2> DEFINE r == attempt[h]
             q == [r EXCEPT !.pc = "updating"]
  <2>1. /\ r \in Request /\ r.turn \in Turn /\ r.recording \in Recording
        /\ r.heard \in Heard[r.turn]
    BY <1>4, <1>b, Attempts DEF Upload
  <2>2. /\ attempt' = [attempt EXCEPT ![h] = q]
        /\ object' = [object EXCEPT ![r.turn] = r.recording]
        /\ crossed' \in {crossed, crossed \cup {r.turn}}
        /\ UNCHANGED <<turns, made, graded>>
    BY <1>4 DEF Upload
  <2> HIDE DEF r
  <2>3. q = [pc |-> "updating", turn |-> r.turn, recording |-> r.recording, heard |-> r.heard]
    BY ONLY <2>1 DEF Request, q
  <2>4. q \in Attempt
    <3>1. [pc |-> "updating", turn |-> r.turn, recording |-> r.recording, heard |-> r.heard]
            \in Attempt
      BY <2>1, Transcribed
    <3> HIDE DEF q
    <3> QED BY ONLY <2>3, <3>1
  <2> HIDE DEF q
  <2>5. attempt' \in [Handler -> Attempt]
    BY <1>a, <2>2, <2>4
  <2> QED BY <2>1, <2>2, <2>5 DEF ScoringInv
<1>5. ASSUME NEW h \in Handler, Update(h) PROVE ScoringInv'
  <2> DEFINE t == attempt[h].turn
             heard == attempt[h].heard
             k == attempt[h].recording
             new == Written(t, Grade(t, heard))
  <2>1. t \in Turn /\ k \in Recording /\ heard \in Heard[t]
    BY <1>5, <1>b, Attempts DEF Update
  <2>2. /\ turns' = [turns EXCEPT ![t] = new] /\ graded' = [graded EXCEPT ![t] = k]
        /\ attempt' = [attempt EXCEPT ![h] = Idle] /\ UNCHANGED <<object, made, crossed>>
    BY <1>5 DEF Update
  <2>3. Stored(t, turns[t])
    BY <2>1 DEF ScoringInv
  <2>4. Stored(t, new) /\ new.score \in Score
    BY <2>1, <2>3, WrittenIsStored
  <2>5. new.score # Nothing /\ k # 0
    BY <2>1, <2>4, ScoringAssumption DEF Recording
  <2>6. attempt' \in [Handler -> Attempt]
    BY <1>a, <2>2 DEF Attempt
  <2> HIDE DEF t, heard, k, new
  <2>7. /\ DOMAIN turns' = Turn /\ turns'[t] = new /\ graded' \in [Turn -> Recording \cup {0}]
        /\ graded'[t] = k
        /\ \A u \in Turn \ {t} : turns'[u] = turns[u] /\ graded'[u] = graded[u]
    BY <2>1, <2>2 DEF ScoringInv
  <2>8. \A u \in Turn : /\ Stored(u, turns'[u])
                        /\ (turns'[u].score = Nothing) = (graded'[u] = 0)
    BY <2>4, <2>5, <2>7 DEF ScoringInv
  <2> QED BY <2>2, <2>6, <2>7, <2>8 DEF ScoringInv, Stored, Recording
<1>6. ASSUME NEW h \in Handler, Abort(h) PROVE ScoringInv'
  <2>1. /\ attempt' = [attempt EXCEPT ![h] = Idle]
        /\ crossed' \in {crossed, crossed \cup {attempt[h].turn}}
        /\ UNCHANGED <<turns, object, made, graded>>
    BY <1>6 DEF Abort
  <2>2. attempt[h].turn \in Turn
    BY <1>6, <1>b, Attempts DEF Abort
  <2>3. attempt' \in [Handler -> Attempt]
    BY <1>a, <2>1 DEF Attempt
  <2> QED BY <2>1, <2>2, <2>3 DEF ScoringInv
<1> QED BY <1>1, <1>2, <1>3, <1>4, <1>5, <1>6 DEF Next, ScoringNext, vars

----------------------------------------------------------------------------
(* Practice words *)

\* A set of positions has a first.
LEMMA MinIn ==
  ASSUME NEW s \in SUBSET Nat, s # {}
  PROVE  Min(s) \in s /\ \A x \in s : Min(s) <= x
<1>1. PICK m \in s : \A k \in s : m <= k
  BY LeastNumber
<1> QED BY <1>1 DEF Min

\* The step of _aggregate_turn_data for an ignored pair.
Collected(far, d) ==
  IF d.why = "too_far_from_expected" THEN Append(far, d.pair.expected) ELSE far

\* The words collected from ignored pairs are words of those that were too far off.
LEMMA CollectedWords ==
  ASSUME NEW T, NEW entries \in Seq(T), NEW S,
         \A d \in T : d.why = "too_far_from_expected" => d.pair.expected \in S
  PROVE  FoldLeft(LAMBDA far, d : IF d.why = "too_far_from_expected"
                                  THEN Append(far, d.pair.expected) ELSE far,
                  <<>>, entries) \in Seq(S)
<1> DEFINE n == Len(entries)
           A == Seq(S)
           step == [q \in A \X (1 .. n) |-> Collected(q[1], entries[q[2]])]
           Solved(it) == it = [s \in SUBSET (1 .. n) |->
             IF s = {} THEN <<>> ELSE Collected(it[s \ {Max(s)}], entries[Max(s)])]
           sol == CHOOSE it : Solved(it)
<1>1. n \in Nat /\ DOMAIN entries = 1 .. n /\ \A k \in 1 .. n : entries[k] \in T
  OBVIOUS
<1> HIDE DEF n, A
<1>2. \A y \in A : \A x \in 1 .. n : step[<<y, x>>] = Collected(y, entries[x])
  OBVIOUS
<1> HIDE DEF step
<1>3. <<>> \in A
  BY EmptySequence DEF A
<1>4. \A y \in A : \A x \in 1 .. n : Collected(y, entries[x]) \in A
  BY <1>1, AppendedIn DEF A, Collected
<1>5. Foldable(1 .. n, A, <<>>, Latest(n), step)
  <2>1. \A x \in 1 .. n : \A y \in A : step[<<y, x>>] \in A
    BY <1>2, <1>4
  <2> QED BY <1>1, <1>3, <2>1, LatestIsFoldable
<1>6. PICK it : IsFold(it, 1 .. n, A, <<>>, Latest(n), step)
  BY <1>5, FoldHasASolution
<1>7. ASSUME NEW s \in SUBSET (1 .. n)
      PROVE  it[s] = IF s = {} THEN <<>> ELSE Collected(it[s \ {Max(s)}], entries[Max(s)])
  <2>1. s # {} => Max(s) \in 1 .. n /\ it[s \ {Max(s)}] \in A /\ Latest(n)[s] = Max(s)
    BY <1>1, <1>6, MaxIn DEF Latest, IsFold
  <2> QED BY <1>2, <1>6, <2>1 DEF IsFold
<1>8. Solved(sol)
  <2>1. Solved(it)
    BY <1>6, <1>7 DEF IsFold
  <2> HIDE DEF Solved
  <2> QED BY <2>1
<1>9. FoldLeft(LAMBDA far, d : IF d.why = "too_far_from_expected"
                               THEN Append(far, d.pair.expected) ELSE far,
               <<>>, entries) = sol[1 .. n]
  BY <1>1 DEF FoldLeft, MapThenFoldSet, Collected
<1>10. sol[{}] = <<>>
  <2> HIDE DEF sol
  <2> QED BY <1>8
<1>11. ASSUME NEW k \in 1 .. n PROVE sol[1 .. k] = Collected(sol[1 .. k - 1], entries[k])
  <2> DEFINE s == 1 .. k
  <2>1. s # {} /\ s \in SUBSET (1 .. n) /\ Max(s) = k /\ s \ {k} = 1 .. k - 1
    BY <1>1, FirstsShrink
  <2> HIDE DEF sol, s
  <2>2. sol[s] = Collected(sol[s \ {k}], entries[k])
    BY <1>8, <2>1
  <2> QED BY <2>1, <2>2 DEF s
<1> HIDE DEF sol, Solved
<1> DEFINE Q == {k \in Nat : k <= n => sol[1 .. k] \in A}
<1>12. 0 \in Q
  <2>1. 1 .. 0 = {}
    OBVIOUS
  <2> QED BY <1>3, <1>10, <2>1
<1>13. ASSUME NEW k \in Nat, k \in Q PROVE k + 1 \in Q
  <2> SUFFICES ASSUME k + 1 <= n PROVE sol[1 .. k + 1] \in A
    OBVIOUS
  <2>1. k + 1 \in 1 .. n /\ (k + 1) - 1 = k /\ sol[1 .. k] \in A
    BY <1>1, <1>13
  <2>2. sol[1 .. k + 1] = Collected(sol[1 .. k], entries[k + 1])
    BY <1>11, <2>1
  <2> QED BY <1>4, <2>1, <2>2
<1>14. n \in Q
  <2> HIDE DEF Q
  <2> QED BY <1>1, <1>12, <1>13, NumberInduction
<1>15. sol[1 .. n] \in A
  BY <1>1, <1>14
<1> QED BY <1>9, <1>15 DEF A

\* The ranks of the turns are the turns.
LEMMA TurnsInOrder == InTurnOrder \in Seq(Turn)
<1> DEFINE P == {p \in Turn \X Turn : p[1] < p[2]}
           n == Cardinality(Turn)
<1>1. IsFiniteSet(Turn) /\ Turn \subseteq Nat /\ n \in Nat
  BY ScoringAssumption, FS_CardinalityType
<1>2. \A x, y \in Turn : <<x, y>> \in P <=> x < y
  OBVIOUS
<1> HIDE DEF P
<1>3. ASSUME NEW k \in 1 .. n
      PROVE  (CHOOSE x \in Turn : Cardinality({y \in Turn : y < x}) = k - 1) \in Turn
  <2>1. Orders(P, Turn)
    BY <1>1, <1>2 DEF Orders
  <2>2. PICK x \in Turn : Cardinality(BelowIn(P, Turn, x)) = k - 1
    BY <1>1, <2>1, EveryRank
  <2>3. BelowIn(P, Turn, x) = {y \in Turn : y < x}
    BY <1>2 DEF BelowIn
  <2> QED BY <2>2, <2>3
<1>4. InTurnOrder = [k \in 1 .. n |->
        CHOOSE x \in Turn : Cardinality({y \in Turn : y < x}) = k - 1]
  BY DEF InTurnOrder, Sorted
<1> HIDE DEF n
<1>5. InTurnOrder \in [1 .. n -> Turn]
  BY <1>3, <1>4
<1> QED BY <1>1, <1>5

\* The most frequent words are some of the words.
LEMMA MostCommonWords ==
  ASSUME NEW T, NEW words \in Seq(T), NEW n \in Nat
  PROVE  MostCommon(words, n) \in Seq(Range(words)) /\ Len(MostCommon(words, n)) <= n
<1> DEFINE R == Range(words)
           Times(w) == Cardinality({i \in DOMAIN words : words[i] = w})
           First(w) == SelectInSeq(words, LAMBDA v : v = w)
           Before(v, w) == Times(v) > Times(w) \/ (Times(v) = Times(w) /\ First(v) < First(w))
           Ranked(k) == CHOOSE x \in R : Cardinality({y \in R : Before(y, x)}) = k - 1
           m == Cardinality(R)
           ranked == [k \in 1 .. m |-> Ranked(k)]
           P == {p \in R \X R : Before(p[1], p[2])}
<1>1. Len(words) \in Nat /\ DOMAIN words = 1 .. Len(words)
  OBVIOUS
<1>2. IsFiniteSet(R) /\ m \in Nat
  <2> DEFINE f == [i \in 1 .. Len(words) |-> words[i]]
  <2>1. IsFiniteSet(1 .. Len(words))
    BY <1>1, FS_Interval
  <2>2. f \in Surjection(1 .. Len(words), R)
    BY <1>1 DEF Surjection, Range
  <2>3. IsFiniteSet(R)
    <3> HIDE DEF f, R
    <3> QED BY <2>1, <2>2, FS_Surjection
  <2> HIDE DEF R
  <2> QED BY <2>3, FS_CardinalityType
<1>3. ASSUME NEW w \in R
      PROVE  Times(w) \in Nat /\ First(w) \in DOMAIN words /\ words[First(w)] = w
  <2> DEFINE I == {i \in 1 .. Len(words) : words[i] = w}
  <2>1. I # {} /\ I \in SUBSET Nat /\ I \in SUBSET (1 .. Len(words))
    BY <1>1 DEF Range
  <2>2. First(w) = Min(I)
    BY <2>1 DEF SelectInSeq
  <2>3. First(w) \in I
    <3> HIDE DEF I, First
    <3> QED BY <2>1, <2>2, MinIn
  <2>4. Times(w) \in Nat
    <3>1. Times(w) = Cardinality(I)
      BY <1>1
    <3>2. IsFiniteSet(1 .. Len(words))
      BY <1>1, FS_Interval
    <3> HIDE DEF I, Times
    <3> QED BY <2>1, <3>1, <3>2, FS_Subset, FS_CardinalityType
  <2> HIDE DEF First, Times
  <2> QED BY <1>1, <2>3, <2>4
<1>4. MostCommon(words, n) = SubSeq(ranked, 1, Min({n, Len(ranked)}))
  BY DEF MostCommon, Sorted
<1> HIDE DEF R, Times, First, m
<1>5. \A v, w \in R : v # w => First(v) # First(w)
  BY <1>3
<1>6. \A v, w \in R : <<v, w>> \in P <=> Before(v, w)
  OBVIOUS
<1>7. Orders(P, R)
  <2>1. \A v \in R : Times(v) \in Nat /\ First(v) \in Nat
    BY <1>1, <1>3
  <2>2. /\ \A x \in R : ~ Before(x, x)
        /\ \A x, y, z \in R : Before(x, y) /\ Before(y, z) => Before(x, z)
        /\ \A x, y \in R : x # y => Before(x, y) \/ Before(y, x)
    BY <1>5, <2>1
  <2> HIDE DEF P, Before
  <2> QED BY <1>6, <2>2 DEF Orders
<1>8. ASSUME NEW k \in 1 .. m PROVE Ranked(k) \in R
  <2> HIDE DEF P
  <2>1. k \in 1 .. Cardinality(R)
    BY DEF m
  <2>2. PICK x \in R : Cardinality(BelowIn(P, R, x)) = k - 1
    BY <1>2, <1>7, <2>1, EveryRank
  <2>3. BelowIn(P, R, x) = {y \in R : Before(y, x)}
    BY <1>6 DEF BelowIn
  <2> HIDE DEF Before
  <2> QED BY <2>2, <2>3
<1> HIDE DEF Ranked
<1>9. ranked \in Seq(R) /\ Len(ranked) = m
  BY <1>2, <1>8
<1> HIDE DEF ranked
<1>10. Min({n, m}) \in 0 .. m /\ Min({n, m}) <= n
  BY <1>2, TwoMin
<1> DEFINE l == Min({n, m})
<1>11. SubSeq(ranked, 1, l) \in Seq(R) /\ Len(SubSeq(ranked, 1, l)) = l
  <2>1. l \in 0 .. m
    BY <1>10
  <2> HIDE DEF l
  <2>2. \A i \in 1 .. l : ranked[i] \in R
    BY <1>2, <1>9, <2>1
  <2> QED BY <1>2, <1>9, <2>1, <2>2, SubSeqProperties
<1> QED BY <1>4, <1>9, <1>10, <1>11 DEF R

\* What is collected turn by turn is collected of some turn.
LEMMA OfTurnsWords ==
  ASSUME NEW S, NEW words, \A t \in Turn : words[t] \in Seq(S)
  PROVE  OfTurns(words) \in Seq(S)
<1> DEFINE order == InTurnOrder
           n == Len(order)
           A == Seq(S)
           step == [q \in A \X (1 .. n) |-> q[1] \o words[order[q[2]]]]
           Solved(it) == it = [s \in SUBSET (1 .. n) |->
             IF s = {} THEN <<>> ELSE it[s \ {Max(s)}] \o words[order[Max(s)]]]
           sol == CHOOSE it : Solved(it)
<1>1. n \in Nat /\ DOMAIN order = 1 .. n /\ \A k \in 1 .. n : order[k] \in Turn
  BY TurnsInOrder
<1> HIDE DEF order, n
<1>2. \A y \in A : \A x \in 1 .. n : step[<<y, x>>] = y \o words[order[x]]
  OBVIOUS
<1> HIDE DEF step
<1>3. <<>> \in A
  BY EmptySequence DEF A
<1>4. \A y \in A : \A x \in 1 .. n : y \o words[order[x]] \in A
  <2> SUFFICES ASSUME NEW y \in A, NEW x \in 1 .. n PROVE y \o words[order[x]] \in A
    OBVIOUS
  <2>1. words[order[x]] \in Seq(S)
    BY <1>1
  <2> QED BY <2>1, ConcatProperties
<1> HIDE DEF A
<1>5. Foldable(1 .. n, A, <<>>, Latest(n), step)
  <2>1. \A x \in 1 .. n : \A y \in A : step[<<y, x>>] \in A
    BY <1>2, <1>4
  <2> QED BY <1>1, <1>3, <2>1, LatestIsFoldable
<1>6. PICK it : IsFold(it, 1 .. n, A, <<>>, Latest(n), step)
  BY <1>5, FoldHasASolution
<1>7. ASSUME NEW s \in SUBSET (1 .. n)
      PROVE  it[s] = IF s = {} THEN <<>> ELSE it[s \ {Max(s)}] \o words[order[Max(s)]]
  <2>1. s # {} => Max(s) \in 1 .. n /\ it[s \ {Max(s)}] \in A /\ Latest(n)[s] = Max(s)
    BY <1>1, <1>6, MaxIn DEF Latest, IsFold
  <2> QED BY <1>2, <1>6, <2>1 DEF IsFold
<1>8. Solved(sol)
  <2>1. Solved(it)
    BY <1>6, <1>7 DEF IsFold
  <2> HIDE DEF Solved
  <2> QED BY <2>1
<1>9. OfTurns(words) = sol[1 .. n]
  BY <1>1 DEF OfTurns, FoldLeft, MapThenFoldSet, order
<1>10. sol[{}] = <<>>
  <2> HIDE DEF sol
  <2> QED BY <1>8
<1>11. ASSUME NEW k \in 1 .. n PROVE sol[1 .. k] = sol[1 .. k - 1] \o words[order[k]]
  <2> DEFINE s == 1 .. k
  <2>1. s # {} /\ s \in SUBSET (1 .. n) /\ Max(s) = k /\ s \ {k} = 1 .. k - 1
    BY <1>1, FirstsShrink
  <2> HIDE DEF sol, s
  <2>2. sol[s] = sol[s \ {k}] \o words[order[k]]
    BY <1>8, <2>1
  <2> QED BY <2>1, <2>2 DEF s
<1> HIDE DEF sol, Solved
<1> DEFINE Q == {k \in Nat : k <= n => sol[1 .. k] \in A}
<1>12. 0 \in Q
  <2>1. 1 .. 0 = {}
    OBVIOUS
  <2> QED BY <1>3, <1>10, <2>1
<1>13. ASSUME NEW k \in Nat, k \in Q PROVE k + 1 \in Q
  <2> SUFFICES ASSUME k + 1 <= n PROVE sol[1 .. k + 1] \in A
    OBVIOUS
  <2>1. k + 1 \in 1 .. n /\ (k + 1) - 1 = k /\ sol[1 .. k] \in A
    BY <1>1, <1>13
  <2>2. sol[1 .. k + 1] = sol[1 .. k] \o words[order[k + 1]]
    BY <1>11, <2>1
  <2> QED BY <1>4, <2>1, <2>2
<1>14. n \in Q
  <2> HIDE DEF Q
  <2> QED BY <1>1, <1>12, <1>13, NumberInduction
<1>15. sol[1 .. n] \in A
  BY <1>1, <1>14
<1> QED BY <1>9, <1>15 DEF A

\* A pair that is too far off is a substitution.
LEMMA TooFarIsSubstitution ==
  ASSUME NEW pairs, NEW k, Reason(pairs, k) = "too_far_from_expected",
         pairs[k].op \in {"match", "substitute", "insert", "delete"}
  PROVE  pairs[k].op = "substitute"
BY DEF Reason

\* The ignored entries of an alignment, and what they say.
LEMMA IgnoredAreRead ==
  ASSUME NEW e \in Seq(Word), NEW a \in Seq(Word)
  PROVE  LET pairs == AlignedPairs(AlignWords(e, a)) IN
         /\ Ignored(AlignWords(e, a)) \in Seq(EntriesOf(pairs))
         /\ \A d \in EntriesOf(pairs) :
              d.why = "too_far_from_expected" => d.pair.expected \in Range(e)
<1> DEFINE al == AlignWords(e, a)
           pairs == AlignedPairs(al)
<1>1. al \in Seq(AlignedPair)
  BY AlignWordsAligns DEF Aligns
<1>2. \A k \in DOMAIN al :
        /\ al[k] \in AlignedPair /\ WellMade(al[k])
        /\ Said(al[k].expected) => al[k].expected \in Range(e)
  BY AlignedWords
<1> HIDE DEF al
<1>3. pairs \in Seq({pairs[k] : k \in DOMAIN pairs}) /\ DOMAIN pairs = DOMAIN al
  BY <1>1 DEF AlignedPairs
<1>4. Entries(pairs, FALSE) \in Seq(EntriesOf(pairs))
  <2> HIDE DEF pairs
  <2> QED BY <1>3, EntriesArePairs
<1>5. ASSUME NEW k \in DOMAIN pairs, Entry(pairs, k).why = "too_far_from_expected"
      PROVE  Entry(pairs, k).pair.expected \in Range(e)
  <2>1. /\ pairs[k].op = ClassifyOp(al[k].expected, al[k].actual)
        /\ pairs[k].expected = al[k].expected
    BY <1>1, <1>3, PairsAligned
  <2>2. pairs[k].op \in {"match", "substitute", "insert", "delete"}
    BY <1>2, <1>3, <2>1, OperationsAgree
  <2> HIDE DEF pairs
  <2>3. Reason(pairs, k) = "too_far_from_expected"
    BY <1>5 DEF Entry
  <2>4. pairs[k].op = "substitute"
    BY <2>2, <2>3, TooFarIsSubstitution
  <2>5. Said(al[k].expected)
    BY <2>1, <2>4 DEF ClassifyOp, Said
  <2> QED BY <1>2, <1>3, <2>1, <2>5 DEF Entry
<1> QED BY <1>4, <1>5 DEF EntriesOf, Ignored, al

\* What a turn contributes to the tips are words of its text.
LEMMA TurnContributes ==
  ASSUME NEW t \in Turn, Stored(t, turns[t])
  PROVE  /\ turns[t].words \in Seq(Range(Text[t]))
         /\ FarSubstitutions(t) \in Seq(Range(Text[t]))
<1>1. turns[t].words \in Seq(Range(Text[t]))
  <2>1. turns[t].words \in Seq(Word) /\ Range(turns[t].words) \subseteq Range(Text[t])
    BY StoredWords
  <2> QED BY <2>1, SeqOfRange, SeqMonotonic
<1>2. FarSubstitutions(t) \in Seq(Range(Text[t]))
  <2>1. CASE turns[t].analysis = Nothing
    BY <2>1, EmptySequence DEF FarSubstitutions
  <2>2. CASE turns[t].analysis # Nothing
    <3>1. PICK heard \in Heard[t], old \in Seq(Word) :
            turns[t] = [Grade(t, heard) EXCEPT !.words = Kept(@, old)]
      BY <2>2 DEF Stored, Ungraded
    <3> DEFINE al == AlignWords(Text[t], heard)
               words == MispronouncedWords(al)
               T == EntriesOf(AlignedPairs(al))
               ignored == turns[t].analysis.ignored
               S == Range(Text[t])
    <3>2. turns[t].analysis = BuildSpeechAnalysis(Text[t], heard, al, words)
      BY <3>1, KeptFields
    <3>3. ignored = Ignored(al)
      <4> HIDE DEF al, words
      <4> QED BY <3>2, AnalysisParts
    <3>4. Text[t] \in Seq(Word) /\ heard \in Seq(Word)
      BY ScoringAssumption
    <3>5. /\ Ignored(al) \in Seq(T)
          /\ \A d \in T : d.why = "too_far_from_expected" => d.pair.expected \in S
      BY <3>4, IgnoredAreRead
    <3>6. FarSubstitutions(t) =
            FoldLeft(LAMBDA far, d : IF d.why = "too_far_from_expected"
                                     THEN Append(far, d.pair.expected) ELSE far,
                     <<>>, ignored)
      BY <2>2 DEF FarSubstitutions
    <3> HIDE DEF T, S, ignored, al
    <3>7. ignored \in Seq(T)
      BY <3>3, <3>5
    <3>8. FoldLeft(LAMBDA far, d : IF d.why = "too_far_from_expected"
                                   THEN Append(far, d.pair.expected) ELSE far,
                   <<>>, ignored) \in Seq(S)
      BY <3>5, <3>7, CollectedWords
    <3> QED BY <3>6, <3>8 DEF S
  <2> QED BY <2>1, <2>2
<1> QED BY <1>1, <1>2

\* The members of a sequence are in the set it is a sequence of.
LEMMA RangeWithin == ASSUME NEW S, NEW s \in Seq(S) PROVE Range(s) \subseteq S
BY DEF Range

----------------------------------------------------------------------------
(* Rounding *)

\* A common factor keeps an order, and may be removed.
LEMMA TimesFactor ==
  \A x, y \in Int : \A z \in Nat \ {0} :
    /\ x * z \in Int
    /\ x <= y <=> x * z <= y * z
    /\ x < y <=> x * z < y * z
<1> TAKE x, y \in Int
<1> TAKE z \in Nat \ {0}
<1>1. x * z \in Int
  OBVIOUS
<1>2. (y - x) * z = y * z - x * z
  OBVIOUS
<1>3. x <= y => 0 <= (y - x) * z
  OBVIOUS
<1>4. y < x => (y - x) * z < 0
  OBVIOUS
<1>5. x < y => 0 < (y - x) * z
  OBVIOUS
<1>6. y <= x => (y - x) * z <= 0
  OBVIOUS
<1> QED BY <1>1, <1>2, <1>3, <1>4, <1>5, <1>6

\* The quotient and the remainder.
LEMMA Quotient ==
  ASSUME NEW v \in Int, NEW d \in Nat \ {0}
  PROVE  /\ v \div d \in Int /\ v % d \in 0 .. d - 1
         /\ v = (v \div d) * d + (v % d)
OBVIOUS

\* The next whole number, for a remainder above one half of the divisor, and for
\* one half itself when the quotient is odd.
RoundedUp(b, r, d) == 2 * r > d \/ (2 * r = d /\ b % 2 = 1)

\* A larger fraction rounds to no smaller number.
LEMMA RoundingIsMonotone ==
  ASSUME NEW v \in Int, NEW d \in Nat \ {0}, NEW w \in Int, NEW g \in Nat \ {0},
         v * g <= w * d
  PROVE  LET b == v \div d
             c == w \div g
         IN (IF RoundedUp(b, v % d, d) THEN b + 1 ELSE b)
              <= (IF RoundedUp(c, w % g, g) THEN c + 1 ELSE c)
<1> DEFINE b == v \div d
           r == v % d
           c == w \div g
           s == w % g
<1>1. /\ b \in Int /\ r \in 0 .. d - 1 /\ v = b * d + r
      /\ c \in Int /\ s \in 0 .. g - 1 /\ w = c * g + s
  BY Quotient
<1> HIDE DEF b, r, c, s
<1> DEFINE D == d * g
<1>2. D \in Nat \ {0} /\ g * d = D
  <2>1. d * g \in Nat \ {0}
    BY Products
  <2> QED BY <2>1
<1>3. v * g = b * D + r * g /\ w * d = c * D + s * d
  <2>1. v * g = (b * d) * g + r * g /\ w * d = (c * g) * d + s * d
    BY <1>1
  <2>2. (b * d) * g = b * D /\ (c * g) * d = c * D
    BY <1>1
  <2> QED BY <2>1, <2>2
<1>4. 0 <= r * g /\ s * d < D
  <2>1. r \in Int /\ s \in Int /\ 0 \in Int /\ g \in Int /\ d \in Int /\ 0 <= r /\ s < g
    BY <1>1
  <2>2. 0 * g <= r * g /\ s * d < g * d
    BY <2>1, TimesFactor
  <2> QED BY <1>2, <2>2
<1> DEFINE x == r * g
           y == s * d
<1>5. x \in Int /\ y \in Int
  BY <1>1
<1>6. b <= c
  <2>1. (c + 1) * D = c * D + D /\ c + 1 \in Int
    BY <1>1, <1>2
  <2> DEFINE bd == b * D
             cd == c * D
             ce == (c + 1) * D
  <2>2. bd \in Int /\ cd \in Int /\ ce \in Int
    BY <1>1, <1>2
  <2>3. bd + x <= cd + y /\ 0 <= x /\ y < D /\ ce = cd + D
    BY <1>3, <1>4, <2>1
  <2>4. bd < ce
    <3> HIDE DEF bd, cd, ce, x, y, D
    <3> QED BY <1>2, <1>5, <2>2, <2>3
  <2>5. b < c + 1
    <3> HIDE DEF D
    <3> QED BY <1>1, <1>2, <2>1, <2>4, TimesFactor
  <2> QED BY <1>1, <2>5
<1>7. CASE b < c
  BY <1>1, <1>7
<1>8. CASE b = c
  <2>1. x <= y
    <3> DEFINE bd == b * D
    <3>1. bd \in Int /\ bd + x <= bd + y
      BY <1>1, <1>2, <1>3, <1>8
    <3> HIDE DEF bd, x, y
    <3> QED BY <1>5, <3>1
  <2>2. 2 * r > d => 2 * s > g
    <3> SUFFICES ASSUME 2 * r > d PROVE 2 * s > g
      OBVIOUS
    <3>1. 2 * r \in Int /\ 2 * s \in Int /\ d \in Int /\ g \in Int
      BY <1>1
    <3>2. d * g < (2 * r) * g
      BY <3>1, TimesFactor
    <3>3. (2 * r) * g = 2 * x /\ (2 * s) * d = 2 * y
      BY <1>1
    <3>4. g * d < (2 * s) * d
      <4> HIDE DEF x, y, D
      <4>1. D < 2 * x /\ g * d = D
        BY <1>2, <3>2, <3>3 DEF D
      <4> QED BY <1>2, <1>5, <2>1, <3>3, <4>1
    <3> QED BY <3>1, <3>4, TimesFactor
  <2>3. 2 * r = d => 2 * s >= g
    <3> SUFFICES ASSUME 2 * r = d PROVE 2 * s >= g
      OBVIOUS
    <3>1. 2 * s \in Int /\ g \in Int
      BY <1>1
    <3>3. (2 * r) * g = 2 * x /\ (2 * s) * d = 2 * y
      BY <1>1
    <3>4. g * d <= (2 * s) * d
      <4> HIDE DEF x, y, D
      <4>1. D = 2 * x /\ g * d = D
        BY <1>2, <3>3 DEF D
      <4> QED BY <1>2, <1>5, <2>1, <3>3, <4>1
    <3> QED BY <3>1, <3>4, TimesFactor
  <2>4. RoundedUp(b, r, d) => RoundedUp(c, s, g)
    BY <1>1, <1>8, <2>2, <2>3 DEF RoundedUp
  <2> QED BY <1>1, <1>8, <2>4
<1> QED BY <1>1, <1>6, <1>7, <1>8 DEF b, c, r, s

\* Clamping keeps an order.
LEMMA ClampIsMonotone ==
  \A v, w \in Int : /\ v <= w => Clamp(v) <= Clamp(w)
                    /\ Clamp(v) = 100 <=> v >= 100
<1> TAKE v, w \in Int
<1>1. \A k \in Int : Clamp(k) = IF k <= 0 THEN 0 ELSE IF k >= 100 THEN 100 ELSE k
  <2> TAKE k \in Int
  <2>1. Min({100, k}) = IF 100 <= k THEN 100 ELSE k
    BY TwoMin
  <2> DEFINE m == Min({100, k})
  <2>2. m \in Int /\ m = IF 100 <= k THEN 100 ELSE k
    BY <2>1
  <2> HIDE DEF m
  <2>3. Max({0, m}) = IF 0 >= m THEN 0 ELSE m
    BY <2>2, TwoMax
  <2> QED BY <2>2, <2>3 DEF Clamp, m
<1> QED BY <1>1

\* A larger ratio of errors gives no better score.
LEMMA ScoresFall ==
  ASSUME NEW n \in Int, NEW d \in Nat \ {0}, NEW m \in Int, NEW g \in Nat \ {0},
         n * g <= m * d
  PROVE  OutOf100(m, g) <= OutOf100(n, d)
<1> DEFINE v == 100 * g - m
           w == 100 * d - n
<1>1. v \in Int /\ w \in Int
  OBVIOUS
<1>2. v * d <= w * g
  <2>1. v * d = 100 * (g * d) - m * d /\ w * g = 100 * (d * g) - n * g
    OBVIOUS
  <2>2. g * d = d * g /\ g * d \in Int /\ m * d \in Int /\ n * g \in Int
    OBVIOUS
  <2> QED BY <2>1, <2>2
<1>3. Rounded(m, g) <= Rounded(n, d)
  <2>1. /\ Rounded(m, g) = IF RoundedUp(v \div g, v % g, g) THEN (v \div g) + 1 ELSE v \div g
        /\ Rounded(n, d) = IF RoundedUp(w \div d, w % d, d) THEN (w \div d) + 1 ELSE w \div d
    BY DEF Rounded, RoundedUp
  <2> HIDE DEF v, w
  <2> QED BY <1>1, <1>2, <2>1, RoundingIsMonotone
<1> QED BY <1>3, OutOf100In, ClampIsMonotone

\* No errors give 100, and 100 is only given to errors of half a point.
LEMMA FullScore ==
  ASSUME NEW n \in Nat, NEW d \in Nat \ {0}
  PROVE  /\ n = 0 => OutOf100(n, d) = 100
         /\ OutOf100(n, d) = 100 => 2 * n <= d
<1> DEFINE v == 100 * d - n
           b == v \div d
           r == v % d
<1>0. v \in Int
  OBVIOUS
<1>1. b \in Int /\ r \in 0 .. d - 1 /\ v = b * d + r /\ v \in Int
  <2> HIDE DEF v
  <2> QED BY <1>0, Quotient
<1>2. Rounded(n, d) = IF RoundedUp(b, r, d) THEN b + 1 ELSE b
  BY DEF Rounded, RoundedUp
<1>3. Rounded(n, d) \in Int /\ OutOf100(n, d) = Clamp(Rounded(n, d))
  BY OutOf100In
<1>4. v = 100 * d - n
  OBVIOUS
<1> HIDE DEF v, b, r
<1>5. ASSUME n = 0 PROVE Rounded(n, d) >= 100
  <2>1. b >= 100
    <3>1. 100 * d < (b + 1) * d
      <4>1. (b + 1) * d = b * d + d
        BY <1>1
      <4> DEFINE x == b * d
      <4>2. x \in Int /\ 100 * d = x + r /\ (b + 1) * d = x + d
        BY <1>1, <1>4, <1>5, <4>1
      <4> HIDE DEF x
      <4> QED BY <1>1, <4>2
    <3>2. 100 < b + 1
      BY <1>1, <3>1, TimesFactor
    <3> QED BY <1>1, <3>2
  <2> QED BY <1>1, <1>2, <2>1
<1>6. ASSUME Rounded(n, d) >= 100 PROVE 2 * n <= d
  <2> DEFINE x == b * d
  <2>1. x \in Int /\ 100 * d - n = x + r
    BY <1>1, <1>4
  <2>2. CASE b >= 100
    <3>1. 100 * d <= x
      BY <1>1, <2>2, TimesFactor
    <3> HIDE DEF x
    <3> QED BY <1>1, <2>1, <3>1
  <2>3. CASE b < 100
    <3>1. b = 99 /\ 2 * r >= d
      BY <1>1, <1>2, <1>6, <2>3 DEF RoundedUp
    <3>2. x = 99 * d
      BY <3>1
    <3> HIDE DEF x
    <3> QED BY <1>1, <2>1, <3>1, <3>2
  <2> QED BY <1>1, <2>2, <2>3
<1> QED BY <1>3, <1>5, <1>6, ClampIsMonotone

----------------------------------------------------------------------------
(* What the scores promise *)

\* Texts at distance 0 are the same, and a text is at distance 0 from itself.
LEMMA NoDistance ==
  ASSUME NEW e \in Seq(Word), NEW a \in Seq(Word)
  PROVE  Distances(e, a)[<<Len(e), Len(a)>>] = 0 <=> a = e
<1> DEFINE dp == Distances(e, a)
           m == Len(e)
           n == Len(a)
<1>1. m \in Nat /\ n \in Nat
  OBVIOUS
<1>2. Counts(dp, e, a)
  BY <1>1, DistancesCount
<1> HIDE DEF dp, m, n
<1>3. ASSUME NEW i \in 0 .. m, NEW j \in 0 .. n
      PROVE  /\ dp[<<i, j>>] \in Nat
             /\ i = 0 \/ j = 0 => dp[<<i, j>>] = i + j
             /\ i > 0 /\ j > 0 => (dp[<<i, j>>] = 0 <=> dp[<<i - 1, j - 1>>] = 0 /\ e[i] = a[j])
  <2>1. \A k \in 0 .. m, l \in 0 .. n : dp[<<k, l>>] \in Nat
    BY <1>2 DEF Counts, m, n
  <2>2. i = 0 \/ j = 0 => dp[<<i, j>>] = i + j
    BY <1>2 DEF Counts, m, n
  <2>3. ASSUME i > 0, j > 0
        PROVE  dp[<<i, j>>] = 0 <=> dp[<<i - 1, j - 1>>] = 0 /\ e[i] = a[j]
    <3> DEFINE x == dp[<<i - 1, j>>] + 1
               y == dp[<<i, j - 1>>] + 1
               c == IF e[i] = a[j] THEN 0 ELSE 1
               z == dp[<<i - 1, j - 1>>] + c
    <3>1. dp[<<i, j>>] = Min({x, y, z})
      BY <1>2, <2>3 DEF Counts, m, n
    <3>2. i - 1 \in 0 .. m /\ j - 1 \in 0 .. n
      BY <1>1, <2>3
    <3>3. x \in Nat \ {0} /\ y \in Nat \ {0} /\ dp[<<i - 1, j - 1>>] \in Nat
      BY <2>1, <3>2
    <3>4. z \in Nat /\ (z = 0 <=> dp[<<i - 1, j - 1>>] = 0 /\ e[i] = a[j])
      BY <3>3
    <3> HIDE DEF x, y, z
    <3>5. x \in Int /\ y \in Int /\ z \in Int
      BY <3>3, <3>4
    <3>6. Min({x, y, z}) \in {x, y, z} /\ Min({x, y, z}) <= z
      BY <3>5, ThreeMin
    <3>7. Min({x, y, z}) = 0 <=> z = 0
      <4> DEFINE l == Min({x, y, z})
      <4>1. l \in {x, y, z} /\ l <= z
        BY <3>6
      <4> HIDE DEF l
      <4>2. l = 0 <=> z = 0
        BY <3>3, <3>4, <4>1
      <4> QED BY <4>2 DEF l
    <3> QED BY <3>1, <3>4, <3>7
  <2> QED BY <2>1, <2>2, <2>3
<1>4. ASSUME dp[<<m, n>>] = 0 PROVE a = e
  <2> DEFINE Same(i) == \A j \in 0 .. n : dp[<<i, j>>] = 0 =>
                          i = j /\ \A k \in 1 .. i : e[k] = a[k]
             Q == {i \in Nat : i <= m => Same(i)}
  <2>1. 0 \in Q
    <3>1. ASSUME NEW j \in 0 .. n, dp[<<0, j>>] = 0 PROVE j = 0
      <4>1. 0 \in 0 .. m
        BY <1>1
      <4>2. dp[<<0, j>>] = 0 + j
        BY <1>3, <4>1
      <4> QED BY <3>1, <4>2
    <3>2. Same(0)
      BY <3>1
    <3> HIDE DEF Same
    <3> QED BY <3>2
  <2>2. ASSUME NEW i \in Nat, i \in Q PROVE i + 1 \in Q
    <3> SUFFICES ASSUME i + 1 <= m, NEW j \in 0 .. n, dp[<<i + 1, j>>] = 0
                 PROVE  i + 1 = j /\ \A k \in 1 .. i + 1 : e[k] = a[k]
      OBVIOUS
    <3>1. i + 1 \in 0 .. m /\ (i + 1) - 1 = i /\ i + 1 > 0 /\ i <= m
      BY <1>1
    <3>2. j > 0
      <4>1. j = 0 => dp[<<i + 1, j>>] = (i + 1) + j
        BY <1>3, <3>1
      <4> QED BY <4>1
    <3>3. dp[<<i, j - 1>>] = 0 /\ e[i + 1] = a[j]
      BY <1>3, <3>1, <3>2
    <3>4. j - 1 \in 0 .. n /\ Same(i)
      BY <1>1, <2>2, <3>1, <3>2
    <3>5. i = j - 1 /\ \A k \in 1 .. i : e[k] = a[k]
      BY <3>3, <3>4
    <3>6. i + 1 = j
      BY <3>5
    <3> HIDE DEF Q
    <3> QED BY <3>3, <3>5, <3>6
  <2>3. m \in Q
    <3> HIDE DEF Q
    <3> QED BY <1>1, <2>1, <2>2, NumberInduction
  <2>4. m = n /\ \A k \in 1 .. m : e[k] = a[k]
    BY <1>1, <1>4, <2>3
  <2> QED BY <2>4 DEF m, n
<1>5. ASSUME a = e PROVE dp[<<m, n>>] = 0
  <2> DEFINE Q == {i \in Nat : i <= m => dp[<<i, i>>] = 0}
  <2>0. m = n
    BY <1>5 DEF m, n
  <2>1. 0 \in Q
    <3>1. dp[<<0, 0>>] = 0 + 0
      <4>1. 0 \in 0 .. m /\ 0 \in 0 .. n
        BY <1>1
      <4> QED BY <1>3, <4>1
    <3> QED BY <3>1
  <2>2. ASSUME NEW i \in Nat, i \in Q PROVE i + 1 \in Q
    <3> SUFFICES ASSUME i + 1 <= m PROVE dp[<<i + 1, i + 1>>] = 0
      OBVIOUS
    <3>1. i + 1 \in 0 .. m /\ i + 1 \in 0 .. n /\ (i + 1) - 1 = i /\ i + 1 > 0 /\ i <= m
      BY <1>1, <2>0
    <3>2. dp[<<i, i>>] = 0
      BY <2>2, <3>1
    <3> HIDE DEF Q
    <3> QED BY <1>3, <1>5, <3>1, <3>2
  <2>3. m \in Q
    <3> HIDE DEF Q
    <3> QED BY <1>1, <2>1, <2>2, NumberInduction
  <2> QED BY <1>1, <2>0, <2>3
<1> QED BY <1>4, <1>5 DEF dp, m, n

\* Where nothing was misread no word is mispronounced.
LEMMA NothingMispronounced ==
  ASSUME NEW e \in Seq(Word)
  PROVE  Errors(AlignWords(e, e)) = 0 /\ Len(MispronouncedWords(AlignWords(e, e))) = 0
<1> DEFINE al == AlignWords(e, e)
           words == MispronouncedWords(al)
<1>1. /\ al \in Seq(AlignedPair) /\ \A k \in DOMAIN al : WellMade(al[k])
      /\ Errors(al) = 0
  <2>1. Distances(e, e)[<<Len(e), Len(e)>>] = 0
    BY NoDistance
  <2>2. Aligns(al, e, e, Len(e), Len(e), Distances(e, e)[<<Len(e), Len(e)>>])
    BY AlignWordsAligns
  <2> HIDE DEF al
  <2> QED BY <2>1, <2>2 DEF Aligns
<1>2. Agree(al, words, Entries(AlignedPairs(al), TRUE), Len(al))
  BY ReportedAreTheWords
<1> HIDE DEF al
<1>3. DOMAIN al = 1 .. Len(al) /\ Len(al) \in Nat
  BY <1>1
<1> DEFINE Subs == {k \in DOMAIN al : al[k].op = "sub"}
<1>4. Subs = {}
  <2>1. Count(al, "sub") \in Nat /\ Count(al, "ins") \in Nat /\ Count(al, "del") \in Nat
    <3>1. IsFiniteSet(DOMAIN al)
      BY <1>3, FS_Interval
    <3>2. \A T \in SUBSET DOMAIN al : Cardinality(T) \in Nat
      BY <3>1, FS_Subset, FS_CardinalityType
    <3> QED BY <3>2 DEF Count
  <2>2. Cardinality(Subs) = 0
    <3>1. Count(al, "sub") = 0
      BY <1>1, <2>1 DEF Errors
    <3> QED BY <3>1 DEF Count
  <2>3. IsFiniteSet(Subs)
    <3>1. IsFiniteSet(DOMAIN al)
      BY <1>3, FS_Interval
    <3> QED BY <3>1, FS_Subset
  <2> HIDE DEF Subs
  <2> QED BY <2>2, <2>3, FS_EmptySet
<1>5. \A k \in 1 .. Len(al) : ~ Misread(al[k])
  <2> SUFFICES ASSUME NEW k \in 1 .. Len(al), Misread(al[k]) PROVE FALSE
    OBVIOUS
  <2>1. al[k] \in AlignedPair /\ WellMade(al[k])
    BY <1>1, <1>3
  <2>2. al[k].op = "sub"
    BY <2>1, OperationsAgree
  <2> QED BY <1>3, <1>4, <2>2
<1>6. words \in Seq(MaybeWord) /\ Range(words) = {}
  <2> HIDE DEF words
  <2> QED BY <1>2, <1>5 DEF Agree
<1> HIDE DEF words
<1>7. Len(words) = 0
  <2>1. Len(words) \in Nat /\ \A k \in 1 .. Len(words) : words[k] \in Range(words)
    BY <1>6 DEF Range
  <2> QED BY <1>6, <2>1
<1> QED BY <1>1, <1>7 DEF al, words

\* One more filler word is counted.
LEMMA OneMoreFiller ==
  ASSUME NEW a \in Seq(Word), NEW f \in FillerWords \cap Word
  PROVE  /\ Append(a, f) \in Seq(Word) /\ Len(Append(a, f)) = Len(a) + 1
         /\ CountFillers(Append(a, f)) = CountFillers(a) + 1
<1> DEFINE n == Len(a)
           b == Append(a, f)
           F(s) == {i \in DOMAIN s : s[i] \in FillerWords}
           Y(s) == {i \in DOMAIN s : s[i] = "you" /\ i < Len(s) /\ s[i + 1] = "know"}
<1>1. /\ n \in Nat /\ DOMAIN a = 1 .. n /\ b \in Seq(Word) /\ Len(b) = n + 1
      /\ DOMAIN b = 1 .. n + 1 /\ b[n + 1] = f /\ \A i \in 1 .. n : b[i] = a[i]
  OBVIOUS
<1>2. f # "know" /\ f \in FillerWords
  BY DEF FillerWords
<1> HIDE DEF b, n
<1>3. F(b) = F(a) \cup {n + 1} /\ n + 1 \notin F(a)
  BY <1>1, <1>2
<1>4. Y(b) = Y(a)
  <2>1. ASSUME NEW i \in Y(b) PROVE i \in Y(a)
    <3>1. i \in 1 .. n /\ i + 1 \in 1 .. n + 1 /\ b[i] = "you" /\ b[i + 1] = "know"
      BY <1>1
    <3>2. i + 1 # n + 1
      BY <1>1, <1>2, <3>1
    <3>3. i + 1 \in 1 .. n
      BY <1>1, <3>1, <3>2
    <3> QED BY <1>1, <3>1, <3>3 DEF n
  <2>2. ASSUME NEW i \in Y(a) PROVE i \in Y(b)
    <3>1. i \in 1 .. n /\ i + 1 \in 1 .. n /\ a[i] = "you" /\ a[i + 1] = "know"
      BY <1>1 DEF n
    <3> QED BY <1>1, <3>1
  <2> QED BY <2>1, <2>2
<1>5. IsFiniteSet(F(a)) /\ IsFiniteSet(Y(a))
  <2>1. IsFiniteSet(1 .. n)
    BY <1>1, FS_Interval
  <2>2. F(a) \in SUBSET (1 .. n) /\ Y(a) \in SUBSET (1 .. n)
    BY <1>1
  <2> HIDE DEF F, Y
  <2> QED BY <2>1, <2>2, FS_Subset
<1>6. /\ CountFillers(a) = Cardinality(F(a)) + Cardinality(Y(a))
      /\ CountFillers(b) = Cardinality(F(b)) + Cardinality(Y(b))
  BY DEF CountFillers
<1> HIDE DEF F, Y
<1>7. /\ Cardinality(F(b)) = Cardinality(F(a)) + 1
      /\ Cardinality(F(a)) \in Nat /\ Cardinality(Y(a)) \in Nat
  BY <1>3, <1>5, FS_AddElement, FS_CardinalityType
<1> QED BY <1>1, <1>4, <1>6, <1>7 DEF b, n

\* More leniency is not clamped to less.
LEMMA LeniencyIsMonotone ==
  \A l, k \in Int : l <= k => ClampLeniency(l) <= ClampLeniency(k)
<1> TAKE l, k \in Int
<1>1. \A x \in Int : ClampLeniency(x) = IF x <= 5 THEN 5 ELSE IF x >= 15 THEN 15 ELSE x
  <2> TAKE x \in Int
  <2> DEFINE m == Min({15, x})
  <2>1. m \in Int /\ m = IF 15 <= x THEN 15 ELSE x
    BY TwoMin
  <2> HIDE DEF m
  <2>2. Max({5, m}) = IF 5 >= m THEN 5 ELSE m
    BY <2>1, TwoMax
  <2> QED BY <2>1, <2>2 DEF ClampLeniency, m
<1> QED BY <1>1

\* The scores of two texts, from their figures.
ScoredBy(e, a, l, t, f, w, g, r, m) ==
  /\ ComputeScores(e, a, l) =
       [hesitation |-> OutOf100(1400 * f, g * t),
        confidence |-> OutOf100(1100 * r, w * t),
        fluency |-> OutOf100(10 * (80 * f * w + (120 * m + 40 * r) * g), g * w * t)]
  /\ t \in Nat \ {0} /\ t <= 15 /\ f \in Nat /\ w \in Nat \ {0} /\ g \in Nat \ {0}
  /\ r \in Nat /\ m \in Nat
  /\ g * t \in Nat \ {0} /\ w * t \in Nat \ {0} /\ g * w \in Nat \ {0}

\* The figures compute_scores takes them from.
LEMMA ScoresOf ==
  ASSUME NEW e \in Seq(Word), NEW a \in Seq(Word), NEW l \in Int
  PROVE  ScoredBy(e, a, l, ClampLeniency(l), CountFillers(a), Max({1, Len(e)}),
                  Max({1, Len(a)}), Errors(AlignWords(e, a)),
                  Len(MispronouncedWords(AlignWords(e, a))))
<1> DEFINE t == ClampLeniency(l)
           f == CountFillers(a)
           w == Max({1, Len(e)})
           g == Max({1, Len(a)})
           r == Errors(AlignWords(e, a))
           m == Len(MispronouncedWords(AlignWords(e, a)))
<1>1. t \in 5 .. 15 /\ f \in Nat /\ w \in Nat \ {0} /\ g \in Nat \ {0} /\ r \in Nat /\ m \in Nat
  BY FiguresOf
<1>2. ComputeScores(e, a, l) =
        [hesitation |-> OutOf100(10 * 140 * f, g * t),
         confidence |-> OutOf100(10 * 110 * r, w * t),
         fluency |-> OutOf100(10 * (80 * f * w + (120 * m + 40 * r) * g), g * w * t)]
  BY DEF ComputeScores
<1> HIDE DEF t, f, w, g, r, m
<1>3. t \in Nat \ {0} /\ t <= 15
  BY <1>1
<1>4. g * t \in Nat \ {0} /\ w * t \in Nat \ {0} /\ g * w \in Nat \ {0}
  BY <1>1, <1>3, Products
<1>5. 10 * 140 * f = 1400 * f /\ 10 * 110 * r = 1100 * r
  BY <1>1
<1>6. ScoredBy(e, a, l, t, f, w, g, r, m)
  BY <1>1, <1>2, <1>3, <1>4, <1>5 DEF ScoredBy
<1> QED BY <1>6 DEF t, f, w, g, r, m

\* A perfect reading scores 100 in everything.
LEMMA PerfectReadings ==
  ASSUME NEW e \in Seq(Word), NEW a \in Seq(Word), NEW l \in Int
  PROVE  PerfectReading(e, a, l)
<1> SUFFICES ASSUME a = e, CountFillers(a) = 0
             PROVE  ComputeScores(e, a, l) = [confidence |-> 100, fluency |-> 100, hesitation |-> 100]
  BY DEF PerfectReading
<1> DEFINE t == ClampLeniency(l)
           f == CountFillers(a)
           w == Max({1, Len(e)})
           g == Max({1, Len(a)})
           r == Errors(AlignWords(e, a))
           m == Len(MispronouncedWords(AlignWords(e, a)))
<1>1. /\ ComputeScores(e, a, l) =
           [hesitation |-> OutOf100(1400 * f, g * t),
            confidence |-> OutOf100(1100 * r, w * t),
            fluency |-> OutOf100(10 * (80 * f * w + (120 * m + 40 * r) * g), g * w * t)]
      /\ t \in Nat \ {0} /\ f \in Nat /\ w \in Nat \ {0} /\ g \in Nat \ {0}
      /\ g * t \in Nat \ {0} /\ w * t \in Nat \ {0} /\ g * w \in Nat \ {0}
  <2>1. ScoredBy(e, a, l, t, f, w, g, r, m)
    BY ScoresOf
  <2> HIDE DEF t, f, w, g, r, m
  <2> QED BY <2>1 DEF ScoredBy
<1>2. f = 0 /\ r = 0 /\ m = 0
  BY NothingMispronounced
<1> HIDE DEF t, f, w, g, r, m
<1>3. g * w * t \in Nat \ {0}
  BY <1>1, Products
<1>4. 1400 * f = 0 /\ 1100 * r = 0 /\ 10 * (80 * f * w + (120 * m + 40 * r) * g) = 0
  BY <1>1, <1>2
<1>5. \A d \in Nat \ {0} : OutOf100(0, d) = 100
  BY FullScore
<1> QED BY <1>1, <1>3, <1>4, <1>5

\* One error costs half a point in texts below the bounds.
LEMMA PerfectScores ==
  ASSUME NEW e \in Seq(Word), NEW a \in Seq(Word), NEW l \in Int
  PROVE  PerfectScore(e, a, l)
<1> DEFINE t == ClampLeniency(l)
           f == CountFillers(a)
           w == Max({1, Len(e)})
           g == Max({1, Len(a)})
           r == Errors(AlignWords(e, a))
           m == Len(MispronouncedWords(AlignWords(e, a)))
           scores == ComputeScores(e, a, l)
<1>1. /\ scores.hesitation = OutOf100(1400 * f, g * t)
      /\ scores.confidence = OutOf100(1100 * r, w * t)
      /\ t \in Nat \ {0} /\ t <= 15 /\ f \in Nat /\ r \in Nat
      /\ g * t \in Nat \ {0} /\ w * t \in Nat \ {0}
  <2>1. /\ scores =
             [hesitation |-> OutOf100(1400 * f, g * t),
              confidence |-> OutOf100(1100 * r, w * t),
              fluency |-> OutOf100(10 * (80 * f * w + (120 * m + 40 * r) * g), g * w * t)]
        /\ t \in Nat \ {0} /\ t <= 15 /\ f \in Nat /\ r \in Nat
        /\ g * t \in Nat \ {0} /\ w * t \in Nat \ {0}
    <3>1. ScoredBy(e, a, l, t, f, w, g, r, m)
      BY ScoresOf
    <3> HIDE DEF t, f, w, g, r, m
    <3> QED BY <3>1 DEF ScoredBy, scores
  <2> HIDE DEF t, f, w, g, r, m, scores
  <2> QED BY <2>1
<1>2. \A k \in Nat : Max({1, k}) = IF 1 >= k THEN 1 ELSE k
  BY TwoMax
<1>3. Len(e) \in Nat /\ Len(a) \in Nat
  OBVIOUS
<1>4. r = 0 => a = e
  <2>1. r = Distances(e, a)[<<Len(e), Len(a)>>]
    BY AlignWordsAligns DEF Aligns
  <2> QED BY <2>1, NoDistance
<1>5. Len(e) * t < 2200 => w * t < 2200
  <2>1. w = 1 \/ w = Len(e)
    BY <1>2, <1>3
  <2> HIDE DEF w, t
  <2>2. 1 * t < 2200
    BY <1>1
  <2> QED BY <2>1, <2>2
<1>6. Len(a) * t < 2800 => g * t < 2800
  <2>1. g = 1 \/ g = Len(a)
    BY <1>2, <1>3
  <2> HIDE DEF g, t
  <2>2. 1 * t < 2800
    BY <1>1
  <2> QED BY <2>1, <2>2
<1> HIDE DEF t, f, w, g, r, m
<1> DEFINE wt == w * t
           gt == g * t
<1>7. scores.confidence = 100 /\ wt < 2200 => r = 0
  <2> SUFFICES ASSUME scores.confidence = 100, wt < 2200 PROVE r = 0
    OBVIOUS
  <2>1. 1100 * r \in Nat /\ wt \in Nat \ {0} /\ OutOf100(1100 * r, wt) = 100
    BY <1>1
  <2> HIDE DEF wt
  <2>2. 2 * (1100 * r) <= wt
    BY <2>1, FullScore
  <2> QED BY <1>1, <2>1, <2>2
<1>8. scores.hesitation = 100 /\ gt < 2800 => f = 0
  <2> SUFFICES ASSUME scores.hesitation = 100, gt < 2800 PROVE f = 0
    OBVIOUS
  <2>1. 1400 * f \in Nat /\ gt \in Nat \ {0} /\ OutOf100(1400 * f, gt) = 100
    BY <1>1
  <2> HIDE DEF gt
  <2>2. 2 * (1400 * f) <= gt
    BY <2>1, FullScore
  <2> QED BY <1>1, <2>1, <2>2
<1> HIDE DEF scores
<1> QED BY <1>4, <1>5, <1>6, <1>7, <1>8 DEF PerfectScore, scores, f, t

\* Another filler word is one more in one word more.
LEMMA FillersDoCost ==
  ASSUME NEW e \in Seq(Word), NEW a \in Seq(Word), NEW l \in Int
  PROVE  FillersCost(e, a, l)
<1> SUFFICES ASSUME NEW filler \in FillerWords \cap Word
             PROVE  ComputeScores(e, Append(a, filler), l).hesitation
                      <= ComputeScores(e, a, l).hesitation
  BY DEF FillersCost
<1> DEFINE b == Append(a, filler)
           t == ClampLeniency(l)
           f == CountFillers(a)
           g == Max({1, Len(a)})
           h == Max({1, Len(b)})
<1>1. b \in Seq(Word) /\ Len(b) = Len(a) + 1 /\ CountFillers(b) = f + 1
  BY OneMoreFiller
<1>2. Len(a) \in Nat /\ f \in 0 .. Len(a)
  BY FillersAreHeard
<1>3. \A k \in Nat : Max({1, k}) = IF 1 >= k THEN 1 ELSE k
  BY TwoMax
<1> HIDE DEF b, f
<1>4. /\ ComputeScores(e, a, l).hesitation = OutOf100(1400 * f, g * t)
      /\ t \in Nat \ {0} /\ g * t \in Nat \ {0}
  <2> DEFINE w == Max({1, Len(e)})
             r == Errors(AlignWords(e, a))
             m == Len(MispronouncedWords(AlignWords(e, a)))
  <2>1. ScoredBy(e, a, l, t, f, w, g, r, m)
    BY ScoresOf DEF f
  <2> HIDE DEF t, w, g, r, m
  <2> QED BY <2>1 DEF ScoredBy
<1>5. /\ ComputeScores(e, b, l).hesitation = OutOf100(1400 * (f + 1), h * t)
      /\ h * t \in Nat \ {0}
  <2>1. /\ ComputeScores(e, b, l).hesitation = OutOf100(1400 * CountFillers(b), h * t)
        /\ h * t \in Nat \ {0}
    <3> DEFINE w == Max({1, Len(e)})
               fb == CountFillers(b)
               r == Errors(AlignWords(e, b))
               m == Len(MispronouncedWords(AlignWords(e, b)))
    <3>1. ScoredBy(e, b, l, t, fb, w, h, r, m)
      BY <1>1, ScoresOf
    <3> HIDE DEF t, fb, w, h, r, m
    <3> QED BY <3>1 DEF ScoredBy, fb
  <2> QED BY <1>1, <2>1
<1>6. /\ g \in Nat \ {0} /\ h \in Nat \ {0}
      /\ f = 0 \/ (g = Len(a) /\ h = g + 1 /\ f <= g)
  <2>1. g = IF 1 >= Len(a) THEN 1 ELSE Len(a)
    BY <1>2, <1>3
  <2>2. h = Len(a) + 1
    <3>1. Len(b) \in Nat /\ Len(b) >= 1
      BY <1>1, <1>2
    <3>2. h = Len(b)
      <4> DEFINE k == Len(b)
      <4> HIDE DEF k
      <4>1. k \in Nat /\ k >= 1 => Max({1, k}) = k
        BY <1>3
      <4> QED BY <3>1, <4>1 DEF k
    <3> QED BY <1>1, <3>2
  <2> DEFINE k == Len(a)
  <2> HIDE DEF g, h
  <2>3. k \in Nat /\ f \in 0 .. k /\ g = (IF 1 >= k THEN 1 ELSE k) /\ h = k + 1
    BY <1>2, <2>1, <2>2
  <2> HIDE DEF k
  <2>4. /\ g \in Nat \ {0} /\ h \in Nat \ {0}
        /\ f = 0 \/ (g = k /\ h = g + 1 /\ f <= g)
    BY <2>3
  <2> QED BY <2>4 DEF k
<1> HIDE DEF g, h, t
<1>7. f * h <= (f + 1) * g
  <2>1. f \in Nat /\ f + 1 \in Nat
    BY <1>2
  <2>2. CASE f = 0
    BY <1>6, <2>2
  <2>3. CASE g = Len(a) /\ h = g + 1 /\ f <= g
    <3>1. f * h = f * g + f /\ (f + 1) * g = f * g + g /\ f * g \in Int
      BY <1>6, <2>1, <2>3
    <3> QED BY <1>6, <2>1, <2>3, <3>1
  <2> QED BY <1>6, <2>2, <2>3
<1>8. (1400 * f) * (h * t) <= (1400 * (f + 1)) * (g * t)
  <2>1. 1400 * t \in Nat \ {0} /\ f * h \in Int /\ (f + 1) * g \in Int
    BY <1>2, <1>4, <1>6
  <2>2. (f * h) * (1400 * t) <= ((f + 1) * g) * (1400 * t)
    BY <1>7, <2>1, TimesFactor
  <2>3. f \in Int /\ h \in Int /\ g \in Int /\ t \in Int
    BY <1>2, <1>4, <1>6
  <2>4. /\ (f * h) * (1400 * t) = (1400 * f) * (h * t)
        /\ ((f + 1) * g) * (1400 * t) = (1400 * (f + 1)) * (g * t)
    BY <2>3
  <2> QED BY <2>2, <2>4
<1>9. 1400 * f \in Int /\ 1400 * (f + 1) \in Int
  BY <1>2
<1> QED BY <1>4, <1>5, <1>8, <1>9, ScoresFall DEF b

\* The same errors weigh no more in a larger number.
LEMMA SameErrors ==
  ASSUME NEW n \in Nat, NEW x \in Nat \ {0}, NEW t \in Nat \ {0}, NEW u \in Nat \ {0}, t <= u
  PROVE  OutOf100(n, x * t) <= OutOf100(n, x * u)
<1> DEFINE xt == x * t
           xu == x * u
<1>1. xt \in Nat \ {0} /\ xu \in Nat \ {0}
  BY Products
<1>2. xt <= xu
  <2>1. t * x <= u * x
    BY TimesFactor
  <2>2. t * x = x * t /\ u * x = x * u
    OBVIOUS
  <2> QED BY <2>1, <2>2
<1> HIDE DEF xt, xu
<1>3. n * xt <= n * xu
  <2>1. CASE n = 0
    BY <1>1, <2>1
  <2>2. CASE n # 0
    <3>1. xt * n <= xu * n
      BY <1>1, <1>2, <2>2, TimesFactor
    <3>2. xt * n = n * xt /\ xu * n = n * xu
      BY <1>1
    <3> QED BY <3>1, <3>2
  <2> QED BY <2>1, <2>2
<1>4. OutOf100(n, xt) <= OutOf100(n, xu)
  <2>1. n \in Int
    OBVIOUS
  <2> QED BY ONLY <1>1, <1>3, <2>1, ScoresFall
<1> QED BY <1>4 DEF xt, xu

\* More leniency helps.
LEMMA LeniencyDoesHelp ==
  ASSUME NEW e \in Seq(Word), NEW a \in Seq(Word), NEW l \in Int, Leniencies \subseteq Int
  PROVE  LeniencyHelps(e, a, l)
<1> SUFFICES ASSUME NEW k \in Leniencies, l <= k
             PROVE  LET scores == ComputeScores(e, a, l)
                        lenient == ComputeScores(e, a, k)
                    IN \A field \in DOMAIN scores : scores[field] <= lenient[field]
  BY DEF LeniencyHelps
<1> DEFINE t == ClampLeniency(l)
           u == ClampLeniency(k)
           f == CountFillers(a)
           w == Max({1, Len(e)})
           g == Max({1, Len(a)})
           r == Errors(AlignWords(e, a))
           m == Len(MispronouncedWords(AlignWords(e, a)))
           scores == ComputeScores(e, a, l)
           lenient == ComputeScores(e, a, k)
<1>1. ScoredBy(e, a, l, t, f, w, g, r, m) /\ ScoredBy(e, a, k, u, f, w, g, r, m)
  BY ScoresOf
<1>2. t <= u
  BY LeniencyIsMonotone
<1> HIDE DEF t, u, f, w, g, r, m
<1> DEFINE n == 10 * (80 * f * w + (120 * m + 40 * r) * g)
<1>3. /\ scores = [hesitation |-> OutOf100(1400 * f, g * t),
                   confidence |-> OutOf100(1100 * r, w * t),
                   fluency |-> OutOf100(n, g * w * t)]
      /\ lenient = [hesitation |-> OutOf100(1400 * f, g * u),
                    confidence |-> OutOf100(1100 * r, w * u),
                    fluency |-> OutOf100(n, g * w * u)]
      /\ t \in Nat \ {0} /\ u \in Nat \ {0} /\ f \in Nat /\ w \in Nat \ {0}
      /\ g \in Nat \ {0} /\ r \in Nat /\ m \in Nat /\ g * w \in Nat \ {0}
  BY <1>1 DEF ScoredBy
<1>4. 1400 * f \in Nat /\ 1100 * r \in Nat /\ n \in Nat
  <2>1. 1400 * f \in Nat /\ 1100 * r \in Nat
    BY <1>3
  <2>2. 80 * f \in Nat /\ 120 * m + 40 * r \in Nat
    BY <1>3
  <2>3. \A x, y \in Nat : x * y \in Nat
    OBVIOUS
  <2>4. 80 * f * w \in Nat /\ (120 * m + 40 * r) * g \in Nat
    BY <1>3, <2>2, <2>3
  <2> DEFINE x == 80 * f * w
             y == (120 * m + 40 * r) * g
  <2>5. 10 * (x + y) \in Nat
    <3> HIDE DEF x, y
    <3>1. x \in Nat /\ y \in Nat
      BY <2>4 DEF x, y
    <3> QED BY <3>1
  <2> QED BY <2>1, <2>5
<1> HIDE DEF n, scores, lenient
<1>5. OutOf100(1400 * f, g * t) <= OutOf100(1400 * f, g * u)
  <2> DEFINE x == 1400 * f
  <2>1. x \in Nat
    BY <1>4
  <2> HIDE DEF x
  <2>2. OutOf100(x, g * t) <= OutOf100(x, g * u)
    BY <1>2, <1>3, <2>1, SameErrors
  <2> QED BY <2>2 DEF x
<1>6. OutOf100(1100 * r, w * t) <= OutOf100(1100 * r, w * u)
  <2> DEFINE x == 1100 * r
  <2>1. x \in Nat
    BY <1>4
  <2> HIDE DEF x
  <2>2. OutOf100(x, w * t) <= OutOf100(x, w * u)
    BY <1>2, <1>3, <2>1, SameErrors
  <2> QED BY <2>2 DEF x
<1>7. OutOf100(n, g * w * t) <= OutOf100(n, g * w * u)
  <2> DEFINE x == g * w
  <2>1. x \in Nat \ {0}
    BY <1>3
  <2> HIDE DEF x
  <2>2. n \in Nat /\ t \in Nat \ {0} /\ u \in Nat \ {0}
    BY <1>3, <1>4
  <2>3. OutOf100(n, x * t) <= OutOf100(n, x * u)
    BY ONLY <1>2, <2>1, <2>2, SameErrors
  <2> QED BY <2>3 DEF x
<1>8. \A field \in DOMAIN scores : scores[field] <= lenient[field]
  BY <1>3, <1>5, <1>6, <1>7
<1> QED BY <1>8 DEF scores, lenient

----------------------------------------------------------------------------
(* The cheapest alignment *)

\* The matchings of the first i words read with the first j words heard.
MatchingsOf(i, j) == {M \in SUBSET ((1 .. i) \X (1 .. j)) : InOrder(M)}

\* The pairs of a matching that differ.
Differing(M, e, a) == {p \in M : e[p[1]] # a[p[2]]}

\* What a matching of the first words costs.
Costs(M, e, a, i, j) == i + j - 2 * Cardinality(M) + Cardinality(Differing(M, e, a))

\* A matching is a finite set, and so is what differs in it.
LEMMA MatchingIsFinite ==
  ASSUME NEW e, NEW a, NEW i \in Nat, NEW j \in Nat, NEW M \in MatchingsOf(i, j)
  PROVE  /\ IsFiniteSet(M) /\ Cardinality(M) \in Nat
         /\ IsFiniteSet(Differing(M, e, a)) /\ Cardinality(Differing(M, e, a)) \in Nat
<1>1. IsFiniteSet(1 .. i) /\ IsFiniteSet(1 .. j)
  BY FS_Interval
<1>2. IsFiniteSet((1 .. i) \X (1 .. j))
  BY <1>1, FS_Product
<1>3. M \in SUBSET ((1 .. i) \X (1 .. j)) /\ Differing(M, e, a) \in SUBSET M
  BY DEF MatchingsOf, Differing
<1>4. IsFiniteSet(M)
  BY <1>2, <1>3, FS_Subset
<1>5. IsFiniteSet(Differing(M, e, a))
  BY <1>3, <1>4, FS_Subset
<1> QED BY <1>4, <1>5, FS_CardinalityType

\* A matching with nothing on one side is empty.
LEMMA EmptyMatching ==
  ASSUME NEW e, NEW a, NEW i \in Nat, NEW j \in Nat
  PROVE  /\ {} \in MatchingsOf(i, j) /\ Costs({}, e, a, i, j) = i + j
         /\ i = 0 \/ j = 0 => \A M \in MatchingsOf(i, j) : M = {}
<1>1. {} \in MatchingsOf(i, j)
  BY DEF MatchingsOf, InOrder
<1>2. Differing({}, e, a) = {} /\ Cardinality({}) = 0
  BY FS_EmptySet DEF Differing
<1>3. ASSUME i = 0 \/ j = 0, NEW M \in MatchingsOf(i, j) PROVE M = {}
  <2>1. M \in SUBSET ((1 .. i) \X (1 .. j))
    BY DEF MatchingsOf
  <2>2. 1 .. i = {} \/ 1 .. j = {}
    BY <1>3
  <2> QED BY <2>1, <2>2
<1>4. Costs({}, e, a, i, j) = i + j
  <2>1. Costs({}, e, a, i, j) = i + j - 2 * 0 + 0
    BY <1>2 DEF Costs
  <2> QED BY <2>1
<1> QED BY <1>1, <1>3, <1>4

\* A matching of fewer words is one of more, with the one that was left out.
LEMMA OneLeftOut ==
  ASSUME NEW e, NEW a, NEW i \in Nat, NEW j \in Nat, NEW k, k = i + 1,
         NEW M \in MatchingsOf(i, j)
  PROVE  M \in MatchingsOf(k, j) /\ Costs(M, e, a, k, j) = Costs(M, e, a, i, j) + 1
<1>1. 1 .. i \subseteq 1 .. k
  OBVIOUS
<1>2. (1 .. i) \X (1 .. j) \subseteq (1 .. k) \X (1 .. j)
  BY <1>1
<1>3. M \in MatchingsOf(k, j)
  BY <1>2 DEF MatchingsOf
<1>4. Cardinality(M) \in Nat /\ Cardinality(Differing(M, e, a)) \in Nat
  BY MatchingIsFinite
<1> QED BY <1>3, <1>4 DEF Costs

\* A matching of fewer words is one of more, with the one that was put in.
LEMMA OnePutIn ==
  ASSUME NEW e, NEW a, NEW i \in Nat, NEW j \in Nat, NEW l, l = j + 1,
         NEW M \in MatchingsOf(i, j)
  PROVE  M \in MatchingsOf(i, l) /\ Costs(M, e, a, i, l) = Costs(M, e, a, i, j) + 1
<1>1. 1 .. j \subseteq 1 .. l
  OBVIOUS
<1>2. (1 .. i) \X (1 .. j) \subseteq (1 .. i) \X (1 .. l)
  BY <1>1
<1>3. M \in MatchingsOf(i, l)
  BY <1>2 DEF MatchingsOf
<1>4. Cardinality(M) \in Nat /\ Cardinality(Differing(M, e, a)) \in Nat
  BY MatchingIsFinite
<1> QED BY <1>3, <1>4 DEF Costs

\* The last words of both sides may be matched with each other.
LEMMA LastMatched ==
  ASSUME NEW e, NEW a, NEW i \in Nat, NEW j \in Nat, NEW k, k = i + 1, NEW l, l = j + 1,
         NEW M \in MatchingsOf(i, j), NEW N, N = M \cup {<<k, l>>}
  PROVE  /\ N \in MatchingsOf(k, l)
         /\ Costs(N, e, a, k, l) = Costs(M, e, a, i, j) + (IF e[k] = a[l] THEN 0 ELSE 1)
<1>1. \A p \in M : p = <<p[1], p[2]>> /\ p[1] \in 1 .. i /\ p[2] \in 1 .. j
  BY DEF MatchingsOf
<1>2. N \in SUBSET ((1 .. k) \X (1 .. l)) /\ <<k, l>> \notin M
  <2>1. \A p \in M : p \in (1 .. k) \X (1 .. l) /\ p # <<k, l>>
    <3> SUFFICES ASSUME NEW p \in M PROVE p[1] \in 1 .. k /\ p[2] \in 1 .. l /\ p[1] # k
      BY <1>1
    <3> QED BY <1>1
  <2> QED BY <2>1
<1>3. InOrder(N)
  <2>1. InOrder(M)
    BY DEF MatchingsOf
  <2>2. \A p \in M : p[1] < k /\ p[2] < l
    BY <1>1
  <2> SUFFICES ASSUME NEW p \in N, NEW q \in N, p # q
               PROVE  (p[1] < q[1] /\ p[2] < q[2]) \/ (p[1] > q[1] /\ p[2] > q[2])
    BY DEF InOrder
  <2>3. CASE p \in M /\ q \in M
    BY <2>1, <2>3 DEF InOrder
  <2>4. CASE p \in M /\ q = <<k, l>>
    BY <2>2, <2>4
  <2>5. CASE q \in M /\ p = <<k, l>>
    <3>1. q[1] < k /\ q[2] < l /\ p[1] = k /\ p[2] = l /\ q[1] \in Int /\ q[2] \in Int
      BY <1>1, <2>2, <2>5
    <3> QED BY <3>1
  <2> QED BY <2>3, <2>4, <2>5
<1>4. N \in MatchingsOf(k, l)
  BY <1>2, <1>3 DEF MatchingsOf
<1>5. /\ IsFiniteSet(M) /\ Cardinality(M) \in Nat
      /\ IsFiniteSet(Differing(M, e, a)) /\ Cardinality(Differing(M, e, a)) \in Nat
  BY MatchingIsFinite
<1>6. Cardinality(N) = Cardinality(M) + 1
  BY <1>2, <1>5, FS_AddElement
<1>7. Cardinality(Differing(N, e, a)) =
        Cardinality(Differing(M, e, a)) + (IF e[k] = a[l] THEN 0 ELSE 1)
  <2>1. CASE e[k] = a[l]
    <3>1. Differing(N, e, a) = Differing(M, e, a)
      BY <2>1 DEF Differing
    <3> QED BY <1>5, <2>1, <3>1
  <2>2. CASE e[k] # a[l]
    <3>1. /\ Differing(N, e, a) = Differing(M, e, a) \cup {<<k, l>>}
          /\ <<k, l>> \notin Differing(M, e, a)
      BY <1>2, <2>2 DEF Differing
    <3> QED BY <1>5, <2>2, <3>1, FS_AddElement
  <2> QED BY <2>1, <2>2
<1>8. Costs(N, e, a, k, l) = Costs(M, e, a, i, j) + (IF e[k] = a[l] THEN 0 ELSE 1)
  BY <1>5, <1>6, <1>7 DEF Costs
<1> QED BY <1>4, <1>8

\* Of the last words either both are matched with each other, or one of them is
\* not matched at all: they cannot both be matched elsewhere in order.
LEMMA LastWords ==
  ASSUME NEW i \in Nat, NEW j \in Nat, NEW k, k = i + 1, NEW l, l = j + 1,
         NEW M \in MatchingsOf(k, l)
  PROVE  \/ M \in MatchingsOf(i, l)
         \/ M \in MatchingsOf(k, j)
         \/ \E N \in MatchingsOf(i, j) : M = N \cup {<<k, l>>}
<1>1. \A p \in M : p = <<p[1], p[2]>> /\ p[1] \in 1 .. k /\ p[2] \in 1 .. l
  BY DEF MatchingsOf
<1>2. \A p, q \in M : p # q => (p[1] < q[1] /\ p[2] < q[2]) \/ (p[1] > q[1] /\ p[2] > q[2])
  BY DEF MatchingsOf, InOrder
<1>3. CASE \A p \in M : p[1] # k
  <2>1. \A p \in M : p[1] \in 1 .. i
    BY <1>1, <1>3
  <2>2. M \in SUBSET ((1 .. i) \X (1 .. l))
    BY <1>1, <2>1
  <2> QED BY <2>2 DEF MatchingsOf
<1>4. CASE \A p \in M : p[2] # l
  <2>1. \A p \in M : p[2] \in 1 .. j
    BY <1>1, <1>4
  <2>2. M \in SUBSET ((1 .. k) \X (1 .. j))
    BY <1>1, <2>1
  <2> QED BY <2>2 DEF MatchingsOf
<1>5. ASSUME NEW p \in M, NEW q \in M, p[1] = k, q[2] = l
      PROVE  \E N \in MatchingsOf(i, j) : M = N \cup {<<k, l>>}
  <2>1. p = q
    <3> SUFFICES ASSUME p # q PROVE FALSE
      OBVIOUS
    <3>1. p[2] \in 1 .. l /\ q[1] \in 1 .. k
      BY <1>1
    <3> QED BY <1>2, <1>5, <3>1
  <2>2. p = <<k, l>>
    BY <1>1, <1>5, <2>1
  <2> DEFINE N == M \ {p}
  <2>3. \A x \in N : x[1] \in 1 .. i /\ x[2] \in 1 .. j
    <3> SUFFICES ASSUME NEW x \in N PROVE x[1] \in 1 .. i /\ x[2] \in 1 .. j
      OBVIOUS
    <3>1. x \in M /\ x # p /\ x[1] \in 1 .. k /\ x[2] \in 1 .. l
      BY <1>1
    <3>2. (x[1] < p[1] /\ x[2] < p[2]) \/ (x[1] > p[1] /\ x[2] > p[2])
      BY <1>2, <3>1
    <3> QED BY <1>5, <2>1, <3>1, <3>2
  <2>4. N \in SUBSET ((1 .. i) \X (1 .. j))
    BY <1>1, <2>3
  <2>5. InOrder(N)
    BY <1>2 DEF InOrder
  <2>6. N \in MatchingsOf(i, j)
    BY <2>4, <2>5 DEF MatchingsOf
  <2> QED BY <2>2, <2>6
<1> QED BY <1>3, <1>4, <1>5

\* A cell of the table holds the least cost of a matching.
Cheapest(dp, e, a, i, j) ==
  /\ \A M \in MatchingsOf(i, j) : dp[<<i, j>>] <= Costs(M, e, a, i, j)
  /\ \E M \in MatchingsOf(i, j) : dp[<<i, j>>] = Costs(M, e, a, i, j)

\* What a matching costs is a number.
LEMMA CostIsInt ==
  ASSUME NEW e, NEW a, NEW i \in Nat, NEW j \in Nat, NEW M \in MatchingsOf(i, j)
  PROVE  Costs(M, e, a, i, j) \in Int
<1>1. Cardinality(M) \in Nat /\ Cardinality(Differing(M, e, a)) \in Nat
  BY MatchingIsFinite
<1> QED BY <1>1 DEF Costs

\* A cell holds the least cost when the three cells it looks at do.
LEMMA CheapestStep ==
  ASSUME NEW e, NEW a, NEW i \in Nat, NEW j \in Nat, NEW k, k = i + 1, NEW l, l = j + 1, NEW dp,
         dp[<<i, l>>] \in Nat, dp[<<k, j>>] \in Nat, dp[<<i, j>>] \in Nat,
         dp[<<k, l>>] = Min({dp[<<i, l>>] + 1, dp[<<k, j>>] + 1,
                             dp[<<i, j>>] + (IF e[k] = a[l] THEN 0 ELSE 1)}),
         Cheapest(dp, e, a, i, l), Cheapest(dp, e, a, k, j), Cheapest(dp, e, a, i, j)
  PROVE  Cheapest(dp, e, a, k, l)
<1> DEFINE c == IF e[k] = a[l] THEN 0 ELSE 1
           x == dp[<<i, l>>]
           y == dp[<<k, j>>]
           z == dp[<<i, j>>]
           d == dp[<<k, l>>]
<1>1. /\ d \in {x + 1, y + 1, z + c} /\ d <= x + 1 /\ d <= y + 1 /\ d <= z + c
      /\ x \in Nat /\ y \in Nat /\ z \in Nat /\ c \in Nat /\ d \in Nat
  <2>1. x \in Nat /\ y \in Nat /\ z \in Nat /\ c \in Nat
    OBVIOUS
  <2>2. d = Min({x + 1, y + 1, z + c})
    OBVIOUS
  <2> HIDE DEF c, x, y, z, d
  <2>3. x + 1 \in Int /\ y + 1 \in Int /\ z + c \in Int
    BY <2>1
  <2>4. d \in {x + 1, y + 1, z + c} /\ d <= x + 1 /\ d <= y + 1 /\ d <= z + c
    BY <2>2, <2>3, ThreeMin
  <2> QED BY <2>1, <2>4
<1>2. k \in Nat /\ l \in Nat
  OBVIOUS
<1>3. /\ \A M \in MatchingsOf(i, l) : x <= Costs(M, e, a, i, l)
      /\ \E M \in MatchingsOf(i, l) : x = Costs(M, e, a, i, l)
      /\ \A M \in MatchingsOf(k, j) : y <= Costs(M, e, a, k, j)
      /\ \E M \in MatchingsOf(k, j) : y = Costs(M, e, a, k, j)
      /\ \A M \in MatchingsOf(i, j) : z <= Costs(M, e, a, i, j)
      /\ \E M \in MatchingsOf(i, j) : z = Costs(M, e, a, i, j)
  BY DEF Cheapest
<1>4. ASSUME NEW M \in MatchingsOf(i, l)
      PROVE  M \in MatchingsOf(k, l) /\ Costs(M, e, a, k, l) = Costs(M, e, a, i, l) + 1
  BY <1>2, OneLeftOut
<1>5. ASSUME NEW M \in MatchingsOf(k, j)
      PROVE  M \in MatchingsOf(k, l) /\ Costs(M, e, a, k, l) = Costs(M, e, a, k, j) + 1
  BY <1>2, OnePutIn
<1>6. ASSUME NEW M \in MatchingsOf(i, j), NEW N, N = M \cup {<<k, l>>}
      PROVE  N \in MatchingsOf(k, l) /\ Costs(N, e, a, k, l) = Costs(M, e, a, i, j) + c
  <2>1. /\ N \in MatchingsOf(k, l)
        /\ Costs(N, e, a, k, l) = Costs(M, e, a, i, j) + (IF e[k] = a[l] THEN 0 ELSE 1)
    BY <1>6, LastMatched
  <2> QED BY <2>1
<1> HIDE DEF c, x, y, z, d
<1>7. ASSUME NEW M \in MatchingsOf(k, l) PROVE d <= Costs(M, e, a, k, l)
  <2>1. CASE M \in MatchingsOf(i, l)
    <3>1. Costs(M, e, a, i, l) \in Int
      BY <1>2, <2>1, CostIsInt
    <3> QED BY <1>1, <1>3, <1>4, <2>1, <3>1
  <2>2. CASE M \in MatchingsOf(k, j)
    <3>1. Costs(M, e, a, k, j) \in Int
      BY <1>2, <2>2, CostIsInt
    <3> QED BY <1>1, <1>3, <1>5, <2>2, <3>1
  <2>3. ASSUME NEW N \in MatchingsOf(i, j), M = N \cup {<<k, l>>}
        PROVE  d <= Costs(M, e, a, k, l)
    <3>1. Costs(N, e, a, i, j) \in Int
      BY CostIsInt
    <3> QED BY <1>1, <1>3, <1>6, <2>3, <3>1
  <2> QED BY <2>1, <2>2, <2>3, LastWords
<1>8. \E M \in MatchingsOf(k, l) : d = Costs(M, e, a, k, l)
  <2>1. CASE d = x + 1
    <3>1. PICK M \in MatchingsOf(i, l) : x = Costs(M, e, a, i, l)
      BY <1>3
    <3> QED BY <1>4, <2>1, <3>1
  <2>2. CASE d = y + 1
    <3>1. PICK M \in MatchingsOf(k, j) : y = Costs(M, e, a, k, j)
      BY <1>3
    <3> QED BY <1>5, <2>2, <3>1
  <2>3. CASE d = z + c
    <3>1. PICK M \in MatchingsOf(i, j) : z = Costs(M, e, a, i, j)
      BY <1>3
    <3> QED BY <1>6, <2>3, <3>1
  <2> QED BY <1>1, <2>1, <2>2, <2>3
<1> QED BY <1>7, <1>8 DEF Cheapest, d

\* The table of align_words holds the least cost in every cell.
LEMMA DistancesAreCheapest ==
  ASSUME NEW e \in Seq(Word), NEW a \in Seq(Word)
  PROVE  \A i \in 0 .. Len(e), j \in 0 .. Len(a) : Cheapest(Distances(e, a), e, a, i, j)
<1> DEFINE dp == Distances(e, a)
           m == Len(e)
           n == Len(a)
<1>1. m \in Nat /\ n \in Nat
  OBVIOUS
<1>2. Counts(dp, e, a)
  BY <1>1, DistancesCount
<1> HIDE DEF dp, m, n
<1>3. ASSUME NEW i \in 0 .. m, NEW j \in 0 .. n, i = 0 \/ j = 0
      PROVE  Cheapest(dp, e, a, i, j)
  <2>1. dp[<<i, j>>] = i + j
    BY <1>2, <1>3 DEF Counts, m, n
  <2>2. i \in Nat /\ j \in Nat /\ i + j \in Nat
    BY <1>1
  <2>3. /\ {} \in MatchingsOf(i, j) /\ Costs({}, e, a, i, j) = i + j
        /\ \A M \in MatchingsOf(i, j) : M = {}
    <3>1. {} \in MatchingsOf(i, j) /\ Costs({}, e, a, i, j) = i + j
      BY <2>2, EmptyMatching
    <3>2. ASSUME NEW M \in MatchingsOf(i, j) PROVE M = {}
      BY <1>3, <2>2, EmptyMatching
    <3> QED BY <3>1, <3>2
  <2> DEFINE k == i + j
             d == dp[<<i, j>>]
  <2>4. k \in Nat /\ d = k /\ Costs({}, e, a, i, j) = k
    BY <2>1, <2>2, <2>3
  <2> HIDE DEF k
  <2>5. \A M \in MatchingsOf(i, j) : d <= Costs(M, e, a, i, j)
    <3>1. \A M \in MatchingsOf(i, j) : Costs(M, e, a, i, j) = k
      BY <2>3, <2>4
    <3> HIDE DEF d
    <3> QED BY <2>4, <3>1
  <2> QED BY <2>3, <2>4, <2>5 DEF Cheapest
<1>4. ASSUME NEW i \in 0 .. m, NEW j \in 0 .. n, NEW k \in 0 .. m, NEW l \in 0 .. n,
             k = i + 1, l = j + 1,
             Cheapest(dp, e, a, i, l), Cheapest(dp, e, a, k, j), Cheapest(dp, e, a, i, j)
      PROVE  Cheapest(dp, e, a, k, l)
  <2>1. i \in Nat /\ j \in Nat /\ k > 0 /\ l > 0 /\ k - 1 = i /\ l - 1 = j
    BY <1>1, <1>4
  <2>2. dp[<<i, l>>] \in Nat /\ dp[<<k, j>>] \in Nat /\ dp[<<i, j>>] \in Nat
    BY <1>2 DEF Counts, m, n
  <2>3. dp[<<k, l>>] = Min({dp[<<i, l>>] + 1, dp[<<k, j>>] + 1,
                            dp[<<i, j>>] + (IF e[k] = a[l] THEN 0 ELSE 1)})
    BY <1>2, <2>1 DEF Counts, m, n
  <2> QED BY <1>4, <2>1, <2>2, <2>3, CheapestStep
<1> DEFINE Row(i) == \A j \in 0 .. n : Cheapest(dp, e, a, i, j)
           P == {i \in Nat : i <= m => Row(i)}
<1>5. 0 \in P
  BY <1>1, <1>3
<1>6. ASSUME NEW i \in Nat, i \in P PROVE i + 1 \in P
  <2> SUFFICES ASSUME i + 1 <= m PROVE Row(i + 1)
    OBVIOUS
  <2>1. i \in 0 .. m /\ i + 1 \in 0 .. m /\ Row(i)
    BY <1>1, <1>6
  <2> DEFINE Q == {j \in Nat : j <= n => Cheapest(dp, e, a, i + 1, j)}
  <2>2. 0 \in Q
    <3>1. 0 \in 0 .. n
      BY <1>1
    <3> QED BY <1>3, <2>1, <3>1
  <2>3. ASSUME NEW j \in Nat, j \in Q PROVE j + 1 \in Q
    <3> SUFFICES ASSUME j + 1 <= n PROVE Cheapest(dp, e, a, i + 1, j + 1)
      OBVIOUS
    <3>1. j \in 0 .. n /\ j + 1 \in 0 .. n
      BY <1>1
    <3>2. Cheapest(dp, e, a, i + 1, j)
      BY <1>1, <2>3, <3>1
    <3>3. Cheapest(dp, e, a, i, j + 1) /\ Cheapest(dp, e, a, i, j)
      BY <2>1, <3>1
    <3> QED BY <1>4, <2>1, <3>1, <3>2, <3>3
  <2>4. Nat \subseteq Q
    <3> HIDE DEF Q
    <3> QED BY <2>2, <2>3, NumberInduction
  <2> QED BY <1>1, <2>4
<1>7. Nat \subseteq P
  <2> HIDE DEF P
  <2> QED BY <1>5, <1>6, NumberInduction
<1> QED BY <1>1, <1>7 DEF dp, m, n

\* A finite set of numbers has a largest.
LEMMA MaxOfFinite ==
  ASSUME NEW S, IsFiniteSet(S), S \subseteq Nat, S # {}
  PROVE  Max(S) \in S /\ \A x \in S : x <= Max(S)
<1> DEFINE P == {T \in SUBSET S : T # {} => \E m \in T : \A x \in T : x <= m}
<1>1. {} \in P
  OBVIOUS
<1>2. ASSUME NEW T \in SUBSET S, NEW y \in S \ T, T \in P PROVE T \cup {y} \in P
  <2>1. CASE T = {}
    BY <2>1
  <2>2. CASE T # {}
    <3>1. PICK m \in T : \A x \in T : x <= m
      BY <1>2, <2>2
    <3>2. CASE m <= y
      <4>1. \A x \in T \cup {y} : x <= y
        BY <3>1, <3>2
      <4> QED BY <4>1
    <3>3. CASE y <= m
      <4>1. \A x \in T \cup {y} : x <= m
        BY <3>1, <3>3
      <4> QED BY <4>1
    <3> QED BY <3>2, <3>3
  <2> QED BY <2>1, <2>2
<1>3. S \in P
  <2> HIDE DEF P
  <2> QED BY <1>1, <1>2, SubsetInduction
<1>4. \E m \in S : \A x \in S : x <= m
  BY <1>3
<1> QED BY <1>4 DEF Max

\* No text is longer than the longest.
LEMMA LongestText == MaxLength \in Nat /\ \A t \in Texts : Len(t) \in 0 .. MaxLength
<1> DEFINE L == {Len(t) : t \in Texts}
           S == L \cup {0}
<1>1. IsFiniteSet(Texts) /\ \A t \in Texts : t \in Seq(Word)
  BY TextsAssumption
<1>2. \A t \in Texts : Len(t) \in Nat
  BY <1>1, LenProperties
<1>3. IsFiniteSet(L)
  <2> DEFINE f == [t \in Texts |-> Len(t)]
  <2>1. f \in Surjection(Texts, L)
    BY DEF Surjection
  <2> HIDE DEF f, L
  <2> QED BY <1>1, <2>1, FS_Surjection
<1>4. IsFiniteSet(S)
  <2> HIDE DEF L
  <2> QED BY <1>3, FS_AddElement
<1>5. S \subseteq Nat /\ S # {}
  BY <1>2
<1>6. MaxLength = Max(S)
  BY DEF MaxLength
<1>7. Max(S) \in S /\ \A x \in S : x <= Max(S)
  <2> HIDE DEF S
  <2> QED BY <1>4, <1>5, MaxOfFinite
<1>8. \A t \in Texts : Len(t) \in S
  OBVIOUS
<1> HIDE DEF S
<1>9. MaxLength \in Nat
  BY <1>5, <1>6, <1>7
<1>10. ASSUME NEW t \in Texts PROVE Len(t) \in 0 .. MaxLength
  <2> DEFINE k == Len(t)
  <2>1. k \in Nat /\ k <= MaxLength
    BY <1>2, <1>6, <1>7, <1>8
  <2> HIDE DEF k
  <2>2. k \in 0 .. MaxLength
    BY <1>9, <2>1
  <2> QED BY <2>2 DEF k
<1> QED BY <1>9, <1>10

\* The matchings of two texts.
LEMMA MatchingsAre ==
  ASSUME NEW e \in Texts, NEW a \in Texts
  PROVE  /\ Matchings[<<Len(e), Len(a)>>] = MatchingsOf(Len(e), Len(a))
         /\ \A M : CostOf(M, e, a) = Costs(M, e, a, Len(e), Len(a))
<1>1. <<Len(e), Len(a)>> \in (0 .. MaxLength) \X (0 .. MaxLength)
  BY LongestText
<1>2. Matchings[<<Len(e), Len(a)>>] = MatchingsOf(Len(e), Len(a))
  BY <1>1 DEF Matchings, MatchingsOf
<1> QED BY <1>2 DEF CostOf, Costs, Differing

\* No matching of two texts has fewer errors than their alignment.
LEMMA ErrorsAreCheapest ==
  ASSUME NEW e \in Texts, NEW a \in Texts
  PROVE  Errors(AlignWords(e, a)) =
           Min({CostOf(M, e, a) : M \in Matchings[<<Len(e), Len(a)>>]})
<1> DEFINE m == Len(e)
           n == Len(a)
           d == Distances(e, a)[<<m, n>>]
           S == {CostOf(M, e, a) : M \in Matchings[<<m, n>>]}
<1>1. e \in Seq(Word) /\ a \in Seq(Word)
  BY TextsAssumption
<1>2. m \in Nat /\ n \in Nat /\ m \in 0 .. m /\ n \in 0 .. n
  BY <1>1, LenProperties
<1>3. Errors(AlignWords(e, a)) = d
  BY <1>1, AlignWordsAligns DEF Aligns
<1>4. Cheapest(Distances(e, a), e, a, m, n)
  BY <1>1, <1>2, DistancesAreCheapest
<1>5. S = {Costs(M, e, a, m, n) : M \in MatchingsOf(m, n)}
  BY MatchingsAre
<1>6. \A M \in MatchingsOf(m, n) : Costs(M, e, a, m, n) \in Int
  <2> HIDE DEF m, n
  <2> QED BY <1>2, CostIsInt
<1> HIDE DEF m, n, S
<1>7. d \in S /\ \A x \in S : d <= x
  BY <1>4, <1>5 DEF Cheapest
<1>8. S \subseteq Int
  BY <1>5, <1>6
<1> HIDE DEF d
<1>9. Min(S) = d
  <2> DEFINE l == Min(S)
  <2>1. l \in S /\ \A x \in S : l <= x
    BY <1>7 DEF Min
  <2> HIDE DEF l
  <2>2. l \in Int /\ d \in Int /\ l <= d /\ d <= l
    BY <1>7, <1>8, <2>1
  <2> QED BY <2>2 DEF l
<1> QED BY <1>3, <1>9 DEF S, m, n

\* The step of Side.
Shown(words, v) == IF v = "" THEN words ELSE Append(words, v)

\* Side is what the steps make of one side of the pairs from first to last.
LEMMA SideSteps ==
  ASSUME NEW al \in Seq(AlignedPair), NEW field, NEW w \in Seq(MaybeWord),
         Len(w) = Len(al), \A k \in DOMAIN al : al[k][field] = w[k]
  PROVE  \E g : /\ g[0] = <<>>
                /\ \A k \in 1 .. Len(w) : g[k] = Shown(g[k - 1], w[k])
                /\ Side(al, field) = g[Len(w)]
<1> DEFINE n == Len(w)
           A == Seq(MaybeWord)
           step == [q \in A \X (1 .. n) |-> Shown(q[1], w[q[2]])]
           Solved(it) == it = [s \in SUBSET (1 .. n) |->
             IF s = {} THEN <<>> ELSE Shown(it[s \ {Max(s)}], al[Max(s)][field])]
           sol == CHOOSE it : Solved(it)
<1>1. n \in Nat /\ DOMAIN al = 1 .. n /\ \A k \in 1 .. n : w[k] \in MaybeWord /\ al[k][field] = w[k]
  OBVIOUS
<1> HIDE DEF n, A
<1>2. \A y \in A : \A x \in 1 .. n : step[<<y, x>>] = Shown(y, w[x])
  OBVIOUS
<1> HIDE DEF step
<1>3. <<>> \in A
  BY EmptySequence DEF A
<1>4. \A y \in A : \A x \in 1 .. n : Shown(y, w[x]) \in A
  BY <1>1, AppendedIn DEF A, Shown
<1>5. Foldable(1 .. n, A, <<>>, Latest(n), step)
  <2>1. \A x \in 1 .. n : \A y \in A : step[<<y, x>>] \in A
    BY <1>2, <1>4
  <2> QED BY <1>1, <1>3, <2>1, LatestIsFoldable
<1>6. PICK it : IsFold(it, 1 .. n, A, <<>>, Latest(n), step)
  BY <1>5, FoldHasASolution
<1>7. ASSUME NEW s \in SUBSET (1 .. n)
      PROVE  it[s] = IF s = {} THEN <<>> ELSE Shown(it[s \ {Max(s)}], al[Max(s)][field])
  <2>1. s # {} => Max(s) \in 1 .. n /\ it[s \ {Max(s)}] \in A /\ Latest(n)[s] = Max(s)
    BY <1>1, <1>6, MaxIn DEF Latest, IsFold
  <2> QED BY <1>1, <1>2, <1>6, <2>1 DEF IsFold
<1>8. Solved(sol)
  <2>1. Solved(it)
    BY <1>6, <1>7 DEF IsFold
  <2> HIDE DEF Solved
  <2> QED BY <2>1
<1>9. Side(al, field) = sol[1 .. n]
  <2>1. Len(al) = n
    BY DEF n
  <2> QED BY <1>1, <2>1 DEF Side, FoldLeft, MapThenFoldSet, Shown
<1>10. sol[{}] = <<>>
  <2> HIDE DEF sol
  <2> QED BY <1>8
<1>11. ASSUME NEW k \in 1 .. n PROVE sol[1 .. k] = Shown(sol[1 .. k - 1], w[k])
  <2> DEFINE s == 1 .. k
  <2>1. s # {} /\ s \in SUBSET (1 .. n) /\ Max(s) = k /\ s \ {k} = 1 .. k - 1
    BY <1>1, FirstsShrink
  <2> HIDE DEF sol, s
  <2>2. sol[s] = Shown(sol[s \ {k}], al[k][field])
    BY <1>8, <2>1
  <2> QED BY <1>1, <2>1, <2>2 DEF s
<1> DEFINE g == [k \in 0 .. n |-> sol[1 .. k]]
<1> HIDE DEF sol, Solved
<1>12. g[0] = <<>>
  <2>1. 1 .. 0 = {} /\ 0 \in 0 .. n
    BY <1>1
  <2> QED BY <1>10, <2>1
<1>13. \A k \in 1 .. n : g[k] = Shown(g[k - 1], w[k])
  <2> SUFFICES ASSUME NEW k \in 1 .. n PROVE g[k] = Shown(g[k - 1], w[k])
    OBVIOUS
  <2>1. k \in 0 .. n /\ k - 1 \in 0 .. n
    BY <1>1
  <2> QED BY <1>11, <2>1
<1>14. Side(al, field) = g[n]
  BY <1>1, <1>9
<1> HIDE DEF g
<1> QED BY <1>12, <1>13, <1>14 DEF n

\* A side that spells all words of a text is the text.
LEMMA SpelledIsShown ==
  ASSUME NEW w, NEW text \in Seq(Word), Spells(w, text, Len(text)), NEW g, g[0] = <<>>,
         \A k \in 1 .. Len(w) : g[k] = Shown(g[k - 1], w[k])
  PROVE  g[Len(w)] = text
<1> DEFINE n == Len(w)
           Good(k) == /\ g[k] \in Seq(MaybeWord) /\ Len(g[k]) = WordsBefore(w, k)
                      /\ \A l \in 1 .. Len(g[k]) : g[k][l] = text[l]
           Q == {k \in Nat : k <= n => Good(k)}
<1>1. /\ w \in Seq(MaybeWord) /\ WordsBefore(w, n) = Len(text)
      /\ \A k \in DOMAIN w : Said(w[k]) => text[WordsBefore(w, k - 1) + 1] = w[k]
  BY DEF Spells
<1>2. n \in Nat /\ DOMAIN w = 1 .. n /\ \A k \in 1 .. n : w[k] \in MaybeWord
  BY <1>1
<1>3. 0 \in Q
  <2>1. WordsBefore(w, 0) = 0
    <3>1. {l \in 1 .. 0 : Said(w[l])} = {}
      OBVIOUS
    <3> QED BY <3>1, FS_EmptySet DEF WordsBefore
  <2>2. <<>> \in Seq(MaybeWord) /\ Len(<<>>) = 0
    BY EmptySequence
  <2>3. Good(0)
    BY <2>1, <2>2
  <2> QED BY <2>3
<1>4. ASSUME NEW k \in Nat, k \in Q PROVE k + 1 \in Q
  <2> HIDE DEF Good
  <2> SUFFICES ASSUME k + 1 <= n PROVE Good(k + 1)
    OBVIOUS
  <2>1. k + 1 \in 1 .. n /\ (k + 1) - 1 = k /\ k <= n /\ Good(k)
    BY <1>2, <1>4
  <2> HIDE DEF n, Q
  <2>2. g[k] \in Seq(MaybeWord) /\ Len(g[k]) = WordsBefore(w, k)
        /\ \A l \in 1 .. Len(g[k]) : g[k][l] = text[l]
    BY <2>1 DEF Good
  <2> DEFINE F == {l \in 1 .. k : Said(w[l])}
             N == {l \in 1 .. k + 1 : Said(w[l])}
             s == g[k]
             v == w[k + 1]
  <2>3. IsFiniteSet(F) /\ k + 1 \notin F
    <3>1. IsFiniteSet(1 .. k)
      BY FS_Interval
    <3> QED BY <3>1, FS_Subset
  <2>4. g[k + 1] = Shown(s, v)
    BY <2>1 DEF n
  <2>5. WordsBefore(w, k) = Cardinality(F) /\ WordsBefore(w, k + 1) = Cardinality(N)
    BY DEF WordsBefore
  <2>6. CASE Said(v)
    <3>1. N = F \cup {k + 1}
      BY <2>6
    <3>2. WordsBefore(w, k + 1) = WordsBefore(w, k) + 1
      <4> HIDE DEF F, N
      <4> QED BY <2>3, <2>5, <3>1, FS_AddElement
    <3>3. text[WordsBefore(w, k) + 1] = v
      <4>1. k + 1 \in DOMAIN w /\ (k + 1) - 1 = k
        BY <1>2, <2>1 DEF n
      <4>2. text[WordsBefore(w, (k + 1) - 1) + 1] = w[k + 1]
        BY <1>1, <2>6, <4>1
      <4> QED BY <4>1, <4>2
    <3>4. v \in MaybeWord
      BY <1>2, <2>1
    <3> HIDE DEF s, v
    <3>5. s \in Seq(MaybeWord) /\ g[k + 1] = Append(s, v)
      BY <2>2, <2>4, <2>6 DEF Shown, Said, s
    <3>6. /\ Append(s, v) \in Seq(MaybeWord) /\ Len(s) \in Nat /\ Len(Append(s, v)) = Len(s) + 1
          /\ \A l \in 1 .. Len(s) : Append(s, v)[l] = s[l]
          /\ Append(s, v)[Len(s) + 1] = v
      BY <3>4, <3>5, Appended
    <3>7. Len(s) = WordsBefore(w, k) /\ \A l \in 1 .. Len(s) : s[l] = text[l]
      BY <2>2 DEF s
    <3>8. \A l \in 1 .. Len(Append(s, v)) : Append(s, v)[l] = text[l]
      <4> DEFINE q == Append(s, v)
                 c == Len(s)
      <4>1. c \in Nat /\ Len(q) = c + 1 /\ q[c + 1] = text[c + 1]
            /\ \A l \in 1 .. c : q[l] = text[l]
        BY <3>3, <3>6, <3>7
      <4> HIDE DEF q, c
      <4>2. \A l \in 1 .. Len(q) : q[l] = text[l]
        BY <4>1
      <4> QED BY <4>2 DEF q
    <3> QED BY <3>2, <3>5, <3>6, <3>7, <3>8 DEF Good
  <2>7. CASE ~ Said(v)
    <3>1. N = F
      BY <2>7
    <3>2. WordsBefore(w, k + 1) = WordsBefore(w, k)
      BY <2>5, <3>1
    <3>3. g[k + 1] = g[k]
      BY <2>4, <2>7 DEF Shown, Said
    <3> QED BY <2>2, <3>2, <3>3 DEF Good
  <2> QED BY <2>6, <2>7
<1>5. Good(n)
  <2>1. n \in Q
    <3> HIDE DEF Q
    <3> QED BY <1>2, <1>3, <1>4, NumberInduction
  <2> HIDE DEF Good
  <2> QED BY <1>2, <2>1
<1>6. g[n] \in Seq(MaybeWord) /\ Len(g[n]) = Len(text) /\ \A l \in 1 .. Len(text) : g[n][l] = text[l]
  BY <1>1, <1>5
<1> DEFINE s == g[n]
<1> HIDE DEF s
<1>7. s \in Seq(MaybeWord) /\ Len(s) = Len(text) /\ \A l \in 1 .. Len(text) : s[l] = text[l]
  BY <1>6 DEF s
<1>8. s = text
  BY <1>7
<1> QED BY <1>8 DEF s

\* An alignment spells both texts.
LEMMA SidesAreTexts ==
  ASSUME NEW e \in Seq(Word), NEW a \in Seq(Word)
  PROVE  /\ Side(AlignWords(e, a), "expected") = e
         /\ Side(AlignWords(e, a), "actual") = a
<1> DEFINE al == AlignWords(e, a)
<1>1. /\ al \in Seq(AlignedPair)
      /\ Spells(ExpectedSide(al), e, Len(e)) /\ Spells(ActualSide(al), a, Len(a))
  BY AlignWordsAligns DEF Aligns
<1> HIDE DEF al
<1>2. /\ ExpectedSide(al) \in Seq(MaybeWord) /\ Len(ExpectedSide(al)) = Len(al)
      /\ ActualSide(al) \in Seq(MaybeWord) /\ Len(ActualSide(al)) = Len(al)
  BY <1>1 DEF ExpectedSide, ActualSide, Spells
<1>3. \A k \in DOMAIN al : al[k]["expected"] = ExpectedSide(al)[k]
  BY DEF ExpectedSide
<1>a. \A k \in DOMAIN al : al[k]["actual"] = ActualSide(al)[k]
  BY DEF ActualSide
<1>4. Side(al, "expected") = e
  <2>1. PICK g : /\ g[0] = <<>>
                 /\ \A k \in 1 .. Len(ExpectedSide(al)) : g[k] = Shown(g[k - 1], ExpectedSide(al)[k])
                 /\ Side(al, "expected") = g[Len(ExpectedSide(al))]
    BY <1>1, <1>2, <1>3, SideSteps, SMTT(30)
  <2> QED BY <1>1, <2>1, SpelledIsShown
<1>5. Side(al, "actual") = a
  <2>1. PICK g : /\ g[0] = <<>>
                 /\ \A k \in 1 .. Len(ActualSide(al)) : g[k] = Shown(g[k - 1], ActualSide(al)[k])
                 /\ Side(al, "actual") = g[Len(ActualSide(al))]
    BY <1>1, <1>2, <1>a, SideSteps, SMTT(30)
  <2> QED BY <1>1, <2>1, SpelledIsShown
<1> QED BY <1>4, <1>5 DEF al

----------------------------------------------------------------------------
(* Theorems *)

\* Whatever OpenAI answers, a stored script has the planned number of turns, the
\* coach begins and ends it, and its user turns are the graded ones
\* (generate_script).
THEOREM Playable == Spec => []ScriptIsPlayable
<1>1. Init => ScriptInv
  BY DEF Init, GenerationInit, ScriptInv
<1>2. ScriptInv => ScriptIsPlayable
  <2> SUFFICES ASSUME ScriptInv, stage = "stored" PROVE ScriptIsPlayable
    BY DEF ScriptIsPlayable
  <2>1. DOMAIN script = 1 .. Target /\ Len(script) = Target
    BY GenerationAssumption DEF ScriptInv
  <2>2. UserTurns = Turn
    BY <2>1, TurnsAssumption DEF UserTurns, ScriptInv, IsStrictlyAlternating
  <2> QED BY <2>1, <2>2 DEF ScriptInv, ScriptIsPlayable
<1> QED BY <1>1, <1>2, ScriptStep, PTL DEF Spec

\* The stored audio is the recording its score is of, but for turns that were
\* crossed (calculate_turn_score, update_session).
THEOREM Scored == Spec => []AudioIsScored
<1>1. Init => AudioInv
  BY DEF Init, ScoringInit, AudioInv, Updating, Request, Idle
<1>2. AudioInv => AudioIsScored
  BY DEF AudioInv, AudioIsScored
<1> QED BY <1>1, <1>2, AudioStep, PTL DEF Spec

\* The analysis that is stored with a turn explains its scores
\* (build_speech_analysis, compute_scores).
THEOREM Agreement == Spec => []AnalysisAgrees
<1>1. AnalysisAgrees
  <2>1. \A e, a \in Texts : Explains(e, a)
    BY TextsAssumption, AnalysisExplains
  <2> QED BY <2>1 DEF AnalysisAgrees
<1> QED BY <1>1, PTL

\* The type invariant, which also bounds every score by 0 and 100 and gives the
\* audio semaphore what the tasks that speak have left of it.
THEOREM Types == Spec => []TypeOK
<1>1. Init => GenerationInv /\ ScoringInv
  <2> SUFFICES ASSUME Init PROVE GenerationInv /\ ScoringInv
    OBVIOUS
  <2>1. GenerationInv
    <3>1. Cardinality(Speaking) = 0
      <4>1. Speaking = {}
        BY DEF Init, GenerationInit, Speaking
      <4> QED BY <4>1, FS_EmptySet
    <3>2. voice \in [DOMAIN script -> VoiceState]
      BY DEF Init, GenerationInit
    <3>3. script \in Seq(Role)
      BY DEF Init, GenerationInit
    <3>4. permits \in 0 .. AudioConcurrency /\ permits = AudioConcurrency - Cardinality(Speaking)
      BY <3>1, GenerationAssumption DEF Init, GenerationInit
    <3>5. quotaMet \in BOOLEAN /\ stage = "asking" /\ script = <<>>
      BY DEF Init, GenerationInit
    <3> QED BY <3>2, <3>3, <3>4, <3>5 DEF GenerationInv, GenerationTypeOK
  <2>2. ScoringInv
    BY ScoringAssumption
       DEF Init, ScoringInit, ScoringInv, Stored, Ungraded, Attempt
  <2> QED BY <2>1, <2>2
<1>2. GenerationInv /\ ScoringInv => TypeOK
  <2> SUFFICES ASSUME GenerationInv, ScoringInv PROVE ScoringTypeOK
    BY DEF TypeOK, GenerationInv
  <2>1. ASSUME NEW t \in Turn
        PROVE  /\ turns[t].score \in Score \cup {Nothing}
               /\ turns[t].words \in Seq(Word)
               /\ (turns[t].score = Nothing) = (graded[t] = 0)
    <3>1. Stored(t, turns[t]) /\ (turns[t].score = Nothing) = (graded[t] = 0)
      BY DEF ScoringInv
    <3> QED BY <3>1, StoredWords
  <2> QED BY <2>1 DEF ScoringInv, ScoringTypeOK
<1> QED BY <1>1, <1>2, GenerationStep, ScoringStep, PTL DEF Spec

\* However requests for a turn cross and fail, its score, its analysis and its
\* words are those of one recording (calculate_turn_score, update_session).
THEOREM OneRecording == Spec => []ShowsOneRecording
<1>1. Init => ScoringInv
  BY ScoringAssumption DEF Init, ScoringInit, ScoringInv, Stored, Ungraded, Attempt
<1>2. ScoringInv => ShowsOneRecording
  <2> SUFFICES ASSUME ScoringInv, NEW t \in Turn, turns[t].analysis # Nothing
               PROVE  LET shown == turns[t]
                          reported == [k \in DOMAIN shown.analysis.mispronounced |->
                                         shown.analysis.mispronounced[k].pair.expected]
                      IN /\ shown.analysis.expectedTokens = Text[t]
                         /\ shown.score = ComputeScores(Text[t], shown.analysis.actualTokens, Leniency)
                         /\ IF reported # <<>> THEN shown.words = reported
                                               ELSE Range(shown.words) \subseteq Range(Text[t])
    BY DEF ShowsOneRecording
  <2>1. Stored(t, turns[t])
    BY DEF ScoringInv
  <2>2. Range(turns[t].words) \subseteq Range(Text[t])
    BY <2>1, StoredWords
  <2> QED BY <2>1, <2>2, StoredIsOneRecording
<1> QED BY <1>1, <1>2, ScoringStep, PTL DEF Spec

\* Where OpenAI gives no tip, every word the fallback sends the learner to practise
\* is a word of some text, however the recordings of the turns crossed, and there
\* are at most five (_aggregate_turn_data, _heuristic_tip).
THEOREM FallbackIsRead == Spec => []FallbackWordsAreRead
<1>1. Init => ScoringInv
  BY ScoringAssumption DEF Init, ScoringInit, ScoringInv, Stored, Ungraded, Attempt
<1>2. ScoringInv => FallbackWordsAreRead
  <2> SUFFICES ASSUME ScoringInv PROVE FallbackWordsAreRead
    OBVIOUS
  <2> DEFINE S == UNION {Range(Text[t]) : t \in Turn}
             w == OfTurns([t \in Turn |-> turns[t].words])
             x == OfTurns([t \in Turn |-> FarSubstitutions(t)])
             m == MostCommon(w, 5)
             f == MostCommon(x, 5)
             both == m \o f
             l == Min({5, Len(both)})
  <2>1. ASSUME NEW t \in Turn
        PROVE  turns[t].words \in Seq(S) /\ FarSubstitutions(t) \in Seq(S)
    <3>1. Stored(t, turns[t])
      BY DEF ScoringInv
    <3>2. Range(Text[t]) \subseteq S
      OBVIOUS
    <3> HIDE DEF S
    <3> QED BY <3>1, <3>2, TurnContributes, SeqMonotonic
  <2>2. HeuristicWords = SubSeq(both, 1, l)
    BY DEF HeuristicWords
  <2> HIDE DEF S
  <2>3. w \in Seq(S) /\ x \in Seq(S)
    <3> DEFINE ww == [t \in Turn |-> turns[t].words]
               xx == [t \in Turn |-> FarSubstitutions(t)]
    <3>1. \A t \in Turn : ww[t] \in Seq(S) /\ xx[t] \in Seq(S)
      BY <2>1
    <3> HIDE DEF ww, xx
    <3>2. OfTurns(ww) \in Seq(S) /\ OfTurns(xx) \in Seq(S)
      BY <3>1, OfTurnsWords
    <3> QED BY <3>2 DEF ww, xx
  <2> HIDE DEF w, x
  <2>4. m \in Seq(S) /\ f \in Seq(S)
    <3>1. m \in Seq(Range(w)) /\ f \in Seq(Range(x))
      BY <2>3, MostCommonWords
    <3>2. Range(w) \subseteq S /\ Range(x) \subseteq S
      BY <2>3, RangeWithin
    <3> HIDE DEF m, f
    <3> QED BY <3>1, <3>2, SeqMonotonic
  <2> HIDE DEF m, f
  <2>5. both \in Seq(S) /\ Len(both) \in Nat
    BY <2>4, ConcatProperties, LenProperties
  <2> HIDE DEF both
  <2>6. l \in 0 .. Len(both) /\ l <= 5
    BY <2>5, TwoMin
  <2> HIDE DEF l
  <2>7. \A i \in 1 .. l : both[i] \in S
    BY <2>5, <2>6
  <2>8. SubSeq(both, 1, l) \in Seq(S) /\ Len(SubSeq(both, 1, l)) = l
    BY <2>5, <2>6, <2>7, SubSeqProperties
  <2>9. Range(SubSeq(both, 1, l)) \subseteq S
    BY <2>8, RangeWithin
  <2> QED BY <2>2, <2>6, <2>8, <2>9 DEF FallbackWordsAreRead, S
<1> QED BY <1>1, <1>2, ScoringStep, PTL DEF Spec

\* The scores follow the errors, whatever the texts and the leniency
\* (compute_scores).
THEOREM FairScores == Spec => []ScoresFollowErrors
<1>1. ScoresFollowErrors
  <2>1. Leniencies \subseteq Int /\ Texts \subseteq Seq(Word)
    BY TextsAssumption
  <2>2. ASSUME NEW e \in Texts, NEW a \in Texts, NEW l \in Leniencies
        PROVE  /\ PerfectReading(e, a, l) /\ PerfectScore(e, a, l)
               /\ FillersCost(e, a, l) /\ LeniencyHelps(e, a, l)
    <3>1. e \in Seq(Word) /\ a \in Seq(Word) /\ l \in Int
      BY <2>1
    <3> QED BY <2>1, <3>1, PerfectReadings, PerfectScores, FillersDoCost, LeniencyDoesHelp
  <2> QED BY <2>2 DEF ScoresFollowErrors
<1> QED BY <1>1, PTL

\* align_words aligns all words of both texts, and no matching of the two has
\* fewer errors (align_words, edit_distance).
THEOREM TrueDistance == Spec => []AlignmentIsCheapest
<1>1. AlignmentIsCheapest
  <2>1. ASSUME NEW e \in Texts, NEW a \in Texts
        PROVE  LET alignment == AlignWords(e, a) IN
               /\ Side(alignment, "expected") = e
               /\ Side(alignment, "actual") = a
               /\ Errors(alignment) = Min({CostOf(M, e, a) : M \in Matchings[<<Len(e), Len(a)>>]})
    <3>1. e \in Seq(Word) /\ a \in Seq(Word)
      BY TextsAssumption
    <3> QED BY <3>1, SidesAreTexts, ErrorsAreCheapest
  <2> QED BY <2>1 DEF AlignmentIsCheapest
<1> QED BY <1>1, PTL
=============================================================================
