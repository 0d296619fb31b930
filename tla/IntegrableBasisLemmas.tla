------------------------ MODULE IntegrableBasisLemmas ------------------------
(***************************************************************************)
(* Lemmas about the operators of IntegrableBasis, over any field: the fold *)
(* that computes a sum does not depend on the order of the terms and is    *)
(* linear, the words and constraints of a call are what they should be,    *)
(* row operations keep the vectors that satisfy the rows, and the null     *)
(* vectors are a basis of them.                                            *)
(***************************************************************************)
EXTENDS IntegrableBasis, NaturalLemmas, FiniteSetTheorems

-----------------------------------------------------------------------------
(* The field *)

LEMMA PlusCancels ==
    ASSUME NEW x \in Coeff, NEW y \in Coeff, NEW z \in Coeff, Plus(x, z) = Plus(y, z)
    PROVE  x = y
<1> DEFINE n == Minus(Zero, z)
<1>1. n \in Coeff /\ Plus(z, n) = Zero
  BY CoeffAssumption
<1> HIDE DEF n
<1>2. Plus(Plus(x, z), n) = x
  BY <1>1, CoeffAssumption
<1>3. Plus(Plus(y, z), n) = y
  BY <1>1, CoeffAssumption
<1> QED BY <1>2, <1>3

LEMMA TimesZero ==
    ASSUME NEW x \in Coeff
    PROVE  Times(x, Zero) = Zero /\ Times(Zero, x) = Zero
<1> DEFINE y == Times(x, Zero)
<1>1. y \in Coeff /\ Zero \in Coeff /\ Times(Zero, x) = y
  BY CoeffAssumption
<1>2. Plus(Zero, Zero) = Zero
  BY CoeffAssumption
<1>3. Plus(y, y) = y
  BY <1>2, CoeffAssumption
<1>4. Plus(Zero, y) = y
  BY <1>1, CoeffAssumption
<1> HIDE DEF y
<1>5. y = Zero
  BY <1>1, <1>3, <1>4, PlusCancels
<1> QED BY <1>1, <1>5 DEF y

LEMMA MinusIsZero ==
    ASSUME NEW x \in Coeff, NEW y \in Coeff
    PROVE  Minus(x, y) = Zero <=> x = y
<1>1. Minus(x, y) \in Coeff /\ Zero \in Coeff /\ Plus(Minus(x, y), y) = x
  BY CoeffAssumption
<1>2. Plus(Zero, y) = y
  BY CoeffAssumption
<1> QED BY <1>1, <1>2, PlusCancels

\* A difference is determined by the sum that undoes it.
LEMMA MinusUnique ==
    ASSUME NEW x \in Coeff, NEW y \in Coeff, NEW z \in Coeff, Plus(z, y) = x
    PROVE  Minus(x, y) = z
<1>1. Minus(x, y) \in Coeff /\ Plus(Minus(x, y), y) = x
  BY CoeffAssumption
<1> QED BY <1>1, PlusCancels

LEMMA NoZeroDivisors ==
    ASSUME NEW x \in Coeff, NEW y \in NonZero, Times(x, y) = Zero
    PROVE  x = Zero
<1>1. y \in Coeff /\ Recip(y) \in Coeff /\ Times(y, Recip(y)) = One
  BY CoeffAssumption DEF NonZero
<1>2. Times(Times(x, y), Recip(y)) = Times(x, Times(y, Recip(y)))
  BY <1>1, CoeffAssumption
<1>3. Times(Times(x, y), Recip(y)) = x
  BY <1>1, <1>2, CoeffAssumption
<1>4. Times(Zero, Recip(y)) = Zero
  BY <1>1, TimesZero
<1> QED BY <1>3, <1>4

\* a + (b + c) = b + (a + c)
LEMMA PlusExchange ==
    ASSUME NEW a \in Coeff, NEW b \in Coeff, NEW c \in Coeff
    PROVE  Plus(a, Plus(b, c)) = Plus(b, Plus(a, c))
<1>1. Plus(a, Plus(b, c)) = Plus(Plus(a, b), c)
  BY CoeffAssumption
<1>2. Plus(b, Plus(a, c)) = Plus(Plus(b, a), c)
  BY CoeffAssumption
<1>3. Plus(a, b) = Plus(b, a)
  BY CoeffAssumption
<1> QED BY <1>1, <1>2, <1>3

\* (a + b) + (c + d) = (a + c) + (b + d)
LEMMA PlusInterchange ==
    ASSUME NEW a \in Coeff, NEW b \in Coeff, NEW c \in Coeff, NEW d \in Coeff
    PROVE  Plus(Plus(a, b), Plus(c, d)) = Plus(Plus(a, c), Plus(b, d))
<1>1. Plus(b, d) \in Coeff /\ Plus(c, d) \in Coeff /\ Plus(b, c) = Plus(c, b)
  BY CoeffAssumption
<1>2. Plus(b, Plus(c, d)) = Plus(c, Plus(b, d))
  BY <1>1, CoeffAssumption
<1>3. Plus(Plus(a, b), Plus(c, d)) = Plus(a, Plus(b, Plus(c, d)))
  BY <1>1, CoeffAssumption
<1>4. Plus(Plus(a, c), Plus(b, d)) = Plus(a, Plus(c, Plus(b, d)))
  BY <1>1, CoeffAssumption
<1> QED BY <1>2, <1>3, <1>4

\* a - k * c, plus b - k * d, is (a + b) - k * (c + d).
LEMMA ScaledInterchange ==
    ASSUME NEW a \in Coeff, NEW b \in Coeff, NEW c \in Coeff, NEW d \in Coeff, NEW k \in Coeff
    PROVE  Plus(Minus(a, Times(k, c)), Minus(b, Times(k, d)))
             = Minus(Plus(a, b), Times(k, Plus(c, d)))
<1> DEFINE kc == Times(k, c)
           kd == Times(k, d)
           x == Minus(a, kc)
           y == Minus(b, kd)
<1>1. /\ kc \in Coeff /\ kd \in Coeff /\ Plus(a, b) \in Coeff
      /\ Times(k, Plus(c, d)) = Plus(kc, kd) /\ Plus(kc, kd) \in Coeff
  <2>1. kc \in Coeff /\ kd \in Coeff /\ Plus(a, b) \in Coeff
    BY CoeffAssumption
  <2>2. Times(k, Plus(c, d)) = Plus(kc, kd)
    BY CoeffAssumption
  <2> HIDE DEF kc, kd
  <2> QED BY <2>1, <2>2, CoeffAssumption
<1>2. x \in Coeff /\ y \in Coeff /\ Plus(x, kc) = a /\ Plus(y, kd) = b /\ Plus(x, y) \in Coeff
  BY <1>1, CoeffAssumption
<1> HIDE DEF kc, kd, x, y
<1>3. Plus(Plus(x, y), Plus(kc, kd)) = Plus(a, b)
  BY <1>1, <1>2, PlusInterchange
<1>4. Minus(Plus(a, b), Plus(kc, kd)) = Plus(x, y)
  BY <1>1, <1>2, <1>3, MinusUnique
<1> QED BY <1>1, <1>4 DEF x, y, kc, kd
\* (a - k * b) * y = a * y - k * (b * y)
LEMMA TimesScaled ==
    ASSUME NEW a \in Coeff, NEW b \in Coeff, NEW k \in Coeff, NEW y \in Coeff
    PROVE  Times(Minus(a, Times(k, b)), y) = Minus(Times(a, y), Times(k, Times(b, y)))
<1> DEFINE kb == Times(k, b)
           x == Minus(a, kb)
           xy == Times(x, y)
           kby == Times(k, Times(b, y))
<1>1. kb \in Coeff /\ Times(b, y) \in Coeff /\ Times(a, y) \in Coeff
  BY CoeffAssumption
<1>2. x \in Coeff /\ Plus(x, kb) = a
  BY <1>1, CoeffAssumption
<1>3. kby \in Coeff /\ Times(kb, y) = kby
  BY <1>1, CoeffAssumption
<1> HIDE DEF kb, x, kby, xy
<1>4. Times(y, Plus(x, kb)) = Plus(Times(y, x), Times(y, kb))
  BY <1>1, <1>2, CoeffAssumption
<1>5. xy \in Coeff /\ Times(y, x) = xy /\ Times(y, kb) = kby /\ Times(y, a) = Times(a, y)
  BY <1>1, <1>2, <1>3, CoeffAssumption DEF xy
<1>6. Plus(xy, kby) = Times(a, y)
  BY <1>2, <1>4, <1>5
<1>7. Minus(Times(a, y), kby) = xy
  BY <1>1, <1>3, <1>5, <1>6, MinusUnique
<1> QED BY <1>7 DEF kb, x, kby, xy

-----------------------------------------------------------------------------
(* Induction, for sets: the library states it for an operator *)

\* What holds of a finite set as soon as it holds of the set without any one of
\* its elements holds of all finite sets.
LEMMA RemovalInduction ==
    ASSUME NEW S, IsFiniteSet(S), NEW Good,
           \A s \in SUBSET S : (\A x \in s : s \ {x} \in Good) => s \in Good
    PROVE  SUBSET S \subseteq Good
<1> DEFINE K == {k \in Nat : \A s \in SUBSET S : Cardinality(s) = k => s \in Good}
<1>1. \A s \in SUBSET S : IsFiniteSet(s) /\ Cardinality(s) \in Nat
  BY FS_Subset, FS_CardinalityType
<1>2. 0 \in K
  <2>1. \A s \in SUBSET S : Cardinality(s) = 0 => s = {}
    BY <1>1, FS_EmptySet
  <2>2. {} \in Good
    OBVIOUS
  <2> QED BY <2>1, <2>2
<1>3. ASSUME NEW k \in Nat, k \in K
      PROVE  k + 1 \in K
  <2> SUFFICES ASSUME NEW s \in SUBSET S, Cardinality(s) = k + 1, NEW x \in s
               PROVE  s \ {x} \in Good
    OBVIOUS
  <2>1. Cardinality(s \ {x}) = Cardinality(s) - 1
    BY <1>1, FS_RemoveElement
  <2>2. Cardinality(s \ {x}) = k
    BY <2>1
  <2> QED BY <1>3, <2>2
<1>4. Nat \subseteq K
  <2> HIDE DEF K
  <2> QED BY <1>2, <1>3, NatSetInduction
<1> QED BY <1>1, <1>4

\* it computes the value of a set from that of the set without a chosen element.
Removes(it, base, h, ch, S) ==
    \A s \in SUBSET S : it[s] = IF s = {} THEN base ELSE h[ch[s]][it[s \ {ch[s]}]]

\* A function on the subsets of a finite set may be defined by taking away a
\* chosen element.
LEMMA RecursionExists ==
    ASSUME NEW S, IsFiniteSet(S), NEW V, NEW base \in V,
           NEW h, \A x \in S : \A y \in V : h[x][y] \in V,
           NEW ch, \A s \in SUBSET S : s # {} => ch[s] \in s
    PROVE  \E it \in [SUBSET S -> V] : Removes(it, base, h, ch, S)
<1> DEFINE Value(g, s) == IF s = {} THEN base ELSE h[ch[s]][g[s \ {ch[s]}]]
           K == {k \in Nat : \E g \in [SUBSET S -> V] :
                   \A s \in SUBSET S : Cardinality(s) <= k => g[s] = Value(g, s)}
<1>1. \A s \in SUBSET S : IsFiniteSet(s) /\ Cardinality(s) \in Nat
  BY FS_Subset, FS_CardinalityType
<1>2. \A g \in [SUBSET S -> V] : \A s \in SUBSET S : Value(g, s) \in V
  OBVIOUS
<1>3. 0 \in K
  <2> DEFINE g == [s \in SUBSET S |-> base]
  <2>1. \A s \in SUBSET S : Cardinality(s) <= 0 => s = {}
    BY <1>1, FS_EmptySet
  <2>2. g \in [SUBSET S -> V]
    OBVIOUS
  <2>3. \A s \in SUBSET S : Cardinality(s) <= 0 => g[s] = Value(g, s)
    BY <2>1
  <2> QED BY <2>2, <2>3
<1>4. ASSUME NEW k \in Nat, k \in K
      PROVE  k + 1 \in K
  <2>1. PICK g \in [SUBSET S -> V] :
          \A s \in SUBSET S : Cardinality(s) <= k => g[s] = Value(g, s)
    BY <1>4
  <2> DEFINE next == [s \in SUBSET S |-> Value(g, s)]
  <2>2. next \in [SUBSET S -> V]
    BY <1>2
  <2>3. ASSUME NEW s \in SUBSET S, Cardinality(s) <= k + 1
        PROVE  next[s] = Value(next, s)
    <3>1. CASE s = {}
      BY <3>1
    <3>2. CASE s # {}
      <4> DEFINE rest == s \ {ch[s]}
      <4>1. rest \in SUBSET S /\ Cardinality(rest) = Cardinality(s) - 1
        BY <1>1, <3>2, FS_RemoveElement
      <4>2. Cardinality(rest) <= k
        BY <1>1, <2>3, <4>1
      <4>3. g[rest] = next[rest]
        BY <2>1, <4>1, <4>2
      <4> QED BY <3>2, <4>3
    <3> QED BY <3>1, <3>2
  <2> HIDE DEF next, Value
  <2> QED BY <2>2, <2>3
<1>5. Cardinality(S) \in K
  <2>1. Nat \subseteq K
    <3> HIDE DEF K
    <3> QED BY <1>3, <1>4, NatSetInduction
  <2> HIDE DEF K
  <2> QED BY <1>1, <2>1
<1>6. PICK g \in [SUBSET S -> V] :
        \A s \in SUBSET S : Cardinality(s) <= Cardinality(S) => g[s] = Value(g, s)
  BY <1>5
<1>7. \A s \in SUBSET S : Cardinality(s) <= Cardinality(S)
  BY FS_Subset
<1> QED BY <1>6, <1>7 DEF Removes
-----------------------------------------------------------------------------
(* Sums *)

\* The recursion that FoldFunctionOnSet sums with.
IsSumOver(it, f, S) ==
    it = [s \in SUBSET S |->
             IF s = {} THEN Zero
             ELSE Plus(f[CHOOSE x \in s : TRUE], it[s \ {CHOOSE x \in s : TRUE}])]

LEMMA SumIsFold ==
    ASSUME NEW f, NEW S
    PROVE  Sum(f, S) = (CHOOSE it : IsSumOver(it, f, S))[S]
BY DEF Sum, FoldFunctionOnSet, MapThenFoldSet, IsSumOver

\* All the values are coefficients.
Summable(f, S) == IsFiniteSet(S) /\ \A x \in S : f[x] \in Coeff

LEMMA SumFoldType ==
    ASSUME NEW f, NEW S, Summable(f, S), NEW it, IsSumOver(it, f, S)
    PROVE  \A s \in SUBSET S : it[s] \in Coeff
<1> DEFINE Good == {s \in SUBSET S : it[s] \in Coeff}
<1>1. ASSUME NEW s \in SUBSET S, \A x \in s : s \ {x} \in Good
      PROVE  s \in Good
  <2>1. CASE s = {}
    BY <2>1, CoeffAssumption DEF IsSumOver
  <2>2. CASE s # {}
    <3> DEFINE c == CHOOSE x \in s : TRUE
    <3>1. c \in s /\ f[c] \in Coeff
      BY <2>2 DEF Summable
    <3>2. it[s] = Plus(f[c], it[s \ {c}])
      BY <2>2 DEF IsSumOver
    <3> HIDE DEF c
    <3>3. it[s \ {c}] \in Coeff
      BY <1>1, <3>1
    <3>4. \A u, v \in Coeff : Plus(u, v) \in Coeff
      BY CoeffAssumption
    <3>5. it[s] \in Coeff
      BY <3>1, <3>2, <3>3, <3>4
    <3> QED BY <3>5
  <2> QED BY <2>1, <2>2
<1>2. IsFiniteSet(S)
  BY DEF Summable
<1>3. SUBSET S \subseteq Good
  <2> HIDE DEF Good
  <2> QED BY <1>1, <1>2, RemovalInduction
<1> QED BY <1>3

LEMMA SumRecursion ==
    ASSUME NEW f, NEW S, Summable(f, S)
    PROVE  \E it : /\ IsSumOver(it, f, S) /\ it[S] = Sum(f, S)
                   /\ \A s \in SUBSET S : it[s] \in Coeff
<1> DEFINE h == [x \in S |-> [y \in Coeff |-> Plus(f[x], y)]]
           ch == [s \in SUBSET S |-> CHOOSE x \in s : TRUE]
<1>1. \A x \in S : \A y \in Coeff : h[x][y] = Plus(f[x], y) /\ h[x][y] \in Coeff
  BY CoeffAssumption DEF Summable
<1>2. \A s \in SUBSET S : s # {} => ch[s] \in s
  OBVIOUS
<1>3. Zero \in Coeff /\ IsFiniteSet(S)
  BY CoeffAssumption DEF Summable
<1>4. PICK g \in [SUBSET S -> Coeff] : Removes(g, Zero, h, ch, S)
  <2>1. \A x \in S : \A y \in Coeff : h[x][y] \in Coeff
    BY <1>1
  <2> HIDE DEF h, ch
  <2> QED BY <2>1, <1>2, <1>3, RecursionExists
<1>5. \A s \in SUBSET S :
          g[s] = IF s = {} THEN Zero
                 ELSE Plus(f[CHOOSE x \in s : TRUE], g[s \ {CHOOSE x \in s : TRUE}])
  <2> TAKE s \in SUBSET S
  <2>1. CASE s = {}
    BY <1>4, <2>1 DEF Removes
  <2>2. CASE s # {}
    <3>1. ch[s] \in S /\ ch[s] = (CHOOSE x \in s : TRUE) /\ g[s \ {ch[s]}] \in Coeff
      BY <1>2, <2>2
    <3>2. h[ch[s]][g[s \ {ch[s]}]] = Plus(f[ch[s]], g[s \ {ch[s]}])
      BY <3>1
    <3> QED BY <1>4, <2>2, <3>1, <3>2 DEF Removes
  <2> QED BY <2>1, <2>2
<1>6. IsSumOver(g, f, S)
  <2>1. g = [s \in SUBSET S |-> g[s]]
    OBVIOUS
  <2> HIDE DEF h, ch
  <2> QED BY <1>5, <2>1 DEF IsSumOver
<1> DEFINE it == CHOOSE a : IsSumOver(a, f, S)
<1>7. IsSumOver(it, f, S)
  BY <1>6
<1>8. it[S] = Sum(f, S)
  BY SumIsFold
<1> HIDE DEF it
<1>9. \A s \in SUBSET S : it[s] \in Coeff
  BY <1>7, SumFoldType
<1> QED BY <1>7, <1>8, <1>9

\* Two folds over sets of which one is part of the other agree on that part.
LEMMA SumFoldsAgree ==
    ASSUME NEW f, NEW S, Summable(f, S), NEW T \in SUBSET S, NEW a, NEW b,
           IsSumOver(a, f, S), IsSumOver(b, f, T)
    PROVE  a[T] = b[T]
<1> DEFINE Good == {s \in SUBSET T : a[s] = b[s]}
<1>1. ASSUME NEW s \in SUBSET T, \A x \in s : s \ {x} \in Good
      PROVE  s \in Good
  <2>1. CASE s = {}
    BY <2>1 DEF IsSumOver
  <2>2. CASE s # {}
    <3> DEFINE c == CHOOSE x \in s : TRUE
    <3>1. c \in s
      BY <2>2
    <3>2. a[s] = Plus(f[c], a[s \ {c}]) /\ b[s] = Plus(f[c], b[s \ {c}])
      BY <2>2 DEF IsSumOver
    <3> HIDE DEF c
    <3> QED BY <1>1, <3>1, <3>2
  <2> QED BY <2>1, <2>2
<1>2. IsFiniteSet(T)
  BY FS_Subset DEF Summable
<1>3. SUBSET T \subseteq Good
  <2> HIDE DEF Good
  <2> QED BY <1>1, <1>2, RemovalInduction
<1> QED BY <1>3

LEMMA SumEmpty ==
    ASSUME NEW f
    PROVE  Sum(f, {}) = Zero
<1>1. Summable(f, {})
  BY FS_EmptySet DEF Summable
<1>2. PICK it : IsSumOver(it, f, {}) /\ it[{}] = Sum(f, {})
  BY <1>1, SumRecursion
<1> QED BY <1>2 DEF IsSumOver

LEMMA SumType ==
    ASSUME NEW f, NEW S, Summable(f, S)
    PROVE  Sum(f, S) \in Coeff
BY SumRecursion

\* The term taken out first is the chosen one.
LEMMA SumChosen ==
    ASSUME NEW f, NEW S, Summable(f, S), S # {}
    PROVE  LET c == CHOOSE x \in S : TRUE IN Sum(f, S) = Plus(f[c], Sum(f, S \ {c}))
<1> DEFINE c == CHOOSE x \in S : TRUE
<1>1. Summable(f, S \ {c})
  BY FS_Subset DEF Summable
<1>2. PICK a : IsSumOver(a, f, S) /\ a[S] = Sum(f, S)
  BY SumRecursion
<1>3. PICK b : IsSumOver(b, f, S \ {c}) /\ b[S \ {c}] = Sum(f, S \ {c})
  BY <1>1, SumRecursion
<1>4. a[S \ {c}] = b[S \ {c}]
  <2>1. S \ {c} \in SUBSET S
    OBVIOUS
  <2> HIDE DEF c
  <2> QED BY <1>2, <1>3, <2>1, SumFoldsAgree
<1>5. a[S] = Plus(f[c], a[S \ {c}])
  BY <1>2 DEF IsSumOver
<1> QED BY <1>2, <1>3, <1>4, <1>5

\* Any term may be taken out first.
LEMMA SumSplit ==
    ASSUME NEW f, NEW S, Summable(f, S), NEW x \in S
    PROVE  Sum(f, S) = Plus(f[x], Sum(f, S \ {x}))
<1> DEFINE Good == {s \in SUBSET S : \A y \in s : Sum(f, s) = Plus(f[y], Sum(f, s \ {y}))}
<1>1. \A s \in SUBSET S : Summable(f, s)
  BY FS_Subset DEF Summable
<1>2. ASSUME NEW s \in SUBSET S, \A y \in s : s \ {y} \in Good, NEW y \in s
      PROVE  Sum(f, s) = Plus(f[y], Sum(f, s \ {y}))
  <2> DEFINE c == CHOOSE z \in s : TRUE
  <2>1. c \in s /\ Sum(f, s) = Plus(f[c], Sum(f, s \ {c}))
    BY <1>1, <1>2, SumChosen
  <2> HIDE DEF c
  <2>2. CASE c = y
    BY <2>1, <2>2
  <2>3. CASE c # y
    <3> DEFINE rest == (s \ {c}) \ {y}
    <3>1. Sum(f, s \ {c}) = Plus(f[y], Sum(f, rest))
      BY <1>2, <2>1, <2>3
    <3>2. rest = (s \ {y}) \ {c} /\ c \in s \ {y} /\ s \ {y} \in Good
      BY <1>2, <2>1, <2>3
    <3>3. Sum(f, s \ {y}) = Plus(f[c], Sum(f, rest))
      BY <3>2
    <3>4. f[c] \in Coeff /\ f[y] \in Coeff /\ Sum(f, rest) \in Coeff
      <4>1. rest \in SUBSET S
        OBVIOUS
      <4> HIDE DEF rest
      <4> QED BY <1>1, <2>1, <4>1, SumType DEF Summable
    <3> HIDE DEF rest
    <3>5. Plus(f[c], Plus(f[y], Sum(f, rest))) = Plus(f[y], Plus(f[c], Sum(f, rest)))
      BY <3>4, PlusExchange
    <3> QED BY <2>1, <3>1, <3>3, <3>5
  <2> QED BY <2>2, <2>3
<1>3. ASSUME NEW s \in SUBSET S, \A y \in s : s \ {y} \in Good
      PROVE  s \in Good
  BY <1>2, <1>3
<1>4. IsFiniteSet(S)
  BY DEF Summable
<1>5. SUBSET S \subseteq Good
  <2> HIDE DEF Good
  <2> QED BY <1>3, <1>4, RemovalInduction
<1> QED BY <1>5

\* The terms of the rest of a set.
LEMMA SummableParts ==
    ASSUME NEW f, NEW S, Summable(f, S)
    PROVE  \A s \in SUBSET S : Summable(f, s) /\ Sum(f, s) \in Coeff
BY FS_Subset, SumType DEF Summable

\* A sum depends on the values of its terms only.
LEMMA SumCongruence ==
    ASSUME NEW f, NEW g, NEW S, Summable(f, S), \A x \in S : f[x] = g[x]
    PROVE  Sum(f, S) = Sum(g, S)
<1> DEFINE Good == {s \in SUBSET S : Sum(f, s) = Sum(g, s)}
<1>1. Summable(g, S)
  BY DEF Summable
<1>2. ASSUME NEW s \in SUBSET S, \A y \in s : s \ {y} \in Good
      PROVE  s \in Good
  <2>1. CASE s = {}
    BY <2>1, SumEmpty
  <2>2. ASSUME NEW y \in s
        PROVE  Sum(f, s) = Sum(g, s)
    <3>1. Summable(f, s) /\ Summable(g, s)
      BY <1>1, SummableParts
    <3>2. Sum(f, s) = Plus(f[y], Sum(f, s \ {y})) /\ Sum(g, s) = Plus(g[y], Sum(g, s \ {y}))
      BY <3>1, <2>2, SumSplit
    <3>3. Sum(f, s \ {y}) = Sum(g, s \ {y}) /\ f[y] = g[y]
      BY <1>2, <2>2
    <3> QED BY <3>2, <3>3
  <2> QED BY <2>1, <2>2
<1>3. IsFiniteSet(S)
  BY DEF Summable
<1>4. SUBSET S \subseteq Good
  <2> HIDE DEF Good
  <2> QED BY <1>2, <1>3, RemovalInduction
<1> QED BY <1>4

\* Summing is linear.
LEMMA SumScaled ==
    ASSUME NEW f, NEW g, NEW h, NEW S, NEW k \in Coeff, Summable(f, S), Summable(g, S),
           \A x \in S : h[x] = Minus(f[x], Times(k, g[x]))
    PROVE  Sum(h, S) = Minus(Sum(f, S), Times(k, Sum(g, S)))
<1> DEFINE Good == {s \in SUBSET S : Sum(h, s) = Minus(Sum(f, s), Times(k, Sum(g, s)))}
<1>1. Summable(h, S)
  <2>1. \A x \in S : f[x] \in Coeff /\ g[x] \in Coeff
    BY DEF Summable
  <2>2. \A x \in S : Minus(f[x], Times(k, g[x])) \in Coeff
    BY <2>1, CoeffAssumption
  <2> QED BY <2>2 DEF Summable
<1>2. ASSUME NEW s \in SUBSET S, \A y \in s : s \ {y} \in Good
      PROVE  s \in Good
  <2>1. CASE s = {}
    <3>1. Zero \in Coeff /\ Times(k, Zero) = Zero
      BY CoeffAssumption, TimesZero
    <3>2. Minus(Zero, Times(k, Zero)) = Zero
      BY <3>1, MinusIsZero
    <3>3. Sum(h, {}) = Zero /\ Sum(f, {}) = Zero /\ Sum(g, {}) = Zero
      BY SumEmpty
    <3> QED BY <2>1, <3>2, <3>3
  <2>2. ASSUME NEW y \in s
        PROVE  Sum(h, s) = Minus(Sum(f, s), Times(k, Sum(g, s)))
    <3> DEFINE F == Sum(f, s \ {y})
               G == Sum(g, s \ {y})
    <3>1. Summable(f, s) /\ Summable(g, s) /\ Summable(h, s)
      BY <1>1, SummableParts
    <3>2. /\ Sum(f, s) = Plus(f[y], F) /\ Sum(g, s) = Plus(g[y], G)
          /\ Sum(h, s) = Plus(h[y], Sum(h, s \ {y}))
      BY <3>1, <2>2, SumSplit
    <3>3. Sum(h, s \ {y}) = Minus(F, Times(k, G)) /\ h[y] = Minus(f[y], Times(k, g[y]))
      BY <1>2, <2>2
    <3>4. F \in Coeff /\ G \in Coeff /\ f[y] \in Coeff /\ g[y] \in Coeff
      BY <2>2, SummableParts DEF Summable
    <3> HIDE DEF F, G
    <3>5. Plus(Minus(f[y], Times(k, g[y])), Minus(F, Times(k, G)))
            = Minus(Plus(f[y], F), Times(k, Plus(g[y], G)))
      BY <3>4, ScaledInterchange
    <3> QED BY <3>2, <3>3, <3>5
  <2> QED BY <2>1, <2>2
<1>3. IsFiniteSet(S)
  BY DEF Summable
<1>4. SUBSET S \subseteq Good
  <2> HIDE DEF Good
  <2> QED BY <1>2, <1>3, RemovalInduction
<1> QED BY <1>4

\* Terms that are zero may be left out.
LEMMA SumSupport ==
    ASSUME NEW f, NEW S, Summable(f, S), NEW T \in SUBSET S, \A x \in S \ T : f[x] = Zero
    PROVE  Sum(f, S) = Sum(f, T)
<1> DEFINE Good == {s \in SUBSET S : Sum(f, s) = Sum(f, s \cap T)}
<1>1. ASSUME NEW s \in SUBSET S, \A y \in s : s \ {y} \in Good
      PROVE  s \in Good
  <2>1. CASE s \subseteq T
    <3>1. s \cap T = s
      BY <2>1
    <3> QED BY <3>1
  <2>2. ASSUME NEW y \in s \ T
        PROVE  Sum(f, s) = Sum(f, s \cap T)
    <3>1. Summable(f, s) /\ Sum(f, s \ {y}) \in Coeff
      BY SummableParts
    <3>2. Sum(f, s) = Plus(f[y], Sum(f, s \ {y}))
      BY <3>1, SumSplit
    <3>3. Sum(f, s) = Sum(f, s \ {y})
      <4>1. f[y] = Zero /\ Zero \in Coeff
        BY CoeffAssumption
      <4>2. Plus(Zero, Sum(f, s \ {y})) = Sum(f, s \ {y})
        BY <3>1, <4>1, CoeffAssumption
      <4> QED BY <3>2, <4>1, <4>2
    <3>4. (s \ {y}) \cap T = s \cap T /\ s \ {y} \in Good
      BY <1>1
    <3> QED BY <3>3, <3>4
  <2> QED BY <2>1, <2>2
<1>2. IsFiniteSet(S)
  BY DEF Summable
<1>3. SUBSET S \subseteq Good
  <2> HIDE DEF Good
  <2> QED BY <1>1, <1>2, RemovalInduction
<1>4. S \cap T = T /\ S \in Good
  BY <1>3
<1> QED BY <1>4

\* A sum of zeros, and a sum with one term that is not zero.
LEMMA SumOfZeros ==
    ASSUME NEW f, NEW S, IsFiniteSet(S), \A x \in S : f[x] = Zero
    PROVE  Sum(f, S) = Zero
<1>1. Summable(f, S)
  BY CoeffAssumption DEF Summable
<1>2. Sum(f, S) = Sum(f, {})
  BY <1>1, SumSupport
<1> QED BY <1>2, SumEmpty

LEMMA SumOfOne ==
    ASSUME NEW f, NEW S, Summable(f, S), NEW x \in S, \A y \in S \ {x} : f[y] = Zero
    PROVE  Sum(f, S) = f[x]
<1>1. Sum(f, S) = Plus(f[x], Sum(f, S \ {x}))
  BY SumSplit
<1>2. Sum(f, S \ {x}) = Zero
  <2>1. IsFiniteSet(S \ {x})
    BY SummableParts DEF Summable
  <2> QED BY <2>1, SumOfZeros
<1>3. f[x] \in Coeff
  BY DEF Summable
<1> QED BY <1>1, <1>2, <1>3, CoeffAssumption

\* A sum may be taken over the images of an injective function.
LEMMA SumReindexed ==
    ASSUME NEW S, NEW f, Summable(f, S), NEW h, \A x, y \in S : h[x] = h[y] => x = y,
           NEW g, \A x \in S : g[h[x]] = f[x]
    PROVE  Sum(f, S) = Sum(g, {h[x] : x \in S})
<1> DEFINE Image(s) == {h[x] : x \in s}
           Good == {s \in SUBSET S : Sum(f, s) = Sum(g, Image(s))}
<1>1. IsFiniteSet(S)
  BY DEF Summable
<1>2. ASSUME NEW s \in SUBSET S
      PROVE  Summable(f, s) /\ Summable(g, Image(s))
  <2> DEFINE onto == [x \in s |-> h[x]]
  <2>1. Summable(f, s) /\ IsFiniteSet(s)
    BY <1>1, SummableParts, FS_Subset
  <2>2. onto \in Surjection(s, Image(s))
    BY DEF Surjection
  <2>3. IsFiniteSet(Image(s))
    <3> HIDE DEF onto, Image
    <3> QED BY <2>1, <2>2, FS_Surjection
  <2>4. \A y \in Image(s) : g[y] \in Coeff
    BY <2>1 DEF Summable
  <2> HIDE DEF Image
  <2> QED BY <2>1, <2>3, <2>4 DEF Summable
<1>3. ASSUME NEW s \in SUBSET S, \A y \in s : s \ {y} \in Good
      PROVE  Sum(f, s) = Sum(g, Image(s))
  <2>1. CASE s = {}
    <3>1. Image(s) = {}
      BY <2>1
    <3> HIDE DEF Image
    <3> QED BY <2>1, <3>1, SumEmpty
  <2>2. ASSUME NEW y \in s
        PROVE  Sum(f, s) = Sum(g, Image(s))
    <3>1. h[y] \in Image(s) /\ Image(s) \ {h[y]} = Image(s \ {y})
      OBVIOUS
    <3>2. Sum(f, s) = Plus(f[y], Sum(f, s \ {y}))
      <4>1. Summable(f, s)
        BY <1>2
      <4> QED BY <4>1, SumSplit
    <3>3. Sum(g, Image(s)) = Plus(g[h[y]], Sum(g, Image(s) \ {h[y]}))
      <4> HIDE DEF Image
      <4> QED BY <1>2, <3>1, SumSplit
    <3>4. Sum(f, s \ {y}) = Sum(g, Image(s \ {y})) /\ f[y] = g[h[y]]
      BY <1>3
    <3> HIDE DEF Image
    <3> QED BY <3>1, <3>2, <3>3, <3>4
  <2> QED BY <2>1, <2>2
<1>4. SUBSET S \subseteq Good
  <2>1. \A s \in SUBSET S : (\A y \in s : s \ {y} \in Good) => s \in Good
    BY <1>3
  <2> HIDE DEF Good
  <2> QED BY <1>1, <2>1, RemovalInduction
<1>5. S \in Good
  <2> HIDE DEF Good
  <2> QED BY <1>4
<1> QED BY <1>5

-----------------------------------------------------------------------------
(* Enumerations *)

(***************************************************************************)
(* Enumerating a finite set in ascending order reaches every rank: the     *)
(* sets of smaller elements are strictly nested, so their cardinalities    *)
(* are pairwise different and fill 0 .. n - 1.                             *)
(***************************************************************************)
LEMMA RankOnto ==
    ASSUME NEW S, IsFiniteSet(S), NEW below \in [S -> SUBSET S],
           \A x \in S : x \notin below[x],
           \A x, y \in S : x # y =>
               \/ x \in below[y] /\ below[x] \subseteq below[y]
               \/ y \in below[x] /\ below[y] \subseteq below[x]
    PROVE  \A i \in 1 .. Cardinality(S) :
               \E x \in S : Cardinality(below[x]) = i - 1
<1> DEFINE n == Cardinality(S)
           T == 0 .. n - 1
           rank == [x \in S |-> Cardinality(below[x])]
<1>1. n \in Nat
  BY FS_CardinalityType
<1>2. IsFiniteSet(T) /\ Cardinality(T) = n
  <2>1. 0 \in Int /\ n - 1 \in Int
    BY <1>1
  <2>2. IsFiniteSet(T) /\ Cardinality(T) = IF 0 > n - 1 THEN 0 ELSE (n - 1) - 0 + 1
    BY <2>1, FS_Interval
  <2> QED BY <2>2, <1>1
<1>3. \A x \in S : IsFiniteSet(below[x]) /\ rank[x] \in Nat
  BY FS_Subset, FS_CardinalityType
<1>4. \A x \in S : rank[x] \in T
  <2> TAKE x \in S
  <2>1. below[x] \in SUBSET S /\ below[x] # S
    OBVIOUS
  <2>2. Cardinality(below[x]) <= n /\ (Cardinality(S) = Cardinality(below[x]) => S = below[x])
    BY <2>1, FS_Subset
  <2> QED BY <2>1, <2>2, <1>1, <1>3
<1>5. rank \in Injection(S, T)
  <2>1. rank \in [S -> T]
    BY <1>4
  <2>2. ASSUME NEW x \in S, NEW y \in S, x \in below[y], below[x] \subseteq below[y]
        PROVE  rank[x] # rank[y]
    <3>1. below[x] \in SUBSET below[y] /\ below[x] # below[y]
      BY <2>2
    <3>2. Cardinality(below[y]) = Cardinality(below[x]) => below[y] = below[x]
      BY <3>1, <1>3, FS_Subset
    <3> QED BY <3>1, <3>2
  <2>3. \A x, y \in S : rank[x] = rank[y] => x = y
    BY <2>2
  <2> QED BY <2>1, <2>3 DEF Injection, IsInjective
<1>6. rank \in Surjection(S, T)
  BY <1>1, <1>2, <1>5, FS_Injection
<1>7. \A t \in T : \E x \in S : rank[x] = t
  BY <1>6 DEF Surjection
<1> QED BY <1>1, <1>7

-----------------------------------------------------------------------------
(* The lexicographic order *)

\* LexLess is a strict total order on the integer sequences of one length.
LEMMA LexTotal ==
    ASSUME NEW n \in Nat, NEW s \in [1 .. n -> Int], NEW t \in [1 .. n -> Int], s # t
    PROVE  LexLess(s, t) \/ LexLess(t, s)
<1> DEFINE D == {i \in 1 .. n : s[i] # t[i]}
<1>1. D \subseteq Nat /\ D # {}
  OBVIOUS
<1>2. PICK m \in D : \A d \in D : m <= d
  BY <1>1, SmallestElement
<1>3. \A j \in 1 .. m - 1 : s[j] = t[j]
  BY <1>2
<1>4. m \in 1 .. n /\ (s[m] < t[m] \/ t[m] < s[m])
  BY <1>2
<1> QED BY <1>3, <1>4 DEF LexLess

LEMMA LexIrreflexive ==
    ASSUME NEW n \in Nat, NEW s \in [1 .. n -> Int]
    PROVE  ~LexLess(s, s)
BY DEF LexLess

LEMMA LexTransitive ==
    ASSUME NEW n \in Nat, NEW s \in [1 .. n -> Int], NEW t \in [1 .. n -> Int],
           NEW u \in [1 .. n -> Int], LexLess(s, t), LexLess(t, u)
    PROVE  LexLess(s, u)
<1>1. PICK i \in 1 .. n : s[i] < t[i] /\ \A j \in 1 .. i - 1 : s[j] = t[j]
  BY DEF LexLess
<1>2. PICK k \in 1 .. n : t[k] < u[k] /\ \A j \in 1 .. k - 1 : t[j] = u[j]
  BY DEF LexLess
<1> DEFINE m == IF i <= k THEN i ELSE k
<1>3. m \in 1 .. n /\ s[m] < u[m]
  <2>1. CASE i < k
    BY <1>1, <1>2, <2>1
  <2>2. CASE i = k
    BY <1>1, <1>2, <2>2
  <2>3. CASE i > k
    BY <1>1, <1>2, <2>3
  <2> QED BY <2>1, <2>2, <2>3
<1>4. \A j \in 1 .. m - 1 : s[j] = u[j]
  BY <1>1, <1>2
<1> QED BY <1>3, <1>4 DEF LexLess

\* The number of elements of S that come before x by their keys.
KeyRank(S, key, x) == Cardinality({y \in S : LexLess(key[y], key[x])})

\* Ranked by distinct integer sequences of one length, the elements of a
\* finite set take every rank.
LEMMA LexRankOnto ==
    ASSUME NEW S, IsFiniteSet(S), NEW n \in Nat, NEW key \in [S -> [1 .. n -> Int]],
           \A x, y \in S : key[x] = key[y] => x = y
    PROVE  \A i \in 1 .. Cardinality(S) : \E x \in S : KeyRank(S, key, x) = i - 1
<1> DEFINE below == [x \in S |-> {y \in S : LexLess(key[y], key[x])}]
<1>1. below \in [S -> SUBSET S]
  OBVIOUS
<1>2. \A x \in S : x \notin below[x]
  BY LexIrreflexive
<1>3. ASSUME NEW x \in S, NEW y \in S, LexLess(key[x], key[y])
      PROVE  x \in below[y] /\ below[x] \subseteq below[y]
  BY <1>3, LexTransitive
<1>4. \A x, y \in S : x # y => LexLess(key[x], key[y]) \/ LexLess(key[y], key[x])
  BY LexTotal
<1>5. \A x, y \in S : x # y =>
               \/ x \in below[y] /\ below[x] \subseteq below[y]
               \/ y \in below[x] /\ below[y] \subseteq below[x]
  BY <1>3, <1>4
<1>6. \A i \in 1 .. Cardinality(S) : \E x \in S : Cardinality(below[x]) = i - 1
  <2> HIDE DEF below
  <2> QED BY <1>1, <1>2, <1>5, RankOnto
<1> QED BY <1>6 DEF KeyRank

-----------------------------------------------------------------------------
(* The words and the constraints of a call *)

LEMMA FunctionSetFinite ==
    ASSUME NEW A, NEW B, IsFiniteSet(A), IsFiniteSet(B)
    PROVE  IsFiniteSet([A -> B])
<1> DEFINE graph == [f \in [A -> B] |-> {p \in A \X B : f[p[1]] = p[2]}]
<1>1. IsFiniteSet(SUBSET (A \X B))
  BY FS_Product, FS_SUBSET
<1>2. graph \in [[A -> B] -> SUBSET (A \X B)]
  OBVIOUS
<1>3. ASSUME NEW f \in [A -> B], NEW g \in [A -> B], graph[f] = graph[g]
      PROVE  f = g
  <2>1. \A a \in A : <<a, f[a]>> \in graph[f]
    OBVIOUS
  <2>2. \A a \in A : <<a, f[a]>> \in graph[g]
    BY <2>1, <1>3
  <2>3. \A a \in A : g[a] = f[a]
    BY <2>2
  <2> QED BY <2>3
<1>4. graph \in Injection([A -> B], SUBSET (A \X B))
  <2> HIDE DEF graph
  <2> QED BY <1>2, <1>3 DEF Injection, IsInjective
<1> QED BY <1>1, <1>4, FS_Injection

LEMMA EnumerationLength ==
    ASSUME NEW n \in Nat, NEW f, f = [i \in 1 .. n |-> f[i]]
    PROVE  Len(f) = n /\ DOMAIN f = 1 .. n
<1>1. f \in [1 .. n -> {f[i] : i \in 1 .. n}]
  OBVIOUS
<1>2. f \in Seq({f[i] : i \in 1 .. n})
  BY <1>1
<1> QED BY <1>1, <1>2

\* The columns are words of the given weight over the alphabet, each once.
LEMMA WordsType ==
    ASSUME NEW j \in Jobs
    PROVE  /\ Len(Words(j)) \in Nat /\ DOMAIN Words(j) = 1 .. Len(Words(j))
           /\ Words(j) \in [DOMAIN Words(j) -> [1 .. j.weight -> DOMAIN j.letters]]
           /\ \A a, b \in DOMAIN Words(j) : Words(j)[a] = Words(j)[b] => a = b
<1> DEFINE W == [1 .. j.weight -> DOMAIN j.letters]
           S == {w \in W : \A pos \in DOMAIN w : AllowStep(j.constraints, w, pos)}
           key == [w \in S |-> w]
<1>1. j.weight \in Nat /\ Len(j.letters) \in Nat /\ DOMAIN j.letters = 1 .. Len(j.letters)
  BY JobsAssumption
<1>2. IsFiniteSet(W)
  <2>1. IsFiniteSet(1 .. j.weight) /\ IsFiniteSet(DOMAIN j.letters)
    BY <1>1, FS_Interval
  <2> QED BY <2>1, FunctionSetFinite
<1>3. IsFiniteSet(S) /\ Cardinality(S) \in Nat
  BY <1>2, FS_Subset, FS_CardinalityType
<1>4. key \in [S -> [1 .. j.weight -> Int]] /\ \A x, y \in S : key[x] = key[y] => x = y
  BY <1>1
<1>5. \A i \in 1 .. Cardinality(S) : \E x \in S : KeyRank(S, key, x) = i - 1
  <2> HIDE DEF S, key
  <2> QED BY <1>1, <1>3, <1>4, LexRankOnto
<1>6. ASSUME NEW x \in S
      PROVE  KeyRank(S, key, x) = Cardinality({y \in S : LexLess(y, x)})
  <2>1. {y \in S : LexLess(key[y], key[x])} = {y \in S : LexLess(y, x)}
    OBVIOUS
  <2> QED BY <2>1 DEF KeyRank
<1>7. \A i \in 1 .. Cardinality(S) :
          \E x \in S : Cardinality({y \in S : LexLess(y, x)}) = i - 1
  <2> HIDE DEF S, key
  <2> QED BY <1>5, <1>6
<1>8. Words(j) = [i \in 1 .. Cardinality(S) |->
                    CHOOSE x \in S : Cardinality({y \in S : LexLess(y, x)}) = i - 1]
  BY DEF Words, Ascending
<1> DEFINE rank(x) == Cardinality({y \in S : LexLess(y, x)})
<1>9. \A i \in 1 .. Cardinality(S) : Words(j)[i] \in S /\ rank(Words(j)[i]) = i - 1
  <2> HIDE DEF S
  <2> QED BY <1>7, <1>8
<1>10. Len(Words(j)) = Cardinality(S) /\ DOMAIN Words(j) = 1 .. Cardinality(S)
  <2> HIDE DEF S
  <2>1. Words(j) = [i \in 1 .. Cardinality(S) |-> Words(j)[i]]
    BY <1>8
  <2> QED BY <2>1, <1>3, EnumerationLength
<1>11. Words(j) \in [1 .. Cardinality(S) -> W]
  <2>1. \A i \in 1 .. Cardinality(S) : Words(j)[i] \in W
    BY <1>9
  <2> HIDE DEF S, W
  <2> QED BY <2>1, <1>8
<1>12. \A a, b \in 1 .. Cardinality(S) : Words(j)[a] = Words(j)[b] => a = b
  <2>1. \A a, b \in 1 .. Cardinality(S) : Words(j)[a] = Words(j)[b] => a - 1 = b - 1
    <3> HIDE DEF S, rank
    <3> QED BY <1>9
  <2>2. \A a, b \in 1 .. Cardinality(S) : a - 1 = b - 1 => a = b
    <3> HIDE DEF S
    <3> QED BY <1>3
  <2> HIDE DEF S
  <2> QED BY <2>1, <2>2
<1> HIDE DEF S, rank
<1> QED BY <1>3, <1>10, <1>11, <1>12

\* ws lists words of n letters, at least two, of the finite set L.
WordsAre(ws, n, L) ==
    /\ n \in Nat /\ n >= 2
    /\ L \subseteq Int /\ IsFiniteSet(L)
    /\ \A c \in DOMAIN ws : ws[c] \in [1 .. n -> L]

\* The constraints name a position, letters of L and a pair of variables, and
\* none is left out.
ConstraintsNamed(ws, nv, n, L) ==
    /\ Constraints(ws, nv, n) \in Seq(ConstraintSet(ws, nv, n))
    /\ ConstraintSet(ws, nv, n) \subseteq
         [k : 1 .. n - 1, context : [1 .. n - 2 -> L], vi : 1 .. nv, vj : 1 .. nv]
    /\ \A t \in ConstraintSet(ws, nv, n) :
         \E i \in DOMAIN Constraints(ws, nv, n) : Constraints(ws, nv, n)[i] = t

\* Every constraint of the loops names an adjacent position, a pair of
\* variables and the rest of a column, and the loops leave none out.
LEMMA ConstraintsOfWords ==
    ASSUME NEW n, NEW L, NEW ws, NEW nv \in Nat, WordsAre(ws, n, L)
    PROVE  ConstraintsNamed(ws, nv, n, L)
<1> DEFINE K == 1 .. n - 1
           C == [1 .. n - 2 -> L]
           V == 1 .. nv
           S == ConstraintSet(ws, nv, n)
           key == [t \in S |-> LoopKey(t, n)]
<1>1. n \in Nat /\ n >= 2 /\ L \subseteq Int /\ IsFiniteSet(L) /\ nv \in Nat
  BY DEF WordsAre
<1>2. ASSUME NEW w \in [1 .. n -> L], NEW k \in K
      PROVE  Context(w, k) \in C
  <2>1. w \in Seq(L) /\ Len(w) = n
    BY <1>1
  <2>2. \A i \in 1 .. n - 2 : (IF i < k THEN w[i] ELSE w[i + 2]) \in L
    BY <1>1
  <2> QED BY <2>1, <2>2 DEF Context
<1>3. \A c \in DOMAIN ws : ws[c] \in [1 .. n -> L]
  BY DEF WordsAre
<1>4. S \subseteq [k : K, context : C, vi : V, vj : V]
  <2> SUFFICES ASSUME NEW t \in S PROVE t \in [k : K, context : C, vi : V, vj : V]
    OBVIOUS
  <2>1. PICK k \in K, c \in DOMAIN ws, vi \in V, vj \in V :
          t = [k |-> k, context |-> Context(ws[c], k), vi |-> vi, vj |-> vj]
    BY DEF ConstraintSet
  <2>2. Context(ws[c], k) \in C
    BY <1>2, <1>3
  <2> QED BY <2>1, <2>2
<1>5. IsFiniteSet(S)
  <2> DEFINE T == K \X (C \X (V \X V))
             h == [t \in S |-> <<t.k, <<t.context, <<t.vi, t.vj>>>>>>]
  <2>1. IsFiniteSet(K) /\ IsFiniteSet(V) /\ IsFiniteSet(1 .. n - 2) /\ IsFiniteSet(L)
    <3>1. 1 \in Int /\ n - 1 \in Int /\ n - 2 \in Int /\ nv \in Int
      BY <1>1
    <3> QED BY <3>1, <1>1, FS_Interval
  <2>2. IsFiniteSet(C)
    BY <2>1, FunctionSetFinite
  <2>3. IsFiniteSet(T)
    <3>1. IsFiniteSet(V \X V)
      BY <2>1, FS_Product
    <3>2. IsFiniteSet(C \X (V \X V))
      BY <2>2, <3>1, FS_Product
    <3> QED BY <2>1, <3>2, FS_Product
  <2>4. h \in [S -> T]
    BY <1>4
  <2>5. ASSUME NEW s \in S, NEW t \in S, h[s] = h[t]
        PROVE  s = t
    <3>1. s.k = t.k /\ s.context = t.context /\ s.vi = t.vi /\ s.vj = t.vj
      BY <2>5
    <3> QED BY <3>1, <1>4
  <2>6. h \in Injection(S, T)
    <3> HIDE DEF h, S, T
    <3> QED BY <2>4, <2>5 DEF Injection, IsInjective
  <2> HIDE DEF h, S, T
  <2> QED BY <2>3, <2>6, FS_Injection
<1>6. ASSUME NEW t \in S
      PROVE  LoopKey(t, n) \in [1 .. n + 1 -> Int]
  <2>1. t.k \in Int /\ t.vi \in Int /\ t.vj \in Int /\ t.context \in [1 .. n - 2 -> Int]
    <3>1. t.k \in K /\ t.vi \in V /\ t.vj \in V /\ t.context \in C
      <4> HIDE DEF K, V, C, S
      <4> QED BY <1>4
    <3>2. n - 1 \in Int /\ n - 2 \in Int /\ L \subseteq Int
      BY <1>1
    <3>3. t.k \in Int /\ t.vi \in Int /\ t.vj \in Int
      BY <3>1, <3>2
    <3>4. t.context \in [1 .. n - 2 -> L]
      BY <3>1
    <3>5. ASSUME NEW D, NEW f \in [D -> L]
          PROVE  f \in [D -> Int]
      BY <3>2
    <3> QED BY <3>3, <3>4, <3>5
  <2>2. \A i \in 1 .. n + 1 : i # 1 /\ i # n /\ i # n + 1 => i - 1 \in 1 .. n - 2
    BY <1>1
  <2> QED BY <2>1, <2>2 DEF LoopKey
<1>7. ASSUME NEW s \in S, NEW t \in S, LoopKey(s, n) = LoopKey(t, n)
      PROVE  s = t
  <2>1. \A i \in 1 .. n + 1 : LoopKey(s, n)[i] = LoopKey(t, n)[i]
    BY <1>7
  <2>2. s.k = t.k
    <3>1. 1 \in 1 .. n + 1 /\ 1 # n /\ 1 # n + 1
      BY <1>1
    <3>2. LoopKey(s, n)[1] = s.k /\ LoopKey(t, n)[1] = t.k
      BY <3>1 DEF LoopKey
    <3> QED BY <3>2, <1>7
  <2>3. s.vi = t.vi
    <3>1. n \in 1 .. n + 1 /\ n # 1
      BY <1>1
    <3>2. LoopKey(s, n)[n] = s.vi /\ LoopKey(t, n)[n] = t.vi
      BY <3>1 DEF LoopKey
    <3> QED BY <3>2, <1>7
  <2>4. s.vj = t.vj
    <3>1. n + 1 \in 1 .. n + 1 /\ n + 1 # 1 /\ n + 1 # n
      BY <1>1
    <3>2. LoopKey(s, n)[n + 1] = s.vj /\ LoopKey(t, n)[n + 1] = t.vj
      BY <3>1 DEF LoopKey
    <3> QED BY <3>2, <1>7
  <2>5. \A i \in 1 .. n - 2 : s.context[i] = t.context[i]
    <3> TAKE i \in 1 .. n - 2
    <3>1. /\ i + 1 \in 1 .. n + 1 /\ i + 1 # 1 /\ i + 1 # n /\ i + 1 # n + 1
          /\ (i + 1) - 1 = i
      BY <1>1
    <3>2. LoopKey(s, n)[i + 1] = s.context[i]
      BY <3>1 DEF LoopKey
    <3>3. LoopKey(t, n)[i + 1] = t.context[i]
      BY <3>1 DEF LoopKey
    <3> QED BY <3>1, <3>2, <3>3, <2>1
  <2>6. s.context \in [1 .. n - 2 -> L] /\ t.context \in [1 .. n - 2 -> L]
    BY <1>4
  <2>7. s.context = t.context
    <3>1. ASSUME NEW f \in [1 .. n - 2 -> L], NEW g \in [1 .. n - 2 -> L],
                 \A i \in 1 .. n - 2 : f[i] = g[i]
          PROVE  f = g
      <4>1. f = [i \in 1 .. n - 2 |-> f[i]] /\ g = [i \in 1 .. n - 2 |-> g[i]]
        OBVIOUS
      <4> QED BY <3>1, <4>1
    <3> QED BY <3>1, <2>5, <2>6
  <2> QED BY <2>2, <2>3, <2>4, <2>7, <1>4
<1>8. Cardinality(S) \in Nat
  BY <1>5, FS_CardinalityType
<1>9. key \in [S -> [1 .. n + 1 -> Int]] /\ \A s, t \in S : key[s] = key[t] => s = t
  BY <1>6, <1>7
<1>10. \A i \in 1 .. Cardinality(S) : \E x \in S : KeyRank(S, key, x) = i - 1
  <2>1. n + 1 \in Nat
    BY <1>1
  <2> HIDE DEF S, key
  <2> QED BY <2>1, <1>5, <1>9, LexRankOnto
<1>11. ASSUME NEW x \in S
       PROVE  KeyRank(S, key, x) =
                Cardinality({y \in S : LexLess(LoopKey(y, n), LoopKey(x, n))})
  <2> HIDE DEF S
  <2>1. {y \in S : LexLess(key[y], key[x])} = {y \in S : LexLess(LoopKey(y, n), LoopKey(x, n))}
    OBVIOUS
  <2> QED BY <2>1 DEF KeyRank
<1> DEFINE cs == Constraints(ws, nv, n)
<1>12. cs = [i \in 1 .. Cardinality(S) |->
               CHOOSE x \in S :
                 Cardinality({y \in S : LexLess(LoopKey(y, n), LoopKey(x, n))}) = i - 1]
  BY DEF Constraints, Ascending
<1> DEFINE rank(x) == Cardinality({y \in S : LexLess(LoopKey(y, n), LoopKey(x, n))})
<1>13. \A i \in 1 .. Cardinality(S) : cs[i] \in S /\ rank(cs[i]) = i - 1
  <2>1. \A i \in 1 .. Cardinality(S) : \E x \in S :
          Cardinality({y \in S : LexLess(LoopKey(y, n), LoopKey(x, n))}) = i - 1
    <3> HIDE DEF S, key
    <3> QED BY <1>10, <1>11
  <2> HIDE DEF S, cs
  <2> QED BY <2>1, <1>12
<1>14. cs \in [1 .. Cardinality(S) -> S]
  <2> HIDE DEF S, cs, rank
  <2> QED BY <1>12, <1>13
<1>15. cs \in Seq(S)
  <2> HIDE DEF S, cs
  <2> QED BY <1>8, <1>14
<1>16. cs \in Surjection(1 .. Cardinality(S), S)
  <2> DEFINE I == 1 .. Cardinality(S)
  <2>1. IsFiniteSet(I) /\ Cardinality(I) = Cardinality(S)
    <3>1. 1 \in Int /\ Cardinality(S) \in Int
      BY <1>8
    <3> HIDE DEF S
    <3>2. IsFiniteSet(I) /\ Cardinality(I) = IF 1 > Cardinality(S) THEN 0 ELSE Cardinality(S) - 1 + 1
      BY <3>1, FS_Interval
    <3> QED BY <3>2, <1>8
  <2>2. \A i, k \in I : cs[i] = cs[k] => i = k
    <3> HIDE DEF S, cs, rank
    <3> QED BY <1>8, <1>13
  <2>3. cs \in Injection(I, S)
    <3> HIDE DEF S, cs, I
    <3> QED BY <1>14, <2>2 DEF Injection, IsInjective, I
  <2> HIDE DEF S, cs, I
  <2>4. cs \in Surjection(I, S)
    BY <1>5, <2>1, <2>3, FS_Injection
  <2> QED BY <2>4 DEF I
<1>17. \A t \in S : \E i \in DOMAIN cs : cs[i] = t
  <2> HIDE DEF S, cs
  <2> QED BY <1>14, <1>16 DEF Surjection
<1> QED BY <1>4, <1>15, <1>17 DEF ConstraintsNamed

\* In particular those of a call.
LEMMA ConstraintsType ==
    ASSUME NEW j \in Jobs, j.weight >= 2, NEW nv \in Nat
    PROVE  /\ Constraints(Words(j), nv, j.weight) \in Seq(ConstraintSet(Words(j), nv, j.weight))
           /\ ConstraintSet(Words(j), nv, j.weight) \subseteq
                [k : 1 .. j.weight - 1, context : [1 .. j.weight - 2 -> DOMAIN j.letters],
                 vi : 1 .. nv, vj : 1 .. nv]
           /\ \A t \in ConstraintSet(Words(j), nv, j.weight) :
                \E i \in DOMAIN Constraints(Words(j), nv, j.weight) :
                    Constraints(Words(j), nv, j.weight)[i] = t
<1> DEFINE n == j.weight
           L == DOMAIN j.letters
           ws == Words(j)
<1>1. n \in Nat /\ n >= 2 /\ Len(j.letters) \in Nat /\ L = 1 .. Len(j.letters)
  BY JobsAssumption
<1>2. IsFiniteSet(L) /\ L \in SUBSET Int
  <2>1. IsFiniteSet(1 .. Len(j.letters))
    <3>1. 1 \in Int /\ Len(j.letters) \in Int
      BY <1>1
    <3> QED BY <3>1, FS_Interval
  <2> QED BY <1>1, <2>1
<1>3. \A c \in DOMAIN ws : ws[c] \in [1 .. n -> L]
  BY WordsType
<1> HIDE DEF n, L, ws
<1>5. WordsAre(ws, n, L)
  BY <1>1, <1>2, <1>3 DEF WordsAre
<1>4. ConstraintsNamed(ws, nv, n, L)
  BY <1>5, ConstraintsOfWords
<1> QED BY <1>4 DEF n, L, ws, ConstraintsNamed

\* The variables of an alphabet are enumerated one by one.
LEMMA AlphabetVarsType ==
    ASSUME NEW j \in Jobs
    PROVE  /\ Len(AlphabetVars(j.letters)) \in Nat
           /\ DOMAIN AlphabetVars(j.letters) = 1 .. Len(AlphabetVars(j.letters))
<1> DEFINE L == DOMAIN j.letters
           F == {VarsOf(j.letters[i]) : i \in L}
           f == [i \in L |-> VarsOf(j.letters[i])]
           vs == AlphabetVars(j.letters)
<1>1. IsFiniteSet(L)
  <2>1. Len(j.letters) \in Nat /\ L = 1 .. Len(j.letters)
    BY JobsAssumption
  <2>2. 1 \in Int /\ Len(j.letters) \in Int
    BY <2>1
  <2> QED BY <2>1, <2>2, FS_Interval
<1>2. IsFiniteSet(F)
  <2>1. f \in Surjection(L, F)
    BY DEF Surjection
  <2> HIDE DEF f, F
  <2> QED BY <1>1, <2>1, FS_Surjection
<1>3. IsFiniteSet(UNION F)
  <2>1. \A T \in F : IsFiniteSet(T)
    BY JobsAssumption
  <2> HIDE DEF F
  <2> QED BY <1>2, <2>1, FS_UNION
<1>4. Cardinality(UNION F) \in Nat
  <2> HIDE DEF F
  <2> QED BY <1>3, FS_CardinalityType
<1>5. vs = [i \in 1 .. Cardinality(UNION F) |-> vs[i]]
  <2> DEFINE at(i) ==
        CHOOSE x \in UNION F : Cardinality({y \in UNION F : y < x}) = i - 1
  <2>1. vs = [i \in 1 .. Cardinality(UNION F) |-> at(i)]
    BY Zenon DEF AlphabetVars, Ascending
  <2> HIDE DEF F, vs, at
  <2> QED BY <2>1
<1> HIDE DEF F, vs
<1>6. Len(vs) = Cardinality(UNION F) /\ DOMAIN vs = 1 .. Cardinality(UNION F)
  BY <1>4, <1>5, EnumerationLength
<1> QED BY <1>4, <1>6 DEF vs

-----------------------------------------------------------------------------
(* Sparse rows *)

\* The leading column of a row is its smallest one.
LEMMA LeadIsSmallest ==
    ASSUME NEW r, DOMAIN r \subseteq Nat, DOMAIN r # {}
    PROVE  Lead(r) \in DOMAIN r /\ \A c \in DOMAIN r : Lead(r) <= c
<1>1. \E m \in DOMAIN r : \A c \in DOMAIN r : m <= c
  BY SmallestElement
<1> QED BY <1>1 DEF Lead, Min

\* Subtracting the leading value times a normalised pivot row clears the
\* leading column, keeps the row free of zeros and adds only columns of the
\* pivot row.
LEMMA AddScaledRowClears ==
    ASSUME NEW r, r \in [DOMAIN r -> NonZero], NEW q, q \in [DOMAIN q -> NonZero],
           NEW p \in DOMAIN r, p \in DOMAIN q, q[p] = One
    PROVE  LET s == AddScaledRow(r, r[p], q)
           IN  /\ s \in [DOMAIN s -> NonZero]
               /\ DOMAIN s \subseteq (DOMAIN r \cup DOMAIN q) \ {p}
<1> DEFINE f == [c \in DOMAIN r \cup DOMAIN q |->
                    Minus(At(r, c), Times(r[p], At(q, c)))]
           D == {c \in DOMAIN r \cup DOMAIN q : f[c] # Zero}
           s == AddScaledRow(r, r[p], q)
<1>1. s = [c \in D |-> f[c]]
  BY DEF AddScaledRow, RestrictValues, Restrict
<1>2. \A c \in DOMAIN r \cup DOMAIN q : f[c] \in Coeff
  <2>1. \A c : At(r, c) \in Coeff /\ At(q, c) \in Coeff
    BY CoeffAssumption DEF At, NonZero
  <2>2. r[p] \in Coeff
    BY DEF NonZero
  <2> QED BY <2>1, <2>2, CoeffAssumption
<1>3. p \notin D
  <2>1. f[p] = Minus(r[p], Times(r[p], One)) /\ r[p] \in Coeff
    BY DEF At, NonZero
  <2>2. f[p] = Zero
    BY <2>1, CoeffAssumption, MinusIsZero
  <2> HIDE DEF f
  <2> QED BY <2>2
<1>4. s \in [D -> NonZero]
  <2> HIDE DEF f, s
  <2> QED BY <1>1, <1>2 DEF NonZero
<1> QED BY <1>3, <1>4

\* Scaling by the inverse of the leading value gives a leading one.
LEMMA NormalisedLeadsWithOne ==
    ASSUME NEW r, r \in [DOMAIN r -> NonZero], Lead(r) \in DOMAIN r
    PROVE  /\ Normalised(r) \in [DOMAIN r -> NonZero]
           /\ Normalised(r)[Lead(r)] = One
<1> DEFINE x == r[Lead(r)]
<1>1. x \in NonZero /\ Recip(x) \in NonZero /\ Times(x, Recip(x)) = One
  BY CoeffAssumption
<1>2. \A c \in DOMAIN r : r[c] \in NonZero /\ Times(r[c], Recip(x)) \in NonZero
  <2> HIDE DEF x
  <2>1. \A c \in DOMAIN r : r[c] \in Coeff /\ r[c] # Zero /\ Recip(x) \in NonZero
    BY <1>1 DEF NonZero
  <2>2. \A c \in DOMAIN r : Times(r[c], Recip(x)) # Zero
    BY <2>1, NoZeroDivisors
  <2> QED BY <2>1, <2>2, CoeffAssumption DEF NonZero
<1> QED BY <1>1, <1>2 DEF Normalised

-----------------------------------------------------------------------------
(* What a row says of a vector *)

\* A sparse row over the columns C.
IsSparse(r, C) == r \in [DOMAIN r -> NonZero] /\ DOMAIN r \subseteq C

\* The product of a row and a vector.
RowValue(r, v, C) == Sum([c \in C |-> Times(At(r, c), v[c])], C)

LEMMA RowTerms ==
    ASSUME NEW C, IsFiniteSet(C), NEW r, IsSparse(r, C), NEW v \in [C -> Coeff]
    PROVE  /\ \A c : At(r, c) \in Coeff
           /\ Summable([c \in C |-> Times(At(r, c), v[c])], C)
           /\ RowValue(r, v, C) \in Coeff
<1>1. \A c : At(r, c) \in Coeff
  BY CoeffAssumption DEF At, IsSparse, NonZero
<1>2. Summable([c \in C |-> Times(At(r, c), v[c])], C)
  BY <1>1, CoeffAssumption DEF Summable
<1> QED BY <1>1, <1>2, SumType DEF RowValue

\* The columns a row leaves out do not count.
LEMMA RowValueOfRow ==
    ASSUME NEW C, IsFiniteSet(C), NEW r, IsSparse(r, C), NEW v \in [C -> Coeff]
    PROVE  RowValue(r, v, C) = Sum([c \in DOMAIN r |-> Times(r[c], v[c])], DOMAIN r)
<1> DEFINE f == [c \in C |-> Times(At(r, c), v[c])]
           g == [c \in DOMAIN r |-> Times(r[c], v[c])]
<1>1. Summable(f, C) /\ DOMAIN r \in SUBSET C
  BY RowTerms DEF IsSparse
<1>2. \A c \in C \ DOMAIN r : f[c] = Zero
  BY TimesZero DEF At
<1>3. Sum(f, C) = Sum(f, DOMAIN r)
  <2> HIDE DEF f
  <2> QED BY <1>1, <1>2, SumSupport
<1>4. \A c \in DOMAIN r : f[c] = g[c]
  BY <1>1 DEF At
<1>5. Summable(f, DOMAIN r)
  <2> HIDE DEF f
  <2> QED BY <1>1, SummableParts
<1>6. Sum(f, DOMAIN r) = Sum(g, DOMAIN r)
  <2> HIDE DEF f, g
  <2> QED BY <1>4, <1>5, SumCongruence
<1> QED BY <1>3, <1>6 DEF RowValue

\* The empty row annihilates every vector.
LEMMA EmptyRowValue ==
    ASSUME NEW C, IsFiniteSet(C), NEW v \in [C -> Coeff], NEW r, DOMAIN r = {}
    PROVE  RowValue(r, v, C) = Zero
<1> DEFINE f == [c \in C |-> Times(At(r, c), v[c])]
<1>1. \A c \in C : f[c] = Zero
  BY TimesZero DEF At
<1>2. Sum(f, C) = Zero
  <2> HIDE DEF f
  <2> QED BY <1>1, SumOfZeros
<1> QED BY <1>2 DEF RowValue

\* The product is linear in the row.
LEMMA RowValueScaled ==
    ASSUME NEW C, IsFiniteSet(C), NEW r, IsSparse(r, C), NEW q, IsSparse(q, C),
           NEW s, NEW k \in Coeff, \A c \in C : At(s, c) = Minus(At(r, c), Times(k, At(q, c))),
           NEW v \in [C -> Coeff]
    PROVE  RowValue(s, v, C) = Minus(RowValue(r, v, C), Times(k, RowValue(q, v, C)))
<1> DEFINE f == [c \in C |-> Times(At(r, c), v[c])]
           g == [c \in C |-> Times(At(q, c), v[c])]
           h == [c \in C |-> Times(At(s, c), v[c])]
<1>1. Summable(f, C) /\ Summable(g, C)
  BY RowTerms
<1>2. \A c \in C : h[c] = Minus(f[c], Times(k, g[c]))
  <2> TAKE c \in C
  <2>1. At(r, c) \in Coeff /\ At(q, c) \in Coeff /\ v[c] \in Coeff
    BY RowTerms
  <2>2. Times(Minus(At(r, c), Times(k, At(q, c))), v[c])
          = Minus(Times(At(r, c), v[c]), Times(k, Times(At(q, c), v[c])))
    BY <2>1, TimesScaled
  <2> QED BY <2>2
<1>3. Sum(h, C) = Minus(Sum(f, C), Times(k, Sum(g, C)))
  <2> HIDE DEF f, g, h
  <2> QED BY <1>1, <1>2, SumScaled
<1> QED BY <1>3 DEF RowValue

\* The product is linear in the vector.
LEMMA RowValueLinear ==
    ASSUME NEW C, IsFiniteSet(C), NEW r, IsSparse(r, C), NEW v \in [C -> Coeff],
           NEW x \in [C -> Coeff], NEW u, NEW k \in Coeff,
           \A c \in C : u[c] = Minus(v[c], Times(k, x[c]))
    PROVE  RowValue(r, u, C) = Minus(RowValue(r, v, C), Times(k, RowValue(r, x, C)))
<1> DEFINE f == [c \in C |-> Times(At(r, c), v[c])]
           g == [c \in C |-> Times(At(r, c), x[c])]
           h == [c \in C |-> Times(At(r, c), u[c])]
<1>1. Summable(f, C) /\ Summable(g, C)
  BY RowTerms
<1>2. \A c \in C : h[c] = Minus(f[c], Times(k, g[c]))
  <2> TAKE c \in C
  <2> DEFINE y == At(r, c)
  <2>1. y \in Coeff /\ v[c] \in Coeff /\ x[c] \in Coeff
    BY RowTerms
  <2> HIDE DEF y
  <2>2. Times(Minus(v[c], Times(k, x[c])), y) = Minus(Times(v[c], y), Times(k, Times(x[c], y)))
    BY <2>1, TimesScaled
  <2>3. u[c] \in Coeff /\ u[c] = Minus(v[c], Times(k, x[c]))
    <3>1. Times(k, x[c]) \in Coeff
      BY <2>1, CoeffAssumption
    <3>2. Minus(v[c], Times(k, x[c])) \in Coeff
      BY <2>1, <3>1, CoeffAssumption
    <3> QED BY <3>2
  <2>4. /\ Times(y, u[c]) = Times(u[c], y)
        /\ Times(y, v[c]) = Times(v[c], y) /\ Times(y, x[c]) = Times(x[c], y)
    BY <2>1, <2>3, CoeffAssumption
  <2>5. h[c] = Times(y, u[c]) /\ f[c] = Times(y, v[c]) /\ g[c] = Times(y, x[c])
    BY DEF y
  <2> HIDE DEF f, g, h
  <2> QED BY <2>2, <2>3, <2>4, <2>5
<1>3. Sum(h, C) = Minus(Sum(f, C), Times(k, Sum(g, C)))
  <2> HIDE DEF f, g, h
  <2> QED BY <1>1, <1>2, SumScaled
<1> QED BY <1>3 DEF RowValue

\* add_scaled_row computes the difference in every column, also in those it
\* drops.
LEMMA AddScaledRowAt ==
    ASSUME NEW C, NEW r, IsSparse(r, C), NEW q, IsSparse(q, C), NEW k \in Coeff
    PROVE  \A c : At(AddScaledRow(r, k, q), c) = Minus(At(r, c), Times(k, At(q, c)))
<1> DEFINE f == [c \in DOMAIN r \cup DOMAIN q |-> Minus(At(r, c), Times(k, At(q, c)))]
           D == {c \in DOMAIN r \cup DOMAIN q : f[c] # Zero}
           s == AddScaledRow(r, k, q)
<1>1. s = [c \in D |-> f[c]]
  BY DEF AddScaledRow, RestrictValues, Restrict
<1> SUFFICES ASSUME NEW c PROVE At(s, c) = Minus(At(r, c), Times(k, At(q, c)))
  OBVIOUS
<1>2. CASE c \in DOMAIN r \cup DOMAIN q
  <2>1. f[c] = Minus(At(r, c), Times(k, At(q, c)))
    BY <1>2
  <2> HIDE DEF f, s
  <2> QED BY <1>1, <1>2, <2>1 DEF At
<1>3. CASE c \notin DOMAIN r \cup DOMAIN q
  <2>1. At(r, c) = Zero /\ At(q, c) = Zero
    BY <1>3 DEF At
  <2>2. Zero \in Coeff /\ Times(k, Zero) = Zero
    BY CoeffAssumption, TimesZero
  <2>3. Minus(Zero, Times(k, Zero)) = Zero
    BY <2>2, MinusIsZero
  <2>4. At(s, c) = Zero
    <3> HIDE DEF f, s
    <3> QED BY <1>1, <1>3 DEF At
  <2> QED BY <2>1, <2>3, <2>4
<1> QED BY <1>2, <1>3

\* A vector that a pivot row annihilates is annihilated by a row before and
\* after the pivot row is subtracted from it, or by neither.
LEMMA AddScaledRowKeepsKernel ==
    ASSUME NEW C, IsFiniteSet(C), NEW r, IsSparse(r, C), NEW q, IsSparse(q, C),
           NEW k \in Coeff, NEW v \in [C -> Coeff], RowValue(q, v, C) = Zero
    PROVE  RowValue(AddScaledRow(r, k, q), v, C) = Zero <=> RowValue(r, v, C) = Zero
<1>1. \A c : At(AddScaledRow(r, k, q), c) = Minus(At(r, c), Times(k, At(q, c)))
  BY AddScaledRowAt
<1>2. RowValue(AddScaledRow(r, k, q), v, C) = Minus(RowValue(r, v, C), Times(k, RowValue(q, v, C)))
  BY <1>1, RowValueScaled
<1>3. Times(k, Zero) = Zero /\ Zero \in Coeff /\ RowValue(r, v, C) \in Coeff
  BY TimesZero, CoeffAssumption, RowTerms
<1>4. Minus(RowValue(r, v, C), Zero) = Zero <=> RowValue(r, v, C) = Zero
  BY <1>3, MinusIsZero
<1> QED BY <1>2, <1>3, <1>4

\* Scaling a row to a leading one does not change what it annihilates.
LEMMA NormalisedKeepsKernel ==
    ASSUME NEW C, IsFiniteSet(C), NEW r, IsSparse(r, C), Lead(r) \in DOMAIN r,
           NEW v \in [C -> Coeff]
    PROVE  RowValue(Normalised(r), v, C) = Zero <=> RowValue(r, v, C) = Zero
<1> DEFINE x == r[Lead(r)]
           q == Normalised(r)
<1>1. x \in NonZero /\ x \in Coeff /\ Recip(x) \in Coeff /\ Times(x, Recip(x)) = One
  BY CoeffAssumption DEF IsSparse, NonZero
<1>2. IsSparse(q, C) /\ DOMAIN q = DOMAIN r
  BY NormalisedLeadsWithOne DEF IsSparse
<1>3. \A c \in DOMAIN r : q[c] = Times(r[c], Recip(x)) /\ r[c] \in Coeff
  BY DEF Normalised, IsSparse, NonZero
<1> HIDE DEF x, q
<1>4. ASSUME NEW c \in DOMAIN r
      PROVE  r[c] = Times(x, q[c])
  <2>1. Times(x, Times(r[c], Recip(x))) = Times(Times(x, r[c]), Recip(x))
    BY <1>1, <1>3, CoeffAssumption
  <2>2. Times(Times(r[c], x), Recip(x)) = Times(r[c], Times(x, Recip(x)))
    BY <1>1, <1>3, CoeffAssumption
  <2>3. Times(x, r[c]) = Times(r[c], x) /\ Times(r[c], One) = r[c]
    BY <1>1, <1>3, CoeffAssumption
  <2> QED BY <1>1, <1>3, <2>1, <2>2, <2>3
<1>5. \A c : At(EmptyRow, c) = Minus(At(r, c), Times(x, At(q, c)))
  <2> TAKE c
  <2>1. At(r, c) = Times(x, At(q, c)) /\ At(r, c) \in Coeff
    <3>1. CASE c \in DOMAIN r
      BY <1>2, <1>3, <1>4, <3>1 DEF At
    <3>2. CASE c \notin DOMAIN r
      BY <1>1, <1>2, <3>2, TimesZero, CoeffAssumption DEF At
    <3> QED BY <3>1, <3>2
  <2>2. Minus(At(r, c), At(r, c)) = Zero
    BY <2>1, MinusIsZero
  <2> QED BY <2>1, <2>2 DEF At, EmptyRow
<1>6. RowValue(EmptyRow, v, C) = Minus(RowValue(r, v, C), Times(x, RowValue(q, v, C)))
  BY <1>1, <1>2, <1>5, RowValueScaled
<1>7. RowValue(EmptyRow, v, C) = Zero
  BY EmptyRowValue DEF EmptyRow
<1>8. RowValue(r, v, C) \in Coeff /\ RowValue(q, v, C) \in Coeff
  BY <1>2, RowTerms
<1>9. RowValue(r, v, C) = Times(x, RowValue(q, v, C))
  <2>1. Times(x, RowValue(q, v, C)) \in Coeff
    BY <1>1, <1>8, CoeffAssumption
  <2> QED BY <1>6, <1>7, <1>8, <2>1, MinusIsZero
<1>10. Times(x, RowValue(q, v, C)) = Times(RowValue(q, v, C), x)
  BY <1>1, <1>8, CoeffAssumption
<1> QED BY <1>1, <1>8, <1>9, <1>10, TimesZero, NoZeroDivisors DEF q

-----------------------------------------------------------------------------
(* Columns in order *)

\* Ascending lists every word of a finite set once, each at its rank.
LEMMA AscendingWords ==
    ASSUME NEW n \in Nat, NEW S \in SUBSET [1 .. n -> Int], IsFiniteSet(S)
    PROVE  LET a == Ascending(S, LexLess) IN
           /\ Len(a) = Cardinality(S) /\ Len(a) \in Nat /\ DOMAIN a = 1 .. Len(a)
           /\ \A i \in DOMAIN a : a[i] \in S /\ Cardinality({y \in S : LexLess(y, a[i])}) = i - 1
           /\ \A i, k \in DOMAIN a : a[i] = a[k] => i = k
           /\ {a[i] : i \in DOMAIN a} = S
<1> DEFINE N == Cardinality(S)
           I == 1 .. N
           a == Ascending(S, LexLess)
           key == [w \in S |-> w]
           rank(x) == Cardinality({y \in S : LexLess(y, x)})
           at(i) == CHOOSE x \in S : Cardinality({y \in S : LexLess(y, x)}) = i - 1
<1>1. N \in Nat
  BY FS_CardinalityType
<1>2. a = [i \in 1 .. N |-> at(i)]
  BY Zenon DEF Ascending
<1>3. \A i \in I : \E x \in S : KeyRank(S, key, x) = i - 1
  <2>1. key \in [S -> [1 .. n -> Int]] /\ \A x, y \in S : key[x] = key[y] => x = y
    OBVIOUS
  <2> HIDE DEF key
  <2> QED BY <2>1, LexRankOnto
<1>4. \A x \in S : KeyRank(S, key, x) = rank(x)
  <2> TAKE x \in S
  <2>1. {y \in S : LexLess(key[y], key[x])} = {y \in S : LexLess(y, x)}
    OBVIOUS
  <2> QED BY <2>1 DEF KeyRank
<1>5. \A i \in I : at(i) \in S /\ rank(at(i)) = i - 1
  <2> TAKE i \in I
  <2>1. \E x \in S : rank(x) = i - 1
    <3> HIDE DEF key, rank
    <3> QED BY <1>3, <1>4
  <2> HIDE DEF I, N
  <2> QED BY <2>1
<1>6. \A i \in I : a[i] = at(i)
  <2> HIDE DEF at, a, N
  <2> QED BY <1>2
<1>7. Len(a) = N /\ DOMAIN a = I
  <2>1. a = [i \in 1 .. N |-> a[i]]
    <3> HIDE DEF at, a, N
    <3> QED BY <1>2
  <2> HIDE DEF a, N
  <2> QED BY <1>1, <2>1, EnumerationLength
<1>8. \A i \in I : a[i] \in S /\ rank(a[i]) = i - 1
  <2> HIDE DEF at, a, I, rank
  <2> QED BY <1>5, <1>6
<1>9. \A i, k \in I : a[i] = a[k] => i = k
  <2>1. \A i, k \in I : a[i] = a[k] => i - 1 = k - 1
    <3> HIDE DEF a, I, rank
    <3> QED BY <1>8
  <2>2. \A i, k \in I : i - 1 = k - 1 => i = k
    <3> HIDE DEF N
    <3> QED BY <1>1
  <2> HIDE DEF a, I
  <2> QED BY <2>1, <2>2
<1>10. {a[i] : i \in I} = S
  <2>1. IsFiniteSet(I) /\ Cardinality(I) = N
    <3>1. 1 \in Int /\ N \in Int
      BY <1>1
    <3> HIDE DEF N
    <3>2. IsFiniteSet(I) /\ Cardinality(I) = IF 1 > N THEN 0 ELSE N - 1 + 1
      BY <3>1, FS_Interval
    <3> QED BY <1>1, <3>2
  <2>2. a \in [I -> S]
    <3> HIDE DEF at
    <3>1. a = [i \in I |-> at(i)]
      BY <1>2
    <3> HIDE DEF a, I
    <3> QED BY <1>5, <3>1
  <2>3. a \in Injection(I, S)
    <3> HIDE DEF a, I
    <3> QED BY <2>2, <1>9 DEF Injection, IsInjective
  <2>4. a \in Surjection(I, S)
    <3> HIDE DEF a, I
    <3> QED BY <2>1, <2>3, FS_Injection DEF N
  <2> HIDE DEF a, I
  <2> QED BY <2>2, <2>4 DEF Surjection
<1> HIDE DEF a, rank, N, I
<1>11. Len(a) \in Nat /\ DOMAIN a = 1 .. Len(a)
  BY <1>1, <1>7 DEF I
<1> QED BY <1>7, <1>8, <1>9, <1>10, <1>11 DEF a, rank, N

AscendingInts(D) == Ascending(D, <)

\* Ascending lists every element of a finite set of integers once, in order.
LEMMA AscendingNumbers ==
    ASSUME NEW D, IsFiniteSet(D), D \subseteq Int
    PROVE  LET a == AscendingInts(D) IN
           /\ Len(a) = Cardinality(D) /\ Len(a) \in Nat /\ DOMAIN a = 1 .. Len(a)
           /\ \A i \in 1 .. Len(a) : a[i] \in D
           /\ \A i, j \in 1 .. Len(a) : i < j => a[i] < a[j]
           /\ \A x \in D : \E i \in 1 .. Len(a) : a[i] = x
<1> DEFINE a == AscendingInts(D)
           n == Cardinality(D)
           below == [x \in D |-> {y \in D : y < x}]
           at(i) == CHOOSE x \in D : Cardinality({y \in D : y < x}) = i - 1
<1>1. n \in Nat
  BY FS_CardinalityType
<1>2. a = [i \in 1 .. n |-> at(i)]
  BY Zenon DEF AscendingInts, Ascending
<1>3. below \in [D -> SUBSET D] /\ \A x \in D : x \notin below[x]
  OBVIOUS
<1>4. ASSUME NEW x \in D, NEW y \in D, x < y
      PROVE  x \in below[y] /\ below[x] \subseteq below[y]
  <2>1. \A z \in D : z < x => z < y
    <3>1. \A p, q, r \in Int : p < q /\ q < r => p < r
      OBVIOUS
    <3> QED BY <1>4, <3>1
  <2> QED BY <1>4, <2>1
<1>5. \A x, y \in D : x # y =>
               \/ x \in below[y] /\ below[x] \subseteq below[y]
               \/ y \in below[x] /\ below[y] \subseteq below[x]
  <2>1. \A x, y \in D : x # y => x < y \/ y < x
    OBVIOUS
  <2> QED BY <1>4, <2>1
<1>6. \A i \in 1 .. n : \E x \in D : Cardinality(below[x]) = i - 1
  <2> HIDE DEF below
  <2> QED BY <1>3, <1>5, RankOnto
<1>7. \A i \in 1 .. n : at(i) \in D /\ Cardinality(below[at(i)]) = i - 1
  <2> TAKE i \in 1 .. n
  <2>1. \E x \in D : Cardinality({y \in D : y < x}) = i - 1
    BY <1>6
  <2>2. at(i) \in D /\ Cardinality({y \in D : y < at(i)}) = i - 1
    <3> HIDE DEF n
    <3> QED BY <2>1
  <2> HIDE DEF at
  <2> QED BY <2>2
<1>8. \A i \in 1 .. n : a[i] \in D /\ Cardinality(below[a[i]]) = i - 1
  <2> HIDE DEF at, below, a, n
  <2> QED BY <1>2, <1>7
<1>9. Len(a) = n /\ DOMAIN a = 1 .. n
  <2>1. a = [i \in 1 .. n |-> a[i]]
    <3> HIDE DEF at, a, n
    <3> QED BY <1>2
  <2> HIDE DEF a, n
  <2> QED BY <1>1, <2>1, EnumerationLength
<1>10. \A x \in D : IsFiniteSet(below[x]) /\ Cardinality(below[x]) \in Nat
  BY FS_Subset, FS_CardinalityType
<1>11. \A x, y \in D : x <= y => Cardinality(below[x]) <= Cardinality(below[y])
  <2> TAKE x, y \in D
  <2> HAVE x <= y
  <2>1. below[x] \in SUBSET below[y]
    <3>1. \A p, q, r \in Int : p < q /\ q <= r => p < r
      OBVIOUS
    <3>2. \A z \in D : z < x => z < y
      BY <3>1
    <3> QED BY <3>2
  <2> HIDE DEF below
  <2> QED BY <1>10, <2>1, FS_Subset
<1>12. \A i, j \in 1 .. n : i < j => a[i] < a[j]
  <2> TAKE i, j \in 1 .. n
  <2> HAVE i < j
  <2>1. a[i] \in D /\ a[j] \in D
    BY <1>8
  <2>2. a[j] <= a[i] => j - 1 <= i - 1
    <3> HIDE DEF below, a, n
    <3> QED BY <1>8, <1>11, <2>1
  <2>3. ~(j - 1 <= i - 1)
    BY <1>1
  <2>4. ~(a[j] <= a[i]) => a[i] < a[j]
    <3>1. \A p, q \in Int : ~(q <= p) => p < q
      OBVIOUS
    <3>2. a[i] \in Int /\ a[j] \in Int
      BY <2>1
    <3> HIDE DEF a
    <3> QED BY <3>1, <3>2
  <2> HIDE DEF a, n
  <2> QED BY <2>2, <2>3, <2>4
<1>13. ASSUME NEW x \in D
       PROVE  \E i \in 1 .. n : a[i] = x
  <2> DEFINE i == Cardinality(below[x]) + 1
  <2>1. below[x] \in SUBSET D /\ below[x] # D
    OBVIOUS
  <2>2. Cardinality(below[x]) < n
    <3>1. Cardinality(below[x]) <= n /\ (n = Cardinality(below[x]) => D = below[x])
      <4> HIDE DEF below
      <4> QED BY <2>1, FS_Subset
    <3> HIDE DEF below, n
    <3> QED BY <1>1, <1>10, <2>1, <3>1 DEF n
  <2>3. i \in 1 .. n /\ i - 1 = Cardinality(below[x])
    <3> HIDE DEF below, n
    <3> QED BY <1>1, <1>10, <2>2
  <2>4. a[i] \in D /\ Cardinality(below[a[i]]) = Cardinality(below[x])
    <3> HIDE DEF below, a, i, n
    <3> QED BY <1>8, <2>3
  <2>5. a[i] = x
    <3>1. ASSUME NEW p \in D, NEW q \in D, p \in below[q], below[p] \subseteq below[q]
          PROVE  Cardinality(below[p]) # Cardinality(below[q])
      <4>1. below[p] \in SUBSET below[q] /\ below[p] # below[q]
        BY <3>1
      <4>2. Cardinality(below[q]) = Cardinality(below[p]) => below[q] = below[p]
        BY <1>10, <4>1, FS_Subset
      <4> QED BY <4>1, <4>2
    <3> HIDE DEF below, a, i
    <3> QED BY <1>5, <2>4, <3>1
  <2> QED BY <2>3, <2>5
<1> HIDE DEF a, n
<1> QED BY <1>1, <1>8, <1>9, <1>12, <1>13 DEF a, n

\* PivotsDescending lists the pivots from the last to the first.
LEMMA DescendingNumbers ==
    ASSUME NEW D, IsFiniteSet(D), D \subseteq Int
    PROVE  LET s == Reverse(AscendingInts(D))
               n == Cardinality(D)
           IN  /\ n \in Nat /\ s = [i \in 1 .. n |-> s[i]] /\ DOMAIN s = 1 .. n
               /\ \A i \in 1 .. n : s[i] \in D
               /\ \A i, j \in 1 .. n : i < j => s[j] < s[i]
               /\ \A x \in D : \E i \in 1 .. n : s[i] = x
<1> DEFINE a == AscendingInts(D)
           n == Cardinality(D)
           s == Reverse(a)
<1>1. /\ n \in Nat /\ Len(a) = n
      /\ \A i \in 1 .. n : a[i] \in D
      /\ \A i, j \in 1 .. n : i < j => a[i] < a[j]
      /\ \A x \in D : \E i \in 1 .. n : a[i] = x
  <2>1. Len(a) = n /\ n \in Nat
    BY AscendingNumbers, FS_CardinalityType
  <2>2. \A i \in 1 .. Len(a) : a[i] \in D
    BY AscendingNumbers
  <2>3. \A i, j \in 1 .. Len(a) : i < j => a[i] < a[j]
    BY AscendingNumbers
  <2>4. \A x \in D : \E i \in 1 .. Len(a) : a[i] = x
    BY AscendingNumbers
  <2> HIDE DEF a, n
  <2> QED BY <2>1, <2>2, <2>3, <2>4
<1> HIDE DEF a, n
<1>2. s = [i \in 1 .. n |-> a[(n - i) + 1]]
  BY <1>1 DEF Reverse
<1>3. \A i \in 1 .. n : (n - i) + 1 \in 1 .. n
  BY <1>1
<1> HIDE DEF s
<1>4. \A i \in 1 .. n : s[i] = a[(n - i) + 1] /\ s[i] \in D
  BY <1>1, <1>2, <1>3
<1>5. \A i, j \in 1 .. n : i < j => s[j] < s[i]
  <2> TAKE i, j \in 1 .. n
  <2> HAVE i < j
  <2>1. (n - j) + 1 < (n - i) + 1
    BY <1>1
  <2> QED BY <1>1, <1>3, <1>4, <2>1
<1>6. ASSUME NEW x \in D
      PROVE  \E i \in 1 .. n : s[i] = x
  <2>1. PICK j \in 1 .. n : a[j] = x
    BY <1>1
  <2>2. (n - j) + 1 \in 1 .. n /\ (n - ((n - j) + 1)) + 1 = j
    BY <1>1
  <2> QED BY <1>4, <2>1, <2>2
<1>7. s = [i \in 1 .. n |-> s[i]] /\ DOMAIN s = 1 .. n
  BY <1>2
<1> QED BY <1>1, <1>4, <1>5, <1>6, <1>7 DEF s, a, n

-----------------------------------------------------------------------------
(* Back substitution *)

\* The rows of a row echelon form over the columns C, by leading column.
Echelon(rows, C) ==
    /\ DOMAIN rows \subseteq C
    /\ \A p \in DOMAIN rows : /\ IsSparse(rows[p], C)
                              /\ p \in DOMAIN rows[p] /\ rows[p][p] = One
                              /\ \A c \in DOMAIN rows[p] : p <= c

\* One turn of build_nullspace_vectors: the value of p that row p asks for.
SolveFor(rows, vec, p) ==
    [vec EXCEPT ![p] =
        Neg(Sum([c \in DOMAIN rows[p] |-> Times(rows[p][c], vec[c])], DOMAIN rows[p] \ {p}))]

FreeUnit(n, free) == [c \in 1 .. n |-> IF c = free THEN One ELSE Zero]

IsSolveFold(it, n, rows, free, seq) ==
    it = [s \in SUBSET DOMAIN seq |->
             IF s = {} THEN FreeUnit(n, free)
             ELSE SolveFor(rows, it[s \ {Max(s)}], seq[Max(s)])]

LEMMA NullVectorIsFold ==
    ASSUME NEW n, NEW rows, NEW free
    PROVE  LET seq == PivotsDescending(rows)
           IN  NullVector(n, rows, free) =
                 (CHOOSE it : IsSolveFold(it, n, rows, free, seq))[DOMAIN seq]
BY DEF NullVector, FoldLeft, MapThenFoldSet, IsSolveFold, SolveFor, FreeUnit

\* The turn for p satisfies row p, and leaves the rows alone whose leading
\* column is to the right.
LEMMA SolveForSolves ==
    ASSUME NEW n \in Nat, NEW rows, Echelon(rows, 1 .. n), NEW p \in DOMAIN rows,
           NEW vec \in [1 .. n -> Coeff]
    PROVE  LET w == SolveFor(rows, vec, p) IN
           /\ w \in [1 .. n -> Coeff]
           /\ \A c \in (1 .. n) \ {p} : w[c] = vec[c]
           /\ RowValue(rows[p], w, 1 .. n) = Zero
           /\ \A q \in DOMAIN rows : p < q =>
                  RowValue(rows[q], w, 1 .. n) = RowValue(rows[q], vec, 1 .. n)
<1> DEFINE C == 1 .. n
           r == rows[p]
           f == [c \in DOMAIN r |-> Times(r[c], vec[c])]
           rest == Sum(f, DOMAIN r \ {p})
           w == SolveFor(rows, vec, p)
<1>1. IsFiniteSet(C)
  <2>1. 1 \in Int /\ n \in Int
    OBVIOUS
  <2> QED BY <2>1, FS_Interval
<1>2. p \in C /\ IsSparse(r, C) /\ p \in DOMAIN r /\ r[p] = One
  BY DEF Echelon
<1>3. rest \in Coeff
  <2>1. \A c \in DOMAIN r : r[c] \in Coeff /\ vec[c] \in Coeff
    BY <1>2 DEF IsSparse, NonZero
  <2>2. \A c \in DOMAIN r : f[c] \in Coeff
    BY <2>1, CoeffAssumption
  <2>3. IsFiniteSet(DOMAIN r \ {p})
    BY <1>1, <1>2, FS_Subset DEF IsSparse
  <2>4. Summable(f, DOMAIN r \ {p})
    BY <2>2, <2>3 DEF Summable
  <2> HIDE DEF f
  <2> QED BY <2>4, SumType
<1>4. Neg(rest) \in Coeff /\ Plus(Neg(rest), rest) = Zero /\ Zero \in Coeff
  BY <1>3, CoeffAssumption DEF Neg
<1>5. w = [vec EXCEPT ![p] = Neg(rest)]
  BY DEF SolveFor
<1> HIDE DEF rest, w, C
<1>6. w \in [C -> Coeff] /\ w[p] = Neg(rest) /\ \A c \in C \ {p} : w[c] = vec[c]
  BY <1>2, <1>4, <1>5 DEF C
<1>7. RowValue(r, w, C) = Zero
  <2> DEFINE g == [c \in DOMAIN r |-> Times(r[c], w[c])]
  <2>1. RowValue(r, w, C) = Sum(g, DOMAIN r)
    BY <1>1, <1>2, <1>6, RowValueOfRow
  <2>2. DOMAIN r \subseteq C /\ \A c \in DOMAIN r : r[c] \in Coeff /\ w[c] \in Coeff
    BY <1>2, <1>6 DEF IsSparse, NonZero
  <2>3. \A c \in DOMAIN r : g[c] \in Coeff
    BY <2>2, CoeffAssumption
  <2>4. Summable(g, DOMAIN r)
    <3>1. IsFiniteSet(DOMAIN r)
      BY <1>1, <2>2, FS_Subset
    <3> QED BY <2>3, <3>1 DEF Summable
  <2>5. \A c \in DOMAIN r \ {p} : g[c] = f[c]
    BY <1>6, <2>2
  <2>6. g[p] = Neg(rest)
    <3>1. g[p] = Times(One, Neg(rest))
      BY <1>2, <1>6
    <3>2. One \in Coeff
      BY CoeffAssumption DEF NonZero
    <3> QED BY <1>4, <3>1, <3>2, CoeffAssumption
  <2> HIDE DEF g, f, r
  <2>7. Sum(g, DOMAIN r) = Plus(g[p], Sum(g, DOMAIN r \ {p}))
    BY <1>2, <2>4, SumSplit
  <2>8. Sum(g, DOMAIN r \ {p}) = rest
    <3>1. Summable(g, DOMAIN r \ {p})
      BY <2>4, SummableParts
    <3> QED BY <2>5, <3>1, SumCongruence DEF rest
  <2> QED BY <1>4, <2>1, <2>6, <2>7, <2>8
<1>8. ASSUME NEW q \in DOMAIN rows, p < q
      PROVE  RowValue(rows[q], w, C) = RowValue(rows[q], vec, C)
  <2> DEFINE x == [c \in C |-> Times(At(rows[q], c), vec[c])]
             y == [c \in C |-> Times(At(rows[q], c), w[c])]
  <2>1. IsSparse(rows[q], C) /\ vec \in [C -> Coeff]
    BY DEF Echelon, C
  <2>2. At(rows[q], p) = Zero
    <3>1. q \in Int /\ p \in Int
      BY DEF Echelon
    <3>2. ~(q <= p)
      BY <1>8, <3>1
    <3> QED BY <3>2 DEF Echelon, At
  <2>3. x[p] = Zero /\ y[p] = Zero
    BY <1>2, <1>6, <2>1, <2>2, TimesZero
  <2>4. \A c \in C : x[c] = y[c]
    BY <1>6, <2>3
  <2>5. Summable(x, C)
    BY <1>1, <2>1, RowTerms
  <2>6. Sum(x, C) = Sum(y, C)
    <3> HIDE DEF x, y
    <3> QED BY <2>4, <2>5, SumCongruence
  <2> QED BY <2>6 DEF RowValue
<1> QED BY <1>6, <1>7, <1>8 DEF C, w

\* The greatest of the first numbers.
LEMMA MaxOfFirst ==
    ASSUME NEW k \in Nat
    PROVE  Max(1 .. k + 1) = k + 1 /\ (1 .. k + 1) \ {k + 1} = 1 .. k
<1>1. Max(1 .. k + 1) \in 1 .. k + 1 /\ \A x \in 1 .. k + 1 : x <= Max(1 .. k + 1)
  <2>1. k + 1 \in Nat /\ 1 .. k + 1 \subseteq 0 .. k + 1 /\ 1 .. k + 1 # {}
    OBVIOUS
  <2> QED BY <2>1, LargestElement
<1>2. k + 1 \in 1 .. k + 1
  OBVIOUS
<1> QED BY <1>1, <1>2

LEMMA SolveFoldExists ==
    ASSUME NEW n \in Nat, NEW rows, Echelon(rows, 1 .. n), NEW free \in 1 .. n,
           NEW m \in Nat, NEW seq, DOMAIN seq = 1 .. m,
           \A i \in 1 .. m : seq[i] \in DOMAIN rows
    PROVE  \E it : IsSolveFold(it, n, rows, free, seq)
<1> DEFINE V == [1 .. n -> Coeff]
           S == 1 .. m
           base == FreeUnit(n, free)
           h == [i \in S |-> [vec \in V |-> SolveFor(rows, vec, seq[i])]]
           ch == [s \in SUBSET S |-> Max(s)]
<1>1. IsFiniteSet(S)
  <2>1. 1 \in Int /\ m \in Int
    OBVIOUS
  <2> QED BY <2>1, FS_Interval
<1>2. base \in V
  BY CoeffAssumption DEF FreeUnit, NonZero
<1>3. \A i \in S : \A vec \in V : h[i][vec] = SolveFor(rows, vec, seq[i]) /\ h[i][vec] \in V
  BY SolveForSolves
<1>4. \A s \in SUBSET S : s # {} => ch[s] \in s /\ ch[s] = Max(s)
  <2> TAKE s \in SUBSET S
  <2> HAVE s # {}
  <2>1. s \subseteq 0 .. m
    OBVIOUS
  <2> QED BY <2>1, LargestElement
<1>5. PICK it \in [SUBSET S -> V] : Removes(it, base, h, ch, S)
  <2>1. \A i \in S : \A vec \in V : h[i][vec] \in V
    BY <1>3
  <2>2. \A s \in SUBSET S : s # {} => ch[s] \in s
    BY <1>4
  <2> HIDE DEF h, ch, V, S, base
  <2> QED BY <1>1, <1>2, <2>1, <2>2, RecursionExists
<1>6. ASSUME NEW s \in SUBSET S
      PROVE  it[s] = IF s = {} THEN base ELSE SolveFor(rows, it[s \ {Max(s)}], seq[Max(s)])
  <2>1. CASE s = {}
    BY <1>5, <2>1 DEF Removes
  <2>2. CASE s # {}
    <3>1. ch[s] \in S /\ ch[s] = Max(s) /\ it[s \ {ch[s]}] \in V
      BY <1>4, <2>2
    <3>2. it[s] = h[ch[s]][it[s \ {ch[s]}]]
      BY <1>5, <2>2 DEF Removes
    <3> HIDE DEF h, ch, V, S, base
    <3> QED BY <1>3, <2>2, <3>1, <3>2
  <2> QED BY <2>1, <2>2
<1>7. it = [s \in SUBSET S |-> it[s]]
  <2> HIDE DEF h, ch, V, S, base
  <2> QED BY <1>5
<1>8. DOMAIN seq = S
  OBVIOUS
<1> HIDE DEF h, ch, V, S
<1>9. IsSolveFold(it, n, rows, free, seq)
  BY <1>6, <1>7, <1>8 DEF IsSolveFold
<1> QED BY <1>9

\* A vector of the null space satisfies every row; it is one at its own free
\* column and zero at the others.
LEMMA NullVectorSolves ==
    ASSUME NEW n \in Nat, NEW rows, Echelon(rows, 1 .. n),
           NEW free \in (1 .. n) \ DOMAIN rows
    PROVE  LET v == NullVector(n, rows, free) IN
           /\ v \in [1 .. n -> Coeff]
           /\ \A p \in DOMAIN rows : RowValue(rows[p], v, 1 .. n) = Zero
           /\ v[free] = One
           /\ \A c \in (1 .. n) \ DOMAIN rows : c # free => v[c] = Zero
<1> DEFINE D == DOMAIN rows
           C == 1 .. n
           seq == PivotsDescending(rows)
           m == Cardinality(D)
           base == FreeUnit(n, free)
           it == CHOOSE a : IsSolveFold(a, n, rows, free, seq)
           w(k) == it[1 .. k]
<1>1. /\ m \in Nat /\ seq = [i \in 1 .. m |-> seq[i]] /\ DOMAIN seq = 1 .. m
      /\ \A i \in 1 .. m : seq[i] \in D
      /\ \A i, j \in 1 .. m : i < j => seq[j] < seq[i]
      /\ \A x \in D : \E i \in 1 .. m : seq[i] = x
  <2>1. seq = Reverse(AscendingInts(D))
    BY Zenon DEF PivotsDescending, AscendingInts
  <2>2. IsFiniteSet(D) /\ D \subseteq Int
    <3>1. 1 \in Int /\ n \in Int /\ D \subseteq C
      BY DEF Echelon
    <3>2. IsFiniteSet(C)
      BY <3>1, FS_Interval
    <3> QED BY <3>1, <3>2, FS_Subset
  <2> HIDE DEF D, m, seq
  <2> QED BY <2>1, <2>2, DescendingNumbers DEF m
<1>2. NullVector(n, rows, free) = w(m)
  <2>1. NullVector(n, rows, free) = it[DOMAIN seq]
    BY NullVectorIsFold
  <2> HIDE DEF it, seq, m
  <2> QED BY <1>1, <2>1
<1>3. IsSolveFold(it, n, rows, free, seq)
  <2>1. \E a : IsSolveFold(a, n, rows, free, seq)
    <3> HIDE DEF seq, m
    <3> QED BY <1>1, SolveFoldExists
  <2> QED BY <2>1
<1> HIDE DEF seq, m, it
<1>4. w(0) = base
  <2>1. 1 .. 0 = {}
    OBVIOUS
  <2> QED BY <1>3, <2>1 DEF IsSolveFold
<1>5. ASSUME NEW k \in Nat, k < m
      PROVE  w(k + 1) = SolveFor(rows, w(k), seq[k + 1])
  <2>1. 1 .. k + 1 \in SUBSET (1 .. m) /\ 1 .. k + 1 # {}
    BY <1>1, <1>5
  <2>2. w(k + 1) = SolveFor(rows, it[(1 .. k + 1) \ {Max(1 .. k + 1)}], seq[Max(1 .. k + 1)])
    BY <1>1, <1>3, <2>1 DEF IsSolveFold
  <2> QED BY <2>2, MaxOfFirst
<1> DEFINE Solved(k) ==
             /\ w(k) \in [C -> Coeff]
             /\ \A c \in C \ D : w(k)[c] = base[c]
             /\ \A i \in 1 .. k : RowValue(rows[seq[i]], w(k), C) = Zero
           Good == {k \in Nat : k <= m => Solved(k)}
<1>6. 0 \in Good
  <2>1. base \in [C -> Coeff]
    BY CoeffAssumption DEF FreeUnit, NonZero
  <2>2. \A i \in 1 .. 0 : FALSE
    OBVIOUS
  <2> HIDE DEF base, C, D, w
  <2> QED BY <1>4, <2>1, <2>2
<1>7. ASSUME NEW k \in Nat, k \in Good
      PROVE  k + 1 \in Good
  <2> SUFFICES ASSUME k + 1 <= m PROVE Solved(k + 1)
    OBVIOUS
  <2>1. k < m /\ Solved(k)
    <3>1. k < m /\ k <= m
      BY <1>1
    <3> HIDE DEF Solved
    <3> QED BY <1>7, <3>1
  <2> DEFINE p == seq[k + 1]
  <2>2. k + 1 \in 1 .. m /\ p \in D
    BY <1>1, <2>1
  <2>3. w(k + 1) = SolveFor(rows, w(k), p)
    BY <1>5, <2>1
  <2> HIDE DEF w, p
  <2>4. /\ w(k + 1) \in [C -> Coeff]
        /\ \A c \in C \ {p} : w(k + 1)[c] = w(k)[c]
        /\ RowValue(rows[p], w(k + 1), C) = Zero
        /\ \A q \in D : p < q => RowValue(rows[q], w(k + 1), C) = RowValue(rows[q], w(k), C)
    BY <2>1, <2>2, <2>3, SolveForSolves
  <2>5. \A c \in C \ D : w(k + 1)[c] = base[c]
    BY <2>1, <2>2, <2>4
  <2>6. ASSUME NEW i \in 1 .. k + 1
        PROVE  RowValue(rows[seq[i]], w(k + 1), C) = Zero
    <3>1. CASE i = k + 1
      BY <2>4, <3>1 DEF p
    <3>2. CASE i # k + 1
      <4>1. i \in 1 .. k /\ i \in 1 .. m /\ i < k + 1
        BY <1>1, <2>1, <3>2
      <4>2. p < seq[i] /\ seq[i] \in D
        BY <1>1, <2>2, <4>1 DEF p
      <4> QED BY <2>1, <2>4, <4>1, <4>2
    <3> QED BY <3>1, <3>2
  <2> QED BY <2>4, <2>5, <2>6
<1>8. m \in Good
  <2>1. Nat \subseteq Good
    <3> HIDE DEF Good
    <3> QED BY <1>6, <1>7, NatSetInduction
  <2> HIDE DEF Good
  <2> QED BY <1>1, <2>1
<1>9. Solved(m)
  <2>1. m <= m
    BY <1>1
  <2> HIDE DEF Solved
  <2> QED BY <1>8, <2>1
<1>10. \A p \in D : RowValue(rows[p], w(m), C) = Zero
  <2> HIDE DEF w
  <2> QED BY <1>1, <1>9
<1>11. base[free] = One /\ \A c \in C \ D : c # free => base[c] = Zero
  BY DEF FreeUnit
<1> HIDE DEF w, base
<1> QED BY <1>2, <1>9, <1>10, <1>11

-----------------------------------------------------------------------------
(* The null space *)

\* A vector that satisfies every row and is zero at the free columns is zero:
\* the row of its last nonzero column would not be satisfied.
LEMMA KernelFromFreeColumns ==
    ASSUME NEW n \in Nat, NEW rows, Echelon(rows, 1 .. n), NEW u \in [1 .. n -> Coeff],
           \A p \in DOMAIN rows : RowValue(rows[p], u, 1 .. n) = Zero,
           \A c \in (1 .. n) \ DOMAIN rows : u[c] = Zero
    PROVE  \A c \in 1 .. n : u[c] = Zero
<1> DEFINE C == 1 .. n
           D == {c \in C : u[c] # Zero}
           m == Max(D)
           f == [c \in C |-> Times(At(rows[m], c), u[c])]
<1> SUFFICES ASSUME D # {} PROVE FALSE
  OBVIOUS
<1>1. m \in D /\ \A x \in D : x <= m
  <2>1. D \subseteq 0 .. n
    OBVIOUS
  <2> HIDE DEF D
  <2> QED BY <2>1, LargestElement
<1> HIDE DEF m
<1>2. /\ m \in DOMAIN rows /\ m \in C /\ IsSparse(rows[m], C) /\ rows[m][m] = One
      /\ m \in DOMAIN rows[m] /\ \A c \in DOMAIN rows[m] : m <= c
  BY <1>1 DEF Echelon
<1>3. IsFiniteSet(C)
  <2>1. 1 \in Int /\ n \in Int
    OBVIOUS
  <2> QED BY <2>1, FS_Interval
<1>4. Summable(f, C) /\ \A c : At(rows[m], c) \in Coeff
  BY <1>2, <1>3, RowTerms
<1>5. ASSUME NEW c \in C \ {m}
      PROVE  f[c] = Zero
  <2>1. CASE c < m
    <3>1. At(rows[m], c) = Zero
      BY <1>1, <1>2, <2>1 DEF At
    <3>2. Times(Zero, u[c]) = Zero
      BY TimesZero
    <3> QED BY <3>1, <3>2
  <2>2. CASE c > m
    <3>1. u[c] = Zero
      BY <1>1, <2>2
    <3>2. Times(At(rows[m], c), Zero) = Zero
      BY <1>4, TimesZero
    <3> QED BY <3>1, <3>2
  <2> QED BY <1>1, <2>1, <2>2
<1>6. f[m] = u[m]
  <2>1. f[m] = Times(One, u[m]) /\ u[m] \in Coeff /\ One \in Coeff
    BY <1>2, CoeffAssumption DEF At, NonZero
  <2> HIDE DEF f
  <2> QED BY <2>1, CoeffAssumption
<1>7. Sum(f, C) = f[m]
  <2> HIDE DEF f
  <2> QED BY <1>2, <1>4, <1>5, SumOfOne
<1>8. Sum(f, C) = Zero
  BY <1>2 DEF RowValue
<1> QED BY <1>1, <1>6, <1>7, <1>8

\* The linear combination of k vectors.
Combination(a, vecs, k, C) ==
    [c \in C |-> Sum([i \in 1 .. k |-> Times(a[i], vecs[i][c])], 1 .. k)]

\* A row that annihilates vectors annihilates their combinations.
LEMMA CombinationKept ==
    ASSUME NEW C, IsFiniteSet(C), NEW r, IsSparse(r, C), NEW k \in Nat,
           NEW a \in [1 .. k -> Coeff], NEW vecs, \A i \in 1 .. k : vecs[i] \in [C -> Coeff],
           \A i \in 1 .. k : RowValue(r, vecs[i], C) = Zero
    PROVE  /\ Combination(a, vecs, k, C) \in [C -> Coeff]
           /\ RowValue(r, Combination(a, vecs, k, C), C) = Zero
<1> DEFINE I == 1 .. k
           term(c) == [i \in I |-> Times(a[i], vecs[i][c])]
           part == [s \in SUBSET I |-> [c \in C |-> Sum(term(c), s)]]
           Good == {s \in SUBSET I : RowValue(r, part[s], C) = Zero}
<1>1. IsFiniteSet(I)
  <2>1. 1 \in Int /\ k \in Int
    OBVIOUS
  <2> QED BY <2>1, FS_Interval
<1>2. \A c \in C : Summable(term(c), I)
  <2>1. \A c \in C : \A i \in I : a[i] \in Coeff /\ vecs[i][c] \in Coeff
    OBVIOUS
  <2>2. \A c \in C : \A i \in I : term(c)[i] \in Coeff
    BY <2>1, CoeffAssumption
  <2> HIDE DEF term
  <2> QED BY <1>1, <2>2 DEF Summable
<1>3. \A c \in C : \A i \in I : term(c)[i] = Times(a[i], vecs[i][c])
  OBVIOUS
<1> HIDE DEF term
<1>4. \A s \in SUBSET I : part[s] \in [C -> Coeff] /\ \A c \in C : part[s][c] = Sum(term(c), s)
  <2>1. \A s \in SUBSET I : \A c \in C : Sum(term(c), s) \in Coeff
    BY <1>2, SummableParts
  <2> QED BY <2>1
<1> HIDE DEF part
<1>5. ASSUME NEW s \in SUBSET I, \A i \in s : s \ {i} \in Good
      PROVE  s \in Good
  <2>1. CASE s = {}
    <3> DEFINE f == [c \in C |-> Times(At(r, c), part[s][c])]
    <3>1. \A c \in C : part[s][c] = Zero /\ At(r, c) \in Coeff
      <4>1. \A c \in C : Sum(term(c), {}) = Zero
        BY SumEmpty
      <4> QED BY <1>4, <2>1, <4>1, RowTerms
    <3>2. \A c \in C : f[c] = Zero
      BY <3>1, TimesZero
    <3>3. Sum(f, C) = Zero
      <4> HIDE DEF f
      <4> QED BY <3>2, SumOfZeros
    <3> QED BY <3>3 DEF RowValue
  <2>2. ASSUME NEW i \in s
        PROVE  RowValue(r, part[s], C) = Zero
    <3> DEFINE rest == s \ {i}
    <3>1. rest \in SUBSET I /\ RowValue(r, part[rest], C) = Zero
      BY <1>5, <2>2
    <3>2. a[i] \in Coeff /\ vecs[i] \in [C -> Coeff] /\ RowValue(r, vecs[i], C) = Zero
      BY <2>2
    <3>3. ASSUME NEW c \in C
          PROVE  part[rest][c] = Minus(part[s][c], Times(a[i], vecs[i][c]))
      <4> DEFINE y == Times(a[i], vecs[i][c])
      <4>1. part[s][c] \in Coeff /\ part[rest][c] \in Coeff
        BY <1>4, <3>1
      <4>2. y \in Coeff
        BY <3>2, CoeffAssumption
      <4>3. Summable(term(c), s)
        BY <1>2, SummableParts
      <4>4. Sum(term(c), s) = Plus(term(c)[i], Sum(term(c), s \ {i}))
        BY <4>3, <2>2, SumSplit
      <4>5. term(c)[i] = y
        BY <1>3, <2>2
      <4>6. part[s][c] = Sum(term(c), s) /\ part[rest][c] = Sum(term(c), s \ {i})
        BY <1>4, <3>1
      <4> HIDE DEF y, rest
      <4>7. part[s][c] = Plus(y, part[rest][c])
        BY <4>4, <4>5, <4>6
      <4>8. Plus(part[rest][c], y) = part[s][c]
        BY <4>1, <4>2, <4>7, CoeffAssumption
      <4>9. Minus(part[s][c], y) = part[rest][c]
        BY <4>1, <4>2, <4>8, MinusUnique
      <4> QED BY <4>9 DEF y
    <3>4. part[s] \in [C -> Coeff] /\ part[rest] \in [C -> Coeff]
      BY <1>4, <3>1
    <3> HIDE DEF rest
    <3>5. RowValue(r, part[rest], C)
            = Minus(RowValue(r, part[s], C), Times(a[i], RowValue(r, vecs[i], C)))
      BY <3>2, <3>3, <3>4, RowValueLinear
    <3>6. Times(a[i], Zero) = Zero /\ Zero \in Coeff /\ RowValue(r, part[s], C) \in Coeff
      BY <3>2, <3>4, TimesZero, CoeffAssumption, RowTerms
    <3>7. Minus(RowValue(r, part[s], C), Zero) = Zero
      BY <3>1, <3>2, <3>5, <3>6
    <3> QED BY <3>6, <3>7, MinusIsZero
  <2> QED BY <2>1, <2>2
<1>6. SUBSET I \subseteq Good
  <2> HIDE DEF Good, I
  <2> QED BY <1>1, <1>5, RemovalInduction
<1>7. I \in SUBSET I /\ I \in Good
  BY <1>6
<1>8. part[I] = Combination(a, vecs, k, C)
  BY DEF part, term, Combination
<1> QED BY <1>4, <1>7, <1>8

\* What build_integrable_basis returns for rows in echelon form: one vector
\* for each free column.
IsNullBasis(vecs, free, rows, C) ==
    /\ Len(free) \in Nat /\ DOMAIN free = 1 .. Len(free) /\ DOMAIN vecs = 1 .. Len(free)
    /\ Len(vecs) = Len(free)
    /\ \A i \in 1 .. Len(free) : free[i] \in C \ DOMAIN rows
    /\ \A c \in C \ DOMAIN rows : \E i \in 1 .. Len(free) : free[i] = c
    /\ \A i \in 1 .. Len(free) :
        /\ vecs[i] \in [C -> Coeff]
        /\ \A p \in DOMAIN rows : RowValue(rows[p], vecs[i], C) = Zero
        /\ \A j \in 1 .. Len(free) : vecs[i][free[j]] = IF j = i THEN One ELSE Zero

\* The combination of the vectors with the coordinates a has the value a[j] at
\* the j-th free column.
LEMMA CombinationAtFree ==
    ASSUME NEW C, NEW rows, NEW vecs, NEW free, IsNullBasis(vecs, free, rows, C),
           NEW a \in [1 .. Len(free) -> Coeff], NEW j \in 1 .. Len(free)
    PROVE  Combination(a, vecs, Len(free), C)[free[j]] = a[j]
<1> DEFINE k == Len(free)
           c == free[j]
           f == [i \in 1 .. k |-> Times(a[i], vecs[i][c])]
<1>1. k \in Nat /\ c \in C /\ a[j] \in Coeff
  BY DEF IsNullBasis
<1>2. IsFiniteSet(1 .. k)
  <2>1. 1 \in Int /\ k \in Int
    BY <1>1
  <2> HIDE DEF k
  <2> QED BY <2>1, FS_Interval
<1>3. \A i \in 1 .. k : f[i] = IF i = j THEN a[j] ELSE Zero
  <2> TAKE i \in 1 .. k
  <2>1. f[i] = Times(a[i], IF j = i THEN One ELSE Zero) /\ a[i] \in Coeff
    BY DEF IsNullBasis
  <2> HIDE DEF f
  <2> QED BY <2>1, TimesZero, CoeffAssumption
<1>4. Zero \in Coeff /\ j \in 1 .. k
  BY CoeffAssumption
<1>5. Combination(a, vecs, k, C)[c] = Sum(f, 1 .. k)
  BY <1>1 DEF Combination
<1> HIDE DEF f, k, c
<1>6. Summable(f, 1 .. k)
  BY <1>1, <1>2, <1>3, <1>4 DEF Summable
<1>7. Sum(f, 1 .. k) = f[j]
  BY <1>3, <1>4, <1>6, SumOfOne
<1> QED BY <1>3, <1>4, <1>5, <1>7 DEF k, c

\* Every vector that satisfies the rows is the combination of the basis with
\* its values at the free columns as coordinates.
LEMMA NullBasisSpans ==
    ASSUME NEW n \in Nat, NEW rows, Echelon(rows, 1 .. n), NEW vecs, NEW free,
           IsNullBasis(vecs, free, rows, 1 .. n), NEW v \in [1 .. n -> Coeff],
           NEW a, a = [i \in 1 .. Len(free) |-> v[free[i]]]
    PROVE  /\ a \in [1 .. Len(free) -> Coeff]
           /\ \A p \in DOMAIN rows :
                  RowValue(rows[p], Combination(a, vecs, Len(free), 1 .. n), 1 .. n) = Zero
           /\ (\A p \in DOMAIN rows : RowValue(rows[p], v, 1 .. n) = Zero)
                 <=> v = Combination(a, vecs, Len(free), 1 .. n)
<1> DEFINE C == 1 .. n
           k == Len(free)
           x == Combination(a, vecs, k, C)
           u == [c \in C |-> Minus(v[c], Times(One, x[c]))]
<1>1. /\ k \in Nat /\ \A i \in 1 .. k : free[i] \in C \ DOMAIN rows
      /\ \A c \in C \ DOMAIN rows : \E i \in 1 .. k : free[i] = c
      /\ \A i \in 1 .. k : vecs[i] \in [C -> Coeff]
      /\ \A i \in 1 .. k : \A p \in DOMAIN rows : RowValue(rows[p], vecs[i], C) = Zero
  BY DEF IsNullBasis
<1>2. a \in [1 .. k -> Coeff]
  BY <1>1
<1>3. IsFiniteSet(C) /\ One \in Coeff
  <2>1. 1 \in Int /\ n \in Int
    OBVIOUS
  <2> QED BY <2>1, FS_Interval, CoeffAssumption DEF NonZero
<1>4. x \in [C -> Coeff]
  <2>1. EmptyRow \in [DOMAIN EmptyRow -> NonZero] /\ DOMAIN EmptyRow \subseteq C
    BY DEF EmptyRow
  <2>2. IsSparse(EmptyRow, C)
    BY <2>1 DEF IsSparse
  <2>3. \A i \in 1 .. k : RowValue(EmptyRow, vecs[i], C) = Zero
    <3>1. DOMAIN EmptyRow = {}
      BY DEF EmptyRow
    <3> QED BY <1>1, <1>3, <3>1, EmptyRowValue
  <2>4. k \in Nat /\ \A i \in 1 .. k : vecs[i] \in [C -> Coeff]
    BY <1>1
  <2>5. IsFiniteSet(C)
    BY <1>3
  <2>6. \A e \in {EmptyRow} : Combination(a, vecs, k, C) \in [C -> Coeff]
    <3> TAKE e \in {EmptyRow}
    <3>1. IsSparse(e, C) /\ \A i \in 1 .. k : RowValue(e, vecs[i], C) = Zero
      BY <2>2, <2>3
    <3> HIDE DEF C, k
    <3> QED BY <1>2, <2>4, <2>5, <3>1, CombinationKept
  <2> QED BY <2>6
<1>5. \A p \in DOMAIN rows : RowValue(rows[p], x, C) = Zero
  <2> TAKE p \in DOMAIN rows
  <2>1. IsSparse(rows[p], C)
    BY DEF Echelon
  <2>2. k \in Nat /\ \A i \in 1 .. k : vecs[i] \in [C -> Coeff]
    BY <1>1
  <2>3. \A i \in 1 .. k : RowValue(rows[p], vecs[i], C) = Zero
    BY <1>1
  <2>4. IsFiniteSet(C)
    BY <1>3
  <2> DEFINE r == rows[p]
  <2>5. RowValue(r, Combination(a, vecs, k, C), C) = Zero
    <3>1. IsSparse(r, C) /\ \A i \in 1 .. k : RowValue(r, vecs[i], C) = Zero
      BY <2>1, <2>3
    <3> HIDE DEF C, k, x, u, r
    <3> QED BY <1>2, <2>2, <2>4, <3>1, CombinationKept
  <2> QED BY <2>5
<1> HIDE DEF x
<1>6. \A c \in C : Times(One, x[c]) = x[c] /\ x[c] \in Coeff /\ v[c] \in Coeff
  BY <1>3, <1>4, CoeffAssumption
<1>7. u \in [C -> Coeff] /\ \A c \in C : u[c] = Minus(v[c], Times(One, x[c]))
  <2>1. \A c \in C : Minus(v[c], x[c]) \in Coeff
    BY <1>6, CoeffAssumption
  <2> QED BY <1>6, <2>1
<1> HIDE DEF u
<1>8. ASSUME \A p \in DOMAIN rows : RowValue(rows[p], v, C) = Zero
      PROVE  v = x
  <2>1. \A p \in DOMAIN rows : RowValue(rows[p], u, C) = Zero
    <3> TAKE p \in DOMAIN rows
    <3>1. IsSparse(rows[p], C)
      BY DEF Echelon
    <3>2. RowValue(rows[p], u, C)
            = Minus(RowValue(rows[p], v, C), Times(One, RowValue(rows[p], x, C)))
      <4> DEFINE r == rows[p]
      <4>1. IsSparse(r, C) /\ v \in [C -> Coeff]
        BY <3>1
      <4> HIDE DEF C, r
      <4>2. RowValue(r, u, C) = Minus(RowValue(r, v, C), Times(One, RowValue(r, x, C)))
        BY <1>3, <1>4, <1>7, <4>1, RowValueLinear
      <4> QED BY <4>2 DEF r
    <3>3. Times(One, Zero) = Zero /\ Zero \in Coeff
      BY <1>3, TimesZero, CoeffAssumption
    <3>4. Minus(Zero, Zero) = Zero
      BY <3>3, MinusIsZero
    <3> QED BY <1>5, <1>8, <3>2, <3>3, <3>4
  <2>2. \A c \in C \ DOMAIN rows : u[c] = Zero
    <3> TAKE c \in C \ DOMAIN rows
    <3>1. PICK j \in 1 .. k : free[j] = c
      BY <1>1
    <3>2. x[c] = a[j] /\ a[j] = v[c]
      <4>1. /\ IsNullBasis(vecs, free, rows, C) /\ a \in [1 .. Len(free) -> Coeff]
            /\ j \in 1 .. Len(free)
        BY <1>2
      <4>2. Combination(a, vecs, Len(free), C)[free[j]] = a[j]
        <5> HIDE DEF C, k
        <5> QED BY <4>1, CombinationAtFree
      <4>3. j \in 1 .. Len(free) => a[j] = v[free[j]]
        OBVIOUS
      <4> QED BY <3>1, <4>2, <4>3 DEF x
    <3> QED BY <1>6, <1>7, <3>2, MinusIsZero
  <2>3. \A c \in C : u[c] = Zero
    BY <1>7, <2>1, <2>2, KernelFromFreeColumns
  <2>4. \A c \in C : v[c] = x[c]
    BY <1>6, <1>7, <2>3, MinusIsZero
  <2>5. v = [c \in C |-> v[c]] /\ x = [c \in C |-> x[c]]
    BY <1>4
  <2> QED BY <2>4, <2>5
<1>9. v = x => \A p \in DOMAIN rows : RowValue(rows[p], v, C) = Zero
  BY <1>5
<1> QED BY <1>2, <1>5, <1>8, <1>9 DEF x

\* The free columns and the vectors that Finish computes.
LEMMA NullVectorsAreBasis ==
    ASSUME NEW n \in Nat, NEW rows, Echelon(rows, 1 .. n), NEW free, free = FreeCols(n, rows)
    PROVE  IsNullBasis(NullVectors(n, rows, free), free, rows, 1 .. n)
<1> DEFINE C == 1 .. n
           D == C \ DOMAIN rows
           vecs == NullVectors(n, rows, free)
<1>1. IsFiniteSet(D) /\ D \subseteq Int
  <2>1. 1 \in Int /\ n \in Int
    OBVIOUS
  <2>2. IsFiniteSet(C)
    BY <2>1, FS_Interval
  <2> QED BY <2>2, FS_Subset
<1>2. free = AscendingInts(D)
  BY Zenon DEF FreeCols, AscendingInts
<1>3. Len(free) \in Nat /\ DOMAIN free = 1 .. Len(free)
  <2> HIDE DEF D
  <2> QED BY <1>1, <1>2, AscendingNumbers
<1>4. /\ \A i \in 1 .. Len(free) : free[i] \in D
      /\ \A i, j \in 1 .. Len(free) : i < j => free[i] < free[j]
  <2> HIDE DEF D
  <2> QED BY <1>1, <1>2, AscendingNumbers
<1>5. \A c \in D : \E i \in 1 .. Len(free) : free[i] = c
  <2> HIDE DEF D
  <2> QED BY <1>1, <1>2, AscendingNumbers
<1>6. /\ vecs = [i \in 1 .. Len(free) |-> vecs[i]]
      /\ \A i \in 1 .. Len(free) : vecs[i] = NullVector(n, rows, free[i])
  BY <1>3 DEF NullVectors
<1> HIDE DEF vecs
<1>7. Len(vecs) = Len(free) /\ DOMAIN vecs = 1 .. Len(free)
  BY <1>3, <1>6, EnumerationLength
<1>8. ASSUME NEW i \in 1 .. Len(free)
      PROVE  /\ vecs[i] \in [C -> Coeff]
             /\ \A p \in DOMAIN rows : RowValue(rows[p], vecs[i], C) = Zero
             /\ \A j \in 1 .. Len(free) : vecs[i][free[j]] = IF j = i THEN One ELSE Zero
  <2> DEFINE v == NullVector(n, rows, free[i])
  <2>1. free[i] \in (1 .. n) \ DOMAIN rows
    BY <1>4
  <2>2. /\ v \in [C -> Coeff] /\ \A p \in DOMAIN rows : RowValue(rows[p], v, C) = Zero
        /\ v[free[i]] = One /\ \A c \in D : c # free[i] => v[c] = Zero
    BY <2>1, NullVectorSolves
  <2>3. \A j \in 1 .. Len(free) : j # i => free[j] \in D /\ free[j] # free[i]
    <3> TAKE j \in 1 .. Len(free)
    <3> HAVE j # i
    <3>1. i < j \/ j < i
      BY <1>3
    <3>2. free[i] < free[j] \/ free[j] < free[i]
      BY <1>4, <3>1
    <3>3. \A x, y \in Int : x < y => x # y
      OBVIOUS
    <3>4. free[i] \in D /\ free[j] \in D /\ free[i] \in Int /\ free[j] \in Int
      BY <1>4
    <3> HIDE DEF D
    <3> QED BY <3>2, <3>3, <3>4
  <2> HIDE DEF v, D
  <2> QED BY <1>6, <2>2, <2>3 DEF v
<1>9. IsNullBasis(vecs, free, rows, C)
  <2>1. Len(vecs) = Len(free) /\ Len(free) \in Nat /\ DOMAIN vecs = 1 .. Len(free)
    BY <1>3, <1>7
  <2>2. DOMAIN free = 1 .. Len(free) /\ \A i \in DOMAIN free : free[i] \in C \ DOMAIN rows
    BY <1>3, <1>4
  <2>3. \A c \in C \ DOMAIN rows : \E i \in DOMAIN free : free[i] = c
    BY <1>3, <1>5
  <2> HIDE DEF C
  <2> QED BY <2>1, <2>2, <2>3, <1>8 DEF IsNullBasis
<1> QED BY <1>9 DEF vecs
=============================================================================
