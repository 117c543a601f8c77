--------------------------- MODULE MeasuresProofs ---------------------------
(***************************************************************************)
(* Proofs about Measures.  That the trace is a sequence of events is all   *)
(* the invariant there is to the steps; what has to be proved is what the  *)
(* folds, sums and list comprehensions of measures.py return for any such  *)
(* trace.  Induction over them goes through sets: of numbers, of subsets   *)
(* of a finite set, and the accumulators of a fold as a chain.             *)
(***************************************************************************)
EXTENDS Measures, FiniteSetTheorems, WellFoundedInduction, TLAPS

-----------------------------------------------------------------------------
(* Numbers and positions                                                   *)

\* A set of natural numbers has a least element; Min is that element.
LEMMA LeastNumber ==
    ASSUME NEW S, S \subseteq Nat, S # {}
    PROVE  \E x \in S : \A y \in S : x <= y
<1> DEFINE R == {ss \in Nat \X Nat : ss[1] < ss[2]}
<1>1. IsWellFoundedOn(R, Nat)  BY NatLessThanWellFounded DEF OpToRel
<1>2. \A m, n \in Nat : m < n => <<m, n>> \in R  OBVIOUS
<1> HIDE DEF R
<1>3. PICK x \in S : \A y \in S : ~ (<<y, x>> \in R)  BY <1>1, WFMin
<1>4. ASSUME NEW y \in S  PROVE x <= y
  <2>1. x \in Nat /\ y \in Nat /\ ~(y < x)  BY <1>2, <1>3
  <2> QED  BY <2>1
<1> QED  BY <1>4

LEMMA MinIsLeast ==
    ASSUME NEW S, S \subseteq Nat, S # {}
    PROVE  Min(S) \in S /\ \A y \in S : Min(S) <= y
BY LeastNumber DEF Min

\* Induction over the natural numbers, with a set for the predicate.
LEMMA NumberInduction ==
    ASSUME NEW S, 0 \in S, \A n \in Nat : n \in S => n + 1 \in S
    PROVE  Nat \subseteq S
<1> SUFFICES ASSUME NEW k \in Nat \ S  PROVE FALSE  OBVIOUS
<1>1. PICK x \in Nat \ S : \A y \in Nat \ S : x <= y  BY LeastNumber
<1>2. x # 0 /\ x - 1 \in Nat  BY <1>1
<1>3. x - 1 \in S  BY <1>1, <1>2
<1>4. (x - 1) + 1 = x  BY <1>1
<1> QED  BY <1>1, <1>2, <1>3, <1>4

\* R orders the finite set S strictly and totally; upto[x] holds x and what is before.
Ordered(S, R, upto) ==
    /\ IsFiniteSet(S)
    /\ \A x, y \in S : x # y => <<x, y>> \in R \/ <<y, x>> \in R
    /\ \A x, y \in S : ~(<<x, y>> \in R /\ <<y, x>> \in R)
    /\ \A x, y, z \in S : <<x, y>> \in R /\ <<y, z>> \in R => <<x, z>> \in R
    /\ upto \in [S -> SUBSET S]
    /\ \A x, y \in S : y \in upto[x] <=> y = x \/ <<y, x>> \in R

\* The places in such an order: as many as elements, each taken, and in order.
LEMMA Places ==
    ASSUME NEW S, NEW R, NEW upto, Ordered(S, R, upto)
    PROVE  /\ Cardinality(S) \in Nat
           /\ \A x \in S : Cardinality(upto[x]) \in 1..Cardinality(S)
           /\ \A x, y \in S : <<x, y>> \in R <=> Cardinality(upto[x]) < Cardinality(upto[y])
           /\ \A x, y \in S : Cardinality(upto[x]) = Cardinality(upto[y]) => x = y
           /\ \A n \in 1..Cardinality(S) : \E x \in S : Cardinality(upto[x]) = n
<1> DEFINE N == Cardinality(S)
           place == [x \in S |-> Cardinality(upto[x])]
<1> USE DEF Ordered
<1>1. N \in Nat  BY FS_CardinalityType
<1>2. ASSUME NEW x \in S
      PROVE  /\ IsFiniteSet(upto[x]) /\ Cardinality(upto[x]) \in 1..N
             /\ place[x] = Cardinality(upto[x])
  <2>1. upto[x] \in SUBSET S /\ x \in upto[x]  OBVIOUS
  <2>2. IsFiniteSet(upto[x]) /\ Cardinality(upto[x]) <= N  BY <2>1, FS_Subset
  <2>3. Cardinality(upto[x]) \in Nat  BY <2>2, FS_CardinalityType
  <2>4. Cardinality(upto[x]) # 0  BY <2>1, <2>2, FS_EmptySet
  <2> QED  BY <1>1, <2>2, <2>3, <2>4
<1>4. place \in [S -> 1..N]  BY <1>2
<1> HIDE DEF N, place
<1>3. ASSUME NEW x \in S, NEW y \in S, <<x, y>> \in R
      PROVE  place[x] < place[y]
  <2>1. upto[x] \in SUBSET upto[y]  BY <1>3
  <2>2. y \in upto[y] /\ y \notin upto[x]  BY <1>3
  <2>3. IsFiniteSet(upto[y])  BY <1>2
  <2>4. Cardinality(upto[x]) <= Cardinality(upto[y]) /\ Cardinality(upto[x]) # Cardinality(upto[y])
    BY <2>1, <2>2, <2>3, FS_Subset
  <2>5. place[x] <= place[y] /\ place[x] # place[y]  BY <1>2, <2>4
  <2> QED  BY <1>1, <1>4, <2>5
<1>5. \A x, y \in S : place[x] = place[y] => x = y
  <2> SUFFICES ASSUME NEW x \in S, NEW y \in S, place[x] = place[y], x # y  PROVE FALSE
    OBVIOUS
  <2>1. place[x] < place[y] \/ place[y] < place[x]  BY <1>3
  <2> QED  BY <1>1, <1>4, <2>1
<1>6. \A x, y \in S : <<x, y>> \in R <=> place[x] < place[y]
  <2> SUFFICES ASSUME NEW x \in S, NEW y \in S, place[x] < place[y]  PROVE <<x, y>> \in R
    BY <1>3
  <2>1. x # y /\ ~(place[y] < place[x])  BY <1>1, <1>4
  <2> QED  BY <1>3, <2>1
<1>7. \A n \in 1..N : \E x \in S : place[x] = n
  <2>1. place \in Injection(S, 1..N)  BY <1>4, <1>5 DEF Injection, IsInjective
  <2>2. IsFiniteSet(1..N) /\ Cardinality(1..N) = N  BY <1>1, FS_Interval
  <2>3. place \in Surjection(S, 1..N)  BY <2>1, <2>2, FS_Injection DEF N
  <2> QED  BY <2>3 DEF Surjection
<1> QED  BY <1>1, <1>2, <1>5, <1>6, <1>7 DEF N

\* A finite set of positions in a list.
Positions(I) == IsFiniteSet(I) /\ I \subseteq Nat

\* The same for positions in ascending order: Nth is the inverse of the place.
LEMMA NthFacts ==
    ASSUME NEW I, Positions(I)
    PROVE  /\ Cardinality(I) \in Nat
           /\ \A n \in 1..Cardinality(I) :
                 Nth(I, n) \in I /\ Cardinality({j \in I : j <= Nth(I, n)}) = n
           /\ \A i \in I : /\ Cardinality({j \in I : j <= i}) \in 1..Cardinality(I)
                           /\ Nth(I, Cardinality({j \in I : j <= i})) = i
           /\ \A m, n \in 1..Cardinality(I) : m < n <=> Nth(I, m) < Nth(I, n)
<1> DEFINE R == {p \in I \X I : p[1] < p[2]}
           upto == [x \in I |-> {j \in I : j <= x}]
<1>1. \A x, y \in I : <<x, y>> \in R <=> x < y  BY DEF Positions
<1>2. upto \in [I -> SUBSET I]  OBVIOUS
<1>3. \A x \in I : upto[x] = {j \in I : j <= x}  OBVIOUS
<1>4. \A x, y \in I : y \in upto[x] <=> y <= x  OBVIOUS
<1> HIDE DEF R, upto
<1>5. \A x, y \in I : y \in upto[x] <=> y = x \/ <<y, x>> \in R
  <2> SUFFICES ASSUME NEW x \in I, NEW y \in I
               PROVE  y \in upto[x] <=> y = x \/ <<y, x>> \in R
    OBVIOUS
  <2>1. x \in Int /\ y \in Int  BY DEF Positions
  <2> QED  BY <1>1, <1>4, <2>1
<1>6. /\ Cardinality(I) \in Nat
      /\ \A x \in I : Cardinality(upto[x]) \in 1..Cardinality(I)
      /\ \A x, y \in I : <<x, y>> \in R <=> Cardinality(upto[x]) < Cardinality(upto[y])
      /\ \A x, y \in I : Cardinality(upto[x]) = Cardinality(upto[y]) => x = y
      /\ \A n \in 1..Cardinality(I) : \E x \in I : Cardinality(upto[x]) = n
  <2>1. \A x, y \in I : x # y => <<x, y>> \in R \/ <<y, x>> \in R
    <3> SUFFICES ASSUME NEW x \in I, NEW y \in I, x # y  PROVE x < y \/ y < x
      BY <1>1
    <3> QED  BY DEF Positions
  <2>2. \A x, y \in I : ~(<<x, y>> \in R /\ <<y, x>> \in R)
    <3> SUFFICES ASSUME NEW x \in I, NEW y \in I  PROVE ~(x < y /\ y < x)
      BY <1>1
    <3> QED  BY DEF Positions
  <2>3. \A x, y, z \in I : <<x, y>> \in R /\ <<y, z>> \in R => <<x, z>> \in R
    <3> SUFFICES ASSUME NEW x \in I, NEW y \in I, NEW z \in I, x < y, y < z  PROVE x < z
      BY <1>1
    <3> QED  BY DEF Positions
  <2>4. Ordered(I, R, upto)  BY <1>2, <1>5, <2>1, <2>2, <2>3 DEF Ordered, Positions
  <2> QED  BY <2>4, Places
<1>7. ASSUME NEW n \in 1..Cardinality(I)
      PROVE  Nth(I, n) \in I /\ Cardinality(upto[Nth(I, n)]) = n
  <2>1. PICK x \in I : Cardinality(upto[x]) = n  BY <1>6
  <2>2. Cardinality({j \in I : j <= x}) = n  BY <1>3, <2>1
  <2>3. Nth(I, n) \in I /\ Cardinality({j \in I : j <= Nth(I, n)}) = n  BY <2>2 DEF Nth
  <2> QED  BY <1>3, <2>3
<1>8. ASSUME NEW i \in I
      PROVE  /\ Cardinality(upto[i]) \in 1..Cardinality(I)
             /\ Nth(I, Cardinality(upto[i])) = i
  BY <1>6, <1>7
<1>9. ASSUME NEW m \in 1..Cardinality(I), NEW n \in 1..Cardinality(I)
      PROVE  m < n <=> Nth(I, m) < Nth(I, n)
  <2> DEFINE a == Nth(I, m)
             b == Nth(I, n)
  <2>1. a \in I /\ b \in I /\ Cardinality(upto[a]) = m /\ Cardinality(upto[b]) = n  BY <1>7
  <2> HIDE DEF a, b
  <2>2. <<a, b>> \in R <=> m < n  BY <1>6, <2>1
  <2>3. <<a, b>> \in R <=> a < b  BY <1>1, <2>1
  <2> QED  BY <2>2, <2>3 DEF a, b
<1> QED  BY <1>3, <1>6, <1>7, <1>8, <1>9

-----------------------------------------------------------------------------
(* Folds                                                                   *)

LEMMA MaxIsGreatest ==
    ASSUME NEW S, NEW x \in S, \A y \in S : y \in Int /\ y <= x
    PROVE  Max(S) = x
<1>1. \E z \in S : \A y \in S : z >= y  OBVIOUS
<1>2. Max(S) \in S /\ \A y \in S : Max(S) >= y  BY <1>1 DEF Max
<1> QED  BY <1>2

\* A step over n elements, tabulated in st, with accumulators in V.
Foldable(n, V, base, st) == n \in Nat /\ base \in V /\ st \in [(1..n) \X V -> V]

\* f is what FoldLeft iterates over subsets of positions.
IsFold(f, n, V, base, st) ==
    /\ Foldable(n, V, base, st)
    /\ f[{}] = base
    /\ \A s \in SUBSET (1..n) :
          s # {} /\ f[s \ {Max(s)}] \in V => f[s] = st[<<Max(s), f[s \ {Max(s)}]>>]

\* A fold from the left is a chain of accumulators.
IsChain(c, n, V, base, st) ==
    /\ c \in [0..n -> V] /\ c[0] = base
    /\ \A i \in 1..n : c[i] = st[<<i, c[i - 1]>>]

LEMMA FoldIsChain ==
    ASSUME NEW f, NEW n, NEW V, NEW base, NEW st, IsFold(f, n, V, base, st)
    PROVE  \E c : IsChain(c, n, V, base, st) /\ c[n] = f[1..n]
<1> USE DEF IsFold, Foldable
<1>1. ASSUME NEW i \in 1..n, f[1..(i - 1)] \in V
      PROVE  f[1..i] = st[<<i, f[1..(i - 1)]>>] /\ f[1..i] \in V
  <2>1. Max(1..i) = i
    <3>1. i \in 1..i /\ \A y \in 1..i : y \in Int /\ y <= i  OBVIOUS
    <3> QED  BY <3>1, MaxIsGreatest
  <2>2. (1..i) \ {i} = 1..(i - 1) /\ (1..i) \in SUBSET (1..n) /\ 1..i # {}  OBVIOUS
  <2>3. f[1..i] = st[<<i, f[1..(i - 1)]>>]  BY <1>1, <2>1, <2>2
  <2> QED  BY <1>1, <2>3
<1>2. \A i \in 0..n : f[1..i] \in V
  <2> DEFINE S == {i \in Nat : i <= n => f[1..i] \in V}
  <2>1. 0 \in S
    <3>1. 1..0 = {}  OBVIOUS
    <3> QED  BY <3>1
  <2>2. ASSUME NEW i \in Nat, i \in S  PROVE i + 1 \in S
    <3> SUFFICES ASSUME i + 1 <= n  PROVE f[1..(i + 1)] \in V  OBVIOUS
    <3>1. i + 1 \in 1..n /\ (i + 1) - 1 = i /\ f[1..i] \in V  BY <2>2
    <3> QED  BY <1>1, <3>1
  <2> HIDE DEF S
  <2>3. Nat \subseteq S  BY <2>1, <2>2, NumberInduction
  <2> QED  BY <2>3 DEF S
<1> DEFINE c == [i \in 0..n |-> f[1..i]]
<1>3. c \in [0..n -> V]  BY <1>2
<1>4. c[0] = base
  <2>1. 1..0 = {} /\ 0 \in 0..n  OBVIOUS
  <2> QED  BY <2>1
<1>5. ASSUME NEW i \in 1..n  PROVE c[i] = st[<<i, c[i - 1]>>]
  <2>1. i \in 0..n /\ i - 1 \in 0..n  OBVIOUS
  <2>2. f[1..(i - 1)] \in V  BY <1>2, <2>1
  <2>3. c[i] = f[1..i] /\ c[i - 1] = f[1..(i - 1)]  BY <2>1
  <2> QED  BY <1>1, <2>2, <2>3
<1>6. c[n] = f[1..n]  OBVIOUS
<1> HIDE DEF c
<1> QED  BY <1>3, <1>4, <1>5, <1>6 DEF IsChain

\* There is such an f.
IsFoldTable(f, n, V, base, st) ==
    /\ f \in [SUBSET (1..n) -> V]
    /\ \A s \in SUBSET (1..n) :
          f[s] = IF s = {} THEN base ELSE st[<<Max(s), f[s \ {Max(s)}]>>]

LEMMA FoldExists ==
    ASSUME NEW n, NEW V, NEW base, NEW st, Foldable(n, V, base, st)
    PROVE  \E f : IsFoldTable(f, n, V, base, st)
<1> USE DEF Foldable
<1> DEFINE Good(f, k) == /\ f \in [SUBSET (1..k) -> V]
                         /\ \A s \in SUBSET (1..k) :
                               f[s] = IF s = {} THEN base ELSE st[<<Max(s), f[s \ {Max(s)}]>>]
           S == {k \in Nat : k <= n => \E f : Good(f, k)}
<1>1. \E f : Good(f, 0)
  <2> DEFINE f == [s \in SUBSET (1..0) |-> base]
  <2>1. 1..0 = {}  OBVIOUS
  <2>2. f \in [SUBSET (1..0) -> V]  OBVIOUS
  <2>3. \A s \in SUBSET (1..0) : s = {} /\ f[s] = base  BY <2>1
  <2> HIDE DEF f
  <2> QED  BY <2>2, <2>3
<1>2. ASSUME NEW k \in Nat, k + 1 <= n, NEW g, Good(g, k)  PROVE \E f : Good(f, k + 1)
  <2> DEFINE m == k + 1
             f == [s \in SUBSET (1..m) |-> IF m \in s THEN st[<<m, g[s \ {m}]>>] ELSE g[s]]
  <2>1. m \in 1..n /\ m \in Nat  BY <1>2
  <2>2. ASSUME NEW s \in SUBSET (1..m), m \notin s
        PROVE  s \in SUBSET (1..k) /\ f[s] = g[s]
    <3>1. \A x \in s : x \in 1..k  BY <2>2
    <3> QED  BY <2>2, <3>1
  <2>3. ASSUME NEW s \in SUBSET (1..m), m \in s
        PROVE  /\ s \ {m} \in SUBSET (1..k) /\ s # {} /\ Max(s) = m
               /\ f[s] = st[<<m, g[s \ {m}]>>] /\ f[s \ {m}] = g[s \ {m}]
    <3>1. \A x \in s \ {m} : x \in 1..k  OBVIOUS
    <3>2. \A y \in s : y \in Int /\ y <= m  OBVIOUS
    <3>3. Max(s) = m  BY <2>3, <3>2, MaxIsGreatest
    <3>4. s \ {m} \in SUBSET (1..m) /\ m \notin s \ {m}  OBVIOUS
    <3>5. f[s \ {m}] = g[s \ {m}]  BY <3>4
    <3> QED  BY <2>3, <3>1, <3>3, <3>5
  <2>4. f \in [SUBSET (1..m) -> V]
    <3> SUFFICES ASSUME NEW s \in SUBSET (1..m)  PROVE f[s] \in V
      OBVIOUS
    <3>1. CASE m \in s
      <4>1. g[s \ {m}] \in V  BY <1>2, <2>3, <3>1
      <4> HIDE DEF f, m
      <4> QED  BY <2>1, <2>3, <3>1, <4>1
    <3>2. CASE m \notin s  BY <1>2, <2>2, <3>2
    <3> QED  BY <3>1, <3>2
  <2>5. ASSUME NEW s \in SUBSET (1..m)
        PROVE  f[s] = IF s = {} THEN base ELSE st[<<Max(s), f[s \ {Max(s)}]>>]
    <3>1. CASE m \in s
      <4> HIDE DEF f, m
      <4> QED  BY <2>3, <3>1
    <3>2. CASE m \notin s
      <4>1. s \in SUBSET (1..k) /\ f[s] = g[s]  BY <2>2, <3>2
      <4>2. CASE s = {}  BY <1>2, <4>1, <4>2
      <4>3. CASE s # {}
        <5>1. g[s] = st[<<Max(s), g[s \ {Max(s)}]>>]  BY <1>2, <4>1, <4>3
        <5>2. s \ {Max(s)} \in SUBSET (1..m) /\ m \notin s \ {Max(s)}  BY <3>2
        <5>3. f[s \ {Max(s)}] = g[s \ {Max(s)}]  BY <5>2
        <5> QED  BY <4>1, <4>3, <5>1, <5>3
      <4> QED  BY <4>2, <4>3
    <3> QED  BY <3>1, <3>2
  <2> HIDE DEF f
  <2>6. Good(f, k + 1)  BY <2>4, <2>5
  <2> HIDE DEF Good
  <2> QED  BY <2>6
<1> HIDE DEF Good
<1>3. 0 \in S  BY <1>1
<1>4. ASSUME NEW k \in Nat, k \in S  PROVE k + 1 \in S  BY <1>2, <1>4
<1> HIDE DEF S
<1>5. Nat \subseteq S  BY <1>3, <1>4, NumberInduction
<1>6. PICK f : Good(f, n)  BY <1>5 DEF S
<1> QED  BY <1>6 DEF Good, IsFoldTable

\* A bounded set of natural numbers has a greatest element.
LEMMA MaxIsMember ==
    ASSUME NEW n \in Nat, NEW S, S \subseteq 0..n, S # {}
    PROVE  Max(S) \in S /\ \A y \in S : y <= Max(S)
<1> DEFINE T == {k \in Nat : \A y \in S : k >= y}
<1>1. n \in T /\ T \subseteq Nat  OBVIOUS
<1>2. PICK x \in T : \A y \in T : x <= y
  <2> HIDE DEF T
  <2> QED  BY <1>1, LeastNumber
<1>3. x \in S
  <2> SUFFICES ASSUME x \notin S  PROVE FALSE  OBVIOUS
  <2>1. PICK y \in S : TRUE  OBVIOUS
  <2>2. x \in Nat /\ x >= y /\ y \in Nat /\ x # y  BY <1>2, <2>1
  <2>3. x > 0 /\ x - 1 \in Nat  BY <2>2
  <2>4. ASSUME NEW z \in S  PROVE x - 1 >= z
    <3>1. x \in Nat /\ z \in Nat /\ x >= z /\ x # z  BY <1>2
    <3> QED  BY <3>1
  <2>5. x - 1 \in T  BY <2>3, <2>4
  <2> QED  BY <1>2, <2>3, <2>5
<1>4. \A y \in S : y \in Int /\ y <= x  BY <1>2
<1>5. Max(S) = x  BY <1>3, <1>4, MaxIsGreatest
<1> QED  BY <1>3, <1>4, <1>5

-----------------------------------------------------------------------------
(* Floats                                                                  *)

\* Comparing and choosing among floats.
LEMMA FloatFacts ==
    /\ NaN \in Float /\ PosInf \in Float /\ NegInf \in Float /\ Int \subseteq Float
    /\ NaN \notin Int /\ PosInf \notin Int /\ NegInf \notin Int
    /\ NaN # PosInf /\ NaN # NegInf /\ PosInf # NegInf
    /\ \A x \in Float : x = NaN \/ x = PosInf \/ x = NegInf \/ x \in Int
BY FloatsAssumption DEF Float, Number

LEMMA LowerIsLess ==
    /\ \A x, y \in Int : Lower(x, y) <=> x < y
    /\ \A x \in Float : Lower(x, PosInf) <=> x # NaN /\ x # PosInf
    /\ \A x \in Float : Lower(NegInf, x) <=> x # NaN /\ x # NegInf
    /\ \A x : ~Lower(x, x) /\ ~Lower(NaN, x) /\ ~Lower(x, NaN)
BY FloatFacts DEF Lower

LEMMA LowerOrder ==
    ASSUME NEW x \in Float, NEW y \in Float, NEW z \in Float, Lower(x, y)
    PROVE  Lower(x, PosInf) /\ (~Lower(z, y) => Clears(x, z))
<1> USE FloatFacts DEF Lower, Clears
<1>1. Lower(x, PosInf)  OBVIOUS
<1>2. ASSUME ~Lower(z, y), z # NaN  PROVE Lower(x, z)
  <2>1. CASE y \in Int  BY <1>2, <2>1
  <2>2. CASE y = PosInf  BY <1>2, <2>2
  <2> QED  BY <2>1, <2>2
<1> QED  BY <1>1, <1>2

LEMMA LesserFacts ==
    ASSUME NEW x \in Float, NEW y \in Float
    PROVE  /\ Lesser(x, y) \in Float
           /\ \A z \in Float : Lower(z, Lesser(x, y)) <=> Lower(z, x) /\ Clears(z, y)
<1>1. ASSUME Lower(y, x), NEW z \in Float  PROVE Lower(z, y) <=> Lower(z, x) /\ Clears(z, y)
  <2> USE FloatFacts DEF Lower, Clears
  <2>1. ASSUME Lower(z, y)  PROVE Lower(z, x)
    <3>1. CASE x \in Int  BY <1>1, <2>1, <3>1
    <3>2. CASE x = PosInf  BY <1>1, <2>1, <3>2
    <3> QED  BY <1>1, <3>1, <3>2
  <2> QED  BY <1>1, <2>1
<1>2. ASSUME ~Lower(y, x), NEW z \in Float, Lower(z, x)  PROVE Clears(z, y)
  BY <1>2, LowerOrder
<1> QED  BY <1>1, <1>2 DEF Lesser

\* What a running minimum goes below: anything is lower than it that is lower than where
\* it began and than every number on the way.
Minimized(xs) == [p \in (1..Len(xs)) \X Float |-> Lesser(p[2], xs[p[1]])]

LEMMA LowestChain ==
    ASSUME NEW x \in Float, NEW xs \in Seq(Float)
    PROVE  \E c : /\ IsChain(c, Len(xs), Float, x, Minimized(xs))
                  /\ Lowest(x, xs) = c[Len(xs)]
<1> DEFINE m == Len(xs)
           st == Minimized(xs)
           next(f, s) == IF s = {} THEN x ELSE Lesser(f[s \ {Max(s)}], xs[Max(s)])
           body(f) == [s \in SUBSET DOMAIN xs |-> next(f, s)]
           iter == CHOOSE f : f = body(f)
<1>1. m \in Nat /\ DOMAIN xs = 1..m /\ \A i \in 1..m : xs[i] \in Float  OBVIOUS
<1>2. Lowest(x, xs) = iter[DOMAIN xs]  BY DEF Lowest, FoldLeft, MapThenFoldSet
<1>3. st \in [(1..m) \X Float -> Float]  BY <1>1, LesserFacts DEF Minimized
<1>4. \A i \in 1..m, v \in Float : st[<<i, v>>] = Lesser(v, xs[i])  BY DEF Minimized
<1> HIDE DEF m, st
<1>5. PICK f : IsFoldTable(f, m, Float, x, st)
  <2>1. Foldable(m, Float, x, st)  BY <1>1, <1>3 DEF Foldable
  <2> QED  BY <2>1, FoldExists
<1>6. /\ f \in [SUBSET (1..m) -> Float]
      /\ \A s \in SUBSET (1..m) :
            f[s] = IF s = {} THEN x ELSE st[<<Max(s), f[s \ {Max(s)}]>>]
  BY <1>5 DEF IsFoldTable
<1>7. ASSUME NEW s \in SUBSET (1..m), s # {}  PROVE Max(s) \in 1..m /\ s \ {Max(s)} \in SUBSET (1..m)
  <2>1. s \subseteq 0..m /\ m \in Nat  BY <1>1
  <2>2. Max(s) \in s  BY <1>7, <2>1, MaxIsMember
  <2> QED  BY <2>2
<1>8. f = body(f)
  <2>1. ASSUME NEW s \in SUBSET (1..m)
        PROVE  f[s] = next(f, s)
    <3>1. CASE s = {}  BY <1>6, <3>1
    <3>2. CASE s # {}
      <4>1. f[s \ {Max(s)}] \in Float  BY <1>6, <1>7, <3>2
      <4>2. f[s] = st[<<Max(s), f[s \ {Max(s)}]>>]  BY <1>6, <3>2
      <4> QED  BY <1>4, <1>7, <3>2, <4>1, <4>2
    <3> QED  BY <3>1, <3>2
  <2>2. f = [s \in SUBSET (1..m) |-> f[s]]  BY <1>6
  <2> HIDE DEF next
  <2> QED  BY <1>1, <2>1, <2>2, Zenon
<1> HIDE DEF body, next
<1>9. iter = body(iter)  BY <1>8
<1> HIDE DEF iter
<1>10. \A s \in SUBSET (1..m) : iter[s] = next(iter, s)
  <2>1. \A s \in SUBSET (1..m) : body(iter)[s] = next(iter, s)  BY <1>1, Zenon DEF body
  <2> QED  BY <1>9, <2>1, Zenon
<1>11. IsFold(iter, m, Float, x, st)
  <2>1. iter[{}] = x  BY <1>10 DEF next
  <2>2. ASSUME NEW s \in SUBSET (1..m), s # {}, iter[s \ {Max(s)}] \in Float
        PROVE  iter[s] = st[<<Max(s), iter[s \ {Max(s)}]>>]
    BY <1>4, <1>7, <1>10, <2>2 DEF next
  <2> QED  BY <1>1, <1>3, <2>1, <2>2 DEF IsFold, Foldable
<1>12. \E c : IsChain(c, m, Float, x, st) /\ c[m] = iter[1..m]  BY <1>11, FoldIsChain
<1> QED  BY <1>1, <1>2, <1>12 DEF m, st

LEMMA LowestFacts ==
    ASSUME NEW x \in Float, NEW xs \in Seq(Float)
    PROVE  /\ Lowest(x, xs) \in Float
           /\ \A y \in Float : Lower(y, Lowest(x, xs)) <=>
                 Lower(y, x) /\ \A k \in 1..Len(xs) : Clears(y, xs[k])
<1>1. PICK c : IsChain(c, Len(xs), Float, x, Minimized(xs)) /\ Lowest(x, xs) = c[Len(xs)]
  BY LowestChain
<1>2. /\ c \in [0..Len(xs) -> Float] /\ c[0] = x
      /\ \A i \in 1..Len(xs) : c[i] = Lesser(c[i - 1], xs[i]) /\ c[i - 1] \in Float
                               /\ xs[i] \in Float
  <2>1. c \in [0..Len(xs) -> Float] /\ c[0] = x  BY <1>1 DEF IsChain
  <2>2. ASSUME NEW i \in 1..Len(xs)  PROVE c[i] = Lesser(c[i - 1], xs[i]) /\ c[i - 1] \in Float
    <3>1. i - 1 \in 0..Len(xs) /\ c[i] = Minimized(xs)[<<i, c[i - 1]>>]  BY <1>1 DEF IsChain
    <3> QED  BY <2>1, <3>1 DEF Minimized
  <2> QED  BY <2>1, <2>2
<1> DEFINE Below(y, k) == Lower(y, c[k]) <=> Lower(y, x) /\ \A i \in 1..k : Clears(y, xs[i])
           K == {k \in Nat : k <= Len(xs) => \A y \in Float : Below(y, k)}
<1>3. 0 \in K  BY <1>2
<1>4. ASSUME NEW k \in Nat, k \in K  PROVE k + 1 \in K
  <2> SUFFICES ASSUME k + 1 <= Len(xs), NEW y \in Float  PROVE Below(y, k + 1)  OBVIOUS
  <2>1. k + 1 \in 1..Len(xs) /\ (k + 1) - 1 = k /\ 1..(k + 1) = (1..k) \cup {k + 1}  OBVIOUS
  <2>2. Lower(y, c[k + 1]) <=> Lower(y, c[k]) /\ Clears(y, xs[k + 1])
    BY <1>2, <2>1, LesserFacts
  <2>3. Below(y, k)  BY <1>4, <2>1
  <2> QED  BY <2>1, <2>2, <2>3
<1> HIDE DEF K
<1>5. Nat \subseteq K  BY <1>3, <1>4, NumberInduction
<1>6. Len(xs) \in K /\ Len(xs) <= Len(xs) /\ Len(xs) \in 0..Len(xs)  BY <1>5
<1> QED  BY <1>1, <1>2, <1>6 DEF K

\* Without a beginning of its own it begins with the first.
LEMMA LowestOfFacts ==
    ASSUME NEW xs \in Seq(Float)
    PROVE  /\ LowestOf(xs) \in Float
           /\ \A y \in Float : Lower(y, LowestOf(xs)) <=>
                 /\ Lower(y, PosInf) /\ (xs # <<>> => xs[1] # NaN)
                 /\ \A k \in 1..Len(xs) : Clears(y, xs[k])
<1>1. CASE xs = <<>>  BY <1>1, FloatFacts DEF LowestOf
<1>2. CASE xs # <<>>
  <2>1. 1 \in 1..Len(xs) /\ xs[1] \in Float  BY <1>2
  <2>2. LowestOf(xs) = Lowest(xs[1], xs)  BY <1>2 DEF LowestOf
  <2>3. ASSUME NEW y \in Float
        PROVE  Lower(y, xs[1]) <=> Lower(y, PosInf) /\ xs[1] # NaN /\ Clears(y, xs[1])
    BY <2>1, FloatFacts, LowerIsLess, LowerOrder DEF Clears
  <2> QED  BY <1>2, <2>1, <2>2, <2>3, LowestFacts
<1> QED  BY <1>1, <1>2

-----------------------------------------------------------------------------
(* Sums                                                                    *)

\* Induction over the subsets of a finite set, with a set for the predicate.
Inductive(P, S) ==
    /\ IsFiniteSet(S) /\ {} \in P
    /\ \A T \in SUBSET S, x \in S : T \in P /\ x \notin T => T \cup {x} \in P

LEMMA FiniteInduction ==
    ASSUME NEW S, NEW P, Inductive(P, S)
    PROVE  SUBSET S \subseteq P
<1> USE DEF Inductive
<1> DEFINE K == {n \in Nat : \A T \in SUBSET S : Cardinality(T) = n => T \in P}
<1>1. \A T \in SUBSET S : IsFiniteSet(T) /\ Cardinality(T) \in Nat
  BY FS_Subset, FS_CardinalityType
<1>2. 0 \in K
  <2> SUFFICES ASSUME NEW T \in SUBSET S, Cardinality(T) = 0  PROVE T \in P  OBVIOUS
  <2>1. T = {}  BY <1>1, FS_EmptySet
  <2> QED  BY <2>1
<1>3. ASSUME NEW n \in Nat, n \in K  PROVE n + 1 \in K
  <2> SUFFICES ASSUME NEW T \in SUBSET S, Cardinality(T) = n + 1  PROVE T \in P
    OBVIOUS
  <2>1. T # {}
    <3>1. n + 1 # 0  OBVIOUS
    <3>2. Cardinality({}) = 0  BY FS_EmptySet
    <3> QED  BY <3>1, <3>2
  <2>2. PICK x \in T : TRUE  BY <2>1
  <2>3. Cardinality(T \ {x}) = n
    <3>1. Cardinality(T \ {x}) = Cardinality(T) - 1  BY <1>1, <2>2, FS_RemoveElement
    <3> QED  BY <3>1
  <2>4. T \ {x} \in SUBSET S /\ x \in S /\ x \notin T \ {x} /\ T = (T \ {x}) \cup {x}  BY <2>2
  <2>5. T \ {x} \in P  BY <1>3, <2>3, <2>4
  <2>6. (T \ {x}) \cup {x} \in P  BY <2>4, <2>5
  <2> QED  BY <2>4, <2>6
<1> HIDE DEF K
<1>4. Nat \subseteq K  BY <1>2, <1>3, NumberInduction
<1>5. ASSUME NEW T \in SUBSET S  PROVE T \in P
  <2>1. Cardinality(T) \in K  BY <1>1, <1>4
  <2> QED  BY <2>1 DEF K
<1> QED  BY <1>5

\* Numbers that can be added up, and the table that sums them over subsets.
Addable(f, S) == IsFiniteSet(S) /\ \A x \in S : f[x] \in Int

First(s) == CHOOSE x \in s : TRUE

IsSum(g, f, S) ==
    /\ g \in [SUBSET S -> Int]
    /\ \A s \in SUBSET S : g[s] = IF s = {} THEN 0 ELSE f[First(s)] + g[s \ {First(s)}]

LEMMA SumExists ==
    ASSUME NEW f, NEW S, Addable(f, S)
    PROVE  \E g : IsSum(g, f, S)
<1> DEFINE U(k) == {s \in SUBSET S : Cardinality(s) <= k}
           Good(g, k) == /\ g \in [U(k) -> Int]
                         /\ \A s \in U(k) : g[s] = IF s = {} THEN 0
                                                    ELSE f[First(s)] + g[s \ {First(s)}]
           K == {k \in Nat : \E g : Good(g, k)}
<1>1. \A s \in SUBSET S : IsFiniteSet(s) /\ Cardinality(s) \in Nat
  BY FS_Subset, FS_CardinalityType DEF Addable
<1>2. ASSUME NEW s \in SUBSET S, s # {}
      PROVE  /\ First(s) \in s /\ f[First(s)] \in Int
             /\ s \ {First(s)} \in SUBSET S
             /\ Cardinality(s \ {First(s)}) = Cardinality(s) - 1
  <2>1. First(s) \in s  BY <1>2 DEF First
  <2> QED  BY <1>1, <2>1, FS_RemoveElement DEF Addable
<1>3. 0 \in K
  <2> DEFINE g == [s \in U(0) |-> 0]
  <2>1. \A s \in U(0) : s = {}
    <3> SUFFICES ASSUME NEW s \in U(0)  PROVE s = {}  OBVIOUS
    <3>1. Cardinality(s) = 0  BY <1>1
    <3> QED  BY <1>1, <3>1, FS_EmptySet
  <2>2. g \in [U(0) -> Int]  OBVIOUS
  <2>3. \A s \in U(0) : g[s] = 0  OBVIOUS
  <2> HIDE DEF g
  <2> QED  BY <2>1, <2>2, <2>3
<1>4. ASSUME NEW k \in Nat, k \in K  PROVE k + 1 \in K
  <2>1. PICK g : Good(g, k)  BY <1>4
  <2> DEFINE h == [s \in U(k + 1) |-> IF s \in U(k) THEN g[s]
                                       ELSE f[First(s)] + g[s \ {First(s)}]]
  <2>2. ASSUME NEW s \in U(k + 1), s # {}
        PROVE  s \ {First(s)} \in U(k) /\ s \ {First(s)} \in U(k + 1)
    <3>1. Cardinality(s \ {First(s)}) = Cardinality(s) - 1 /\ s \ {First(s)} \in SUBSET S
      BY <1>2, <2>2
    <3>2. Cardinality(s) \in Nat /\ Cardinality(s) <= k + 1  BY <1>1
    <3> QED  BY <3>1, <3>2
  <2>3. {} \in U(k)  BY FS_EmptySet
  <2>4. \A s \in U(k + 1) : h[s] = IF s \in U(k) THEN g[s] ELSE f[First(s)] + g[s \ {First(s)}]
    OBVIOUS
  <2>5. DOMAIN h = U(k + 1) /\ h = [s \in U(k + 1) |-> h[s]]  OBVIOUS
  <2>6. U(k) \subseteq U(k + 1)
    <3> SUFFICES ASSUME NEW s \in U(k)  PROVE s \in U(k + 1)  OBVIOUS
    <3> QED  BY <1>1
  <2>7. U(k + 1) \subseteq SUBSET S  OBVIOUS
  <2> HIDE DEF h, U
  <2>8. ASSUME NEW s \in U(k + 1)
        PROVE  /\ h[s] \in Int
               /\ h[s] = IF s = {} THEN 0 ELSE f[First(s)] + h[s \ {First(s)}]
    <3>1. CASE s \in U(k) /\ s = {}  BY <2>1, <2>4, <3>1
    <3>2. CASE s # {}
      <4>1. s \ {First(s)} \in U(k) /\ s \ {First(s)} \in U(k + 1)  BY <2>2, <3>2
      <4>2. h[s \ {First(s)}] = g[s \ {First(s)}] /\ g[s \ {First(s)}] \in Int  BY <2>1, <2>4, <4>1
      <4>3. f[First(s)] \in Int  BY <1>2, <2>7, <3>2
      <4>4. h[s] = f[First(s)] + g[s \ {First(s)}]
        <5>1. CASE s \in U(k)  BY <2>1, <2>4, <3>2, <5>1
        <5>2. CASE s \notin U(k)  BY <2>4, <5>2
        <5> QED  BY <5>1, <5>2
      <4> QED  BY <3>2, <4>2, <4>3, <4>4
    <3> QED  BY <2>3, <3>1, <3>2
  <2>9. Good(h, k + 1)  BY <2>5, <2>8
  <2> HIDE DEF Good
  <2> QED  BY <2>9
<1> HIDE DEF K
<1>5. Nat \subseteq K  BY <1>3, <1>4, NumberInduction
<1>6. PICK g : Good(g, Cardinality(S))  BY <1>1, <1>5 DEF K
<1>7. U(Cardinality(S)) = SUBSET S
  <2>1. \A s \in SUBSET S : Cardinality(s) <= Cardinality(S)  BY FS_Subset DEF Addable
  <2> QED  BY <2>1
<1> QED  BY <1>6, <1>7 DEF IsSum

\* SumFunctionOnSet reads such a table.
LEMMA SumIsSum ==
    ASSUME NEW f, NEW S, Addable(f, S)
    PROVE  \E g : IsSum(g, f, S) /\ SumFunctionOnSet(f, S) = g[S]
<1> DEFINE body(g) == [s \in SUBSET S |-> IF s = {} THEN 0
                                          ELSE f[CHOOSE x \in s : TRUE] + g[s \ {CHOOSE x \in s : TRUE}]]
           iter == CHOOSE g : g = body(g)
<1>1. SumFunctionOnSet(f, S) = iter[S]
  BY DEF SumFunctionOnSet, FoldFunctionOnSet, MapThenFoldSet
<1>2. PICK h : IsSum(h, f, S)  BY SumExists
<1>3. h = body(h)
  <2>1. h \in [SUBSET S -> Int]  BY <1>2 DEF IsSum
  <2>2. h = [s \in SUBSET S |-> h[s]]  BY <2>1
  <2>3. \A s \in SUBSET S : h[s] = IF s = {} THEN 0
                 ELSE f[CHOOSE x \in s : TRUE] + h[s \ {CHOOSE x \in s : TRUE}]
    BY <1>2 DEF IsSum, First
  <2> QED  BY <2>2, <2>3, Zenon
<1>4. iter = body(iter)  BY <1>3
<1>5. iter = [s \in SUBSET S |-> IF s = {} THEN 0 ELSE f[First(s)] + iter[s \ {First(s)}]]
  BY <1>4 DEF First
<1> HIDE DEF iter
<1>6. \A s \in SUBSET S : iter[s] = IF s = {} THEN 0 ELSE f[First(s)] + iter[s \ {First(s)}]
  BY <1>5
<1>7. iter \in [SUBSET S -> Int]
  <2> DEFINE P == {s \in SUBSET S : iter[s] \in Int}
  <2> DEFINE K == {n \in Nat : \A s \in SUBSET S : Cardinality(s) = n => iter[s] \in Int}
  <2>1. \A s \in SUBSET S : IsFiniteSet(s) /\ Cardinality(s) \in Nat
    BY FS_Subset, FS_CardinalityType DEF Addable
  <2>2. 0 \in K
    <3> SUFFICES ASSUME NEW s \in SUBSET S, Cardinality(s) = 0  PROVE iter[s] \in Int
      OBVIOUS
    <3>1. s = {}  BY <2>1, FS_EmptySet
    <3>2. iter[{}] = 0
      <4>1. {} \in SUBSET S  OBVIOUS
      <4> QED  BY <1>6, <4>1, Zenon
    <3> QED  BY <3>1, <3>2
  <2>3. ASSUME NEW n \in Nat, n \in K  PROVE n + 1 \in K
    <3> SUFFICES ASSUME NEW s \in SUBSET S, Cardinality(s) = n + 1  PROVE iter[s] \in Int
      OBVIOUS
    <3>1. s # {}  BY FS_EmptySet
    <3>2. First(s) \in s  BY <3>1 DEF First
    <3>3. f[First(s)] \in Int  BY <3>2 DEF Addable
    <3>4. Cardinality(s \ {First(s)}) = (n + 1) - 1  BY <2>1, <3>2, FS_RemoveElement
    <3>5. (n + 1) - 1 = n /\ s \ {First(s)} \in SUBSET S  OBVIOUS
    <3>6. iter[s \ {First(s)}] \in Int  BY <2>3, <3>4, <3>5
    <3>7. iter[s] = f[First(s)] + iter[s \ {First(s)}]  BY <1>6, <3>1
    <3> QED  BY <3>3, <3>6, <3>7
  <2> HIDE DEF K
  <2>4. Nat \subseteq K  BY <2>2, <2>3, NumberInduction
  <2>5. ASSUME NEW s \in SUBSET S  PROVE iter[s] \in Int
    <3>1. Cardinality(s) \in K  BY <2>1, <2>4
    <3> QED  BY <3>1 DEF K
  <2> QED  BY <1>5, <2>5
<1> QED  BY <1>1, <1>6, <1>7 DEF IsSum

\* The table of a set agrees with the tables of its subsets.
LEMMA SumTablesAgree ==
    ASSUME NEW f, NEW S, Addable(f, S), NEW g, IsSum(g, f, S), NEW T \in SUBSET S
    PROVE  Addable(f, T) /\ SumFunctionOnSet(f, T) = g[T]
<1>1. Addable(f, T)  BY FS_Subset DEF Addable
<1>2. PICK h : IsSum(h, f, T) /\ SumFunctionOnSet(f, T) = h[T]  BY <1>1, SumIsSum
<1> DEFINE K == {n \in Nat : \A s \in SUBSET T : Cardinality(s) = n => g[s] = h[s]}
<1>3. \A s \in SUBSET T : IsFiniteSet(s) /\ Cardinality(s) \in Nat /\ s \in SUBSET S
  BY <1>1, FS_Subset, FS_CardinalityType DEF Addable
<1>4. 0 \in K
  <2> SUFFICES ASSUME NEW s \in SUBSET T, Cardinality(s) = 0  PROVE g[s] = h[s]
    OBVIOUS
  <2>1. s = {}  BY <1>3, FS_EmptySet
  <2> QED  BY <1>2, <2>1 DEF IsSum
<1>5. ASSUME NEW n \in Nat, n \in K  PROVE n + 1 \in K
  <2> SUFFICES ASSUME NEW s \in SUBSET T, Cardinality(s) = n + 1  PROVE g[s] = h[s]
    OBVIOUS
  <2>1. s # {}  BY FS_EmptySet
  <2>2. First(s) \in s  BY <2>1 DEF First
  <2>3. Cardinality(s \ {First(s)}) = (n + 1) - 1  BY <1>3, <2>2, FS_RemoveElement
  <2>4. (n + 1) - 1 = n /\ s \ {First(s)} \in SUBSET T  OBVIOUS
  <2>5. g[s \ {First(s)}] = h[s \ {First(s)}]  BY <1>5, <2>3, <2>4
  <2>6. g[s] = f[First(s)] + g[s \ {First(s)}]  BY <1>3, <2>1 DEF IsSum
  <2>7. h[s] = f[First(s)] + h[s \ {First(s)}]  BY <1>2, <2>1 DEF IsSum
  <2> QED  BY <2>5, <2>6, <2>7
<1> HIDE DEF K
<1>6. Nat \subseteq K  BY <1>4, <1>5, NumberInduction
<1>7. Cardinality(T) \in K /\ T \in SUBSET T  BY <1>3, <1>6
<1> QED  BY <1>1, <1>2, <1>7 DEF K

\* A sum, taking out any of its terms.
LEMMA SumEmpty == \A f : SumFunctionOnSet(f, {}) = 0
<1> SUFFICES ASSUME NEW f  PROVE SumFunctionOnSet(f, {}) = 0  OBVIOUS
<1>1. Addable(f, {})  BY FS_EmptySet DEF Addable
<1>2. PICK g : IsSum(g, f, {}) /\ SumFunctionOnSet(f, {}) = g[{}]  BY <1>1, SumIsSum
<1> QED  BY <1>2 DEF IsSum

LEMMA SumType ==
    ASSUME NEW f, NEW S, Addable(f, S)
    PROVE  SumFunctionOnSet(f, S) \in Int
<1>1. PICK g : IsSum(g, f, S) /\ SumFunctionOnSet(f, S) = g[S]  BY SumIsSum
<1> QED  BY <1>1 DEF IsSum

LEMMA SumRemove ==
    ASSUME NEW f, NEW S, Addable(f, S), NEW x \in S
    PROVE  /\ Addable(f, S \ {x}) /\ f[x] \in Int
           /\ SumFunctionOnSet(f, S) = f[x] + SumFunctionOnSet(f, S \ {x})
<1>1. PICK g : IsSum(g, f, S) /\ SumFunctionOnSet(f, S) = g[S]  BY SumIsSum
<1> DEFINE K == {n \in Nat : \A s \in SUBSET S : \A y \in s :
                    Cardinality(s) = n => g[s] = f[y] + g[s \ {y}]}
<1>2. \A s \in SUBSET S : IsFiniteSet(s) /\ Cardinality(s) \in Nat
  BY FS_Subset, FS_CardinalityType DEF Addable
<1>3. 0 \in K  BY <1>2, FS_EmptySet
<1>4. ASSUME NEW n \in Nat, n \in K  PROVE n + 1 \in K
  <2> SUFFICES ASSUME NEW s \in SUBSET S, NEW y \in s, Cardinality(s) = n + 1
               PROVE  g[s] = f[y] + g[s \ {y}]
    OBVIOUS
  <2> DEFINE z == First(s)
  <2>1. z \in s  BY DEF First
  <2>2. g[s] = f[z] + g[s \ {z}]  BY <1>1 DEF IsSum
  <2> HIDE DEF z
  <2>3. CASE y = z  BY <2>2, <2>3
  <2>4. CASE y # z
    <3>1. Cardinality(s \ {z}) = (n + 1) - 1 /\ Cardinality(s \ {y}) = (n + 1) - 1
      BY <1>2, <2>1, FS_RemoveElement
    <3>2. (n + 1) - 1 = n /\ s \ {z} \in SUBSET S /\ s \ {y} \in SUBSET S
      OBVIOUS
    <3>3. y \in s \ {z} /\ z \in s \ {y} /\ (s \ {z}) \ {y} = (s \ {y}) \ {z}  BY <2>1, <2>4
    <3>4. g[s \ {z}] = f[y] + g[(s \ {z}) \ {y}]  BY <1>4, <3>1, <3>2, <3>3
    <3>5. g[s \ {y}] = f[z] + g[(s \ {y}) \ {z}]  BY <1>4, <3>1, <3>2, <3>3
    <3>6. (s \ {y}) \ {z} \in SUBSET S  OBVIOUS
    <3>7. f[y] \in Int /\ f[z] \in Int  BY <2>1 DEF Addable
    <3>8. g[(s \ {y}) \ {z}] \in Int  BY <1>1, <3>6 DEF IsSum
    <3> DEFINE r == g[(s \ {y}) \ {z}]
               a == g[s \ {z}]
               b == g[s \ {y}]
    <3>9. a = f[y] + r /\ b = f[z] + r /\ r \in Int  BY <3>3, <3>4, <3>5, <3>8
    <3>10. g[s] = f[z] + a  BY <2>2
    <3> HIDE DEF a, b, r
    <3>11. g[s] = f[y] + b  BY <3>7, <3>9, <3>10
    <3> QED  BY <3>11 DEF b
  <2> QED  BY <2>3, <2>4
<1> HIDE DEF K
<1>5. Nat \subseteq K  BY <1>3, <1>4, NumberInduction
<1>6. S \in SUBSET S /\ Cardinality(S) \in K  BY <1>2, <1>5
<1>7. g[S] = f[x] + g[S \ {x}]  BY <1>6 DEF K
<1>8. S \ {x} \in SUBSET S  OBVIOUS
<1>9. Addable(f, S \ {x}) /\ SumFunctionOnSet(f, S \ {x}) = g[S \ {x}]  BY <1>1, <1>8, SumTablesAgree
<1>10. f[x] \in Int  BY DEF Addable
<1> QED  BY <1>1, <1>7, <1>9, <1>10

LEMMA SumAdd ==
    ASSUME NEW f, NEW S, NEW x, x \notin S, Addable(f, S), f[x] \in Int
    PROVE  /\ Addable(f, S \cup {x})
           /\ SumFunctionOnSet(f, S \cup {x}) = f[x] + SumFunctionOnSet(f, S)
<1>1. Addable(f, S \cup {x})  BY FS_AddElement DEF Addable
<1>2. (S \cup {x}) \ {x} = S /\ x \in S \cup {x}  OBVIOUS
<1> QED  BY <1>1, <1>2, SumRemove

\* Sums over two disjoint sets.
LEMMA SumUnion ==
    ASSUME NEW f, NEW S, NEW T, Addable(f, S), Addable(f, T), S \cap T = {}
    PROVE  /\ Addable(f, S \cup T)
           /\ SumFunctionOnSet(f, S \cup T) = SumFunctionOnSet(f, S) + SumFunctionOnSet(f, T)
<1> DEFINE Sum(X) == SumFunctionOnSet(f, X)
           P == {U \in SUBSET T : Addable(f, U) /\ Addable(f, S \cup U) /\ Sum(S \cup U) = Sum(S) + Sum(U)}
<1>1. {} \in P
  <2>1. Addable(f, {})  BY FS_EmptySet DEF Addable
  <2>2. S \cup {} = S /\ Sum({}) = 0 /\ Sum(S) \in Int  BY SumEmpty, SumType
  <2> QED  BY <2>1, <2>2
<1>2. ASSUME NEW U \in SUBSET T, NEW x \in T, U \in P, x \notin U
      PROVE  U \cup {x} \in P
  <2>1. x \notin S /\ f[x] \in Int  BY DEF Addable
  <2>2. Addable(f, U \cup {x}) /\ Sum(U \cup {x}) = f[x] + Sum(U)  BY <1>2, <2>1, SumAdd
  <2>3. x \notin S \cup U /\ (S \cup U) \cup {x} = S \cup (U \cup {x})  BY <1>2, <2>1
  <2>4. Addable(f, (S \cup U) \cup {x}) /\ Sum((S \cup U) \cup {x}) = f[x] + Sum(S \cup U)
    BY <1>2, <2>1, <2>3, SumAdd
  <2>5. Sum(S) \in Int /\ Sum(U) \in Int  BY <1>2, SumType
  <2>6. Sum(S \cup U) = Sum(S) + Sum(U)  BY <1>2
  <2>7. Addable(f, S \cup (U \cup {x})) /\ Sum(S \cup (U \cup {x})) = f[x] + Sum(S \cup U)
    BY <2>3, <2>4
  <2> DEFINE a == Sum(S)
             b == Sum(U)
             d == f[x]
  <2>8. Sum(S \cup (U \cup {x})) = d + (a + b)  BY <2>6, <2>7
  <2>9. Sum(U \cup {x}) = d + b  BY <2>2
  <2>10. a \in Int /\ b \in Int /\ d \in Int  BY <2>1, <2>5
  <2> HIDE DEF a, b, d
  <2>11. Sum(S \cup (U \cup {x})) = a + Sum(U \cup {x})  BY <2>8, <2>9, <2>10
  <2>12. U \cup {x} \in SUBSET T  OBVIOUS
  <2> QED  BY <2>2, <2>7, <2>11, <2>12 DEF a
<1> HIDE DEF P
<1>3. IsFiniteSet(T)  BY DEF Addable
<1>4. Inductive(P, T)  BY <1>1, <1>2, <1>3 DEF Inductive
<1>6. SUBSET T \subseteq P  BY <1>4, FiniteInduction
<1>5. T \in P  BY <1>6
<1> QED  BY <1>5 DEF P

\* Sums of functions that agree.
LEMMA SumSame ==
    ASSUME NEW f, NEW g, NEW S, Addable(f, S), \A x \in S : g[x] = f[x]
    PROVE  Addable(g, S) /\ SumFunctionOnSet(g, S) = SumFunctionOnSet(f, S)
<1> DEFINE P == {U \in SUBSET S : SumFunctionOnSet(g, U) = SumFunctionOnSet(f, U)}
<1>1. {} \in P  BY SumEmpty
<1>2. ASSUME NEW U \in SUBSET S, NEW x \in S, U \in P, x \notin U
      PROVE  U \cup {x} \in P
  <2>1. Addable(f, U) /\ Addable(g, U) /\ f[x] \in Int /\ g[x] = f[x]  BY FS_Subset DEF Addable
  <2>2. SumFunctionOnSet(f, U \cup {x}) = f[x] + SumFunctionOnSet(f, U)  BY <1>2, <2>1, SumAdd
  <2>3. SumFunctionOnSet(g, U \cup {x}) = g[x] + SumFunctionOnSet(g, U)  BY <1>2, <2>1, SumAdd
  <2> QED  BY <1>2, <2>1, <2>2, <2>3
<1> HIDE DEF P
<1>3. Inductive(P, S)  BY <1>1, <1>2 DEF Inductive, Addable
<1>4. S \in P  BY <1>3, FiniteInduction
<1> QED  BY <1>4 DEF P, Addable

\* A sum is at most the sum of what bounds its terms.
LEMMA SumAtMost ==
    ASSUME NEW f, NEW g, NEW S, Addable(f, S), Addable(g, S), \A x \in S : f[x] <= g[x]
    PROVE  SumFunctionOnSet(f, S) <= SumFunctionOnSet(g, S)
<1> DEFINE P == {U \in SUBSET S : SumFunctionOnSet(f, U) <= SumFunctionOnSet(g, U)}
<1>1. {} \in P  BY SumEmpty
<1>2. ASSUME NEW U \in SUBSET S, NEW x \in S, U \in P, x \notin U
      PROVE  U \cup {x} \in P
  <2>1. Addable(f, U) /\ Addable(g, U) /\ f[x] \in Int /\ g[x] \in Int /\ f[x] <= g[x]
    BY FS_Subset DEF Addable
  <2>2. SumFunctionOnSet(f, U \cup {x}) = f[x] + SumFunctionOnSet(f, U)  BY <1>2, <2>1, SumAdd
  <2>3. SumFunctionOnSet(g, U \cup {x}) = g[x] + SumFunctionOnSet(g, U)  BY <1>2, <2>1, SumAdd
  <2>4. SumFunctionOnSet(f, U) \in Int /\ SumFunctionOnSet(g, U) \in Int  BY <2>1, SumType
  <2>5. SumFunctionOnSet(f, U) <= SumFunctionOnSet(g, U)  BY <1>2
  <2> DEFINE a == SumFunctionOnSet(f, U)
             b == SumFunctionOnSet(g, U)
             c == SumFunctionOnSet(f, U \cup {x})
             d == SumFunctionOnSet(g, U \cup {x})
  <2> HIDE DEF a, b, c, d
  <2>6. c <= d  BY <2>1, <2>2, <2>3, <2>4, <2>5 DEF a, b, c, d
  <2> QED  BY <2>6 DEF c, d
<1> HIDE DEF P
<1>3. Inductive(P, S)  BY <1>1, <1>2 DEF Inductive, Addable
<1>4. S \in P  BY <1>3, FiniteInduction
<1> QED  BY <1>4 DEF P

-----------------------------------------------------------------------------
(* The calibration error (section 4b)                                      *)

LEMMA AbsFacts ==
    /\ \A x \in Int : AbsValue(x) \in Int /\ x <= AbsValue(x) /\ -x <= AbsValue(x) /\ AbsValue(x) >= 0
    /\ \A x, y \in Int : x <= y /\ -x <= y => AbsValue(x) <= y
BY DEF AbsValue

LEMMA SumAbs ==
    ASSUME NEW f, NEW g, NEW S, Addable(f, S), \A x \in S : g[x] = AbsValue(f[x])
    PROVE  /\ Addable(g, S)
           /\ AbsValue(SumFunctionOnSet(f, S)) <= SumFunctionOnSet(g, S)
<1> DEFINE P == {U \in SUBSET S :
                    AbsValue(SumFunctionOnSet(f, U)) <= SumFunctionOnSet(g, U)}
<1>1. {} \in P
  <2>1. AbsValue(0) = 0  BY DEF AbsValue
  <2> QED  BY <2>1, SumEmpty
<1>5. Addable(g, S)  BY AbsFacts DEF Addable
<1>2. ASSUME NEW U \in SUBSET S, NEW x \in S, U \in P, x \notin U
      PROVE  U \cup {x} \in P
  <2>1. Addable(f, U) /\ Addable(g, U) /\ f[x] \in Int /\ g[x] \in Int /\ g[x] = AbsValue(f[x])
    BY <1>5, FS_Subset DEF Addable
  <2>2. SumFunctionOnSet(f, U \cup {x}) = f[x] + SumFunctionOnSet(f, U)  BY <1>2, <2>1, SumAdd
  <2>3. SumFunctionOnSet(g, U \cup {x}) = g[x] + SumFunctionOnSet(g, U)  BY <1>2, <2>1, SumAdd
  <2>4. SumFunctionOnSet(f, U) \in Int /\ SumFunctionOnSet(g, U) \in Int  BY <2>1, SumType
  <2>5. AbsValue(SumFunctionOnSet(f, U)) <= SumFunctionOnSet(g, U)  BY <1>2
  <2>6. ASSUME NEW a \in Int, NEW b \in Int, NEW p \in Int,
               AbsValue(a) <= b
        PROVE  AbsValue(p + a) <= AbsValue(p) + b
    BY <2>6 DEF AbsValue
  <2>7. AbsValue(f[x] + SumFunctionOnSet(f, U)) <= AbsValue(f[x]) + SumFunctionOnSet(g, U)
    BY <2>1, <2>4, <2>5, <2>6
  <2> QED  BY <2>1, <2>2, <2>3, <2>7
<1> HIDE DEF P
<1>3. Inductive(P, S)  BY <1>1, <1>2 DEF Inductive, Addable
<1>4. S \in P  BY <1>3, FiniteInduction
<1> QED  BY <1>4, <1>5 DEF P

\* Sorting the terms of a sum into bins.
IsSorting(f, S, place, m) ==
    /\ Addable(f, S) /\ m \in Nat /\ \A x \in S : place[x] \in 0..(m - 1)

LEMMA BinsBracket ==
    ASSUME NEW f, NEW S, NEW place, NEW m, IsSorting(f, S, place, m), NEW a, NEW F,
           \A x \in S : a[x] = AbsValue(f[x]),
           \A b \in 0..(m - 1) : F[b] = AbsValue(SumFunctionOnSet(f, {x \in S : place[x] = b}))
    PROVE  /\ AbsValue(SumFunctionOnSet(f, S)) <= SumFunctionOnSet(F, 0..(m - 1))
           /\ SumFunctionOnSet(F, 0..(m - 1)) <= SumFunctionOnSet(a, S)
<1> USE DEF IsSorting
<1> DEFINE Upto(k) == {x \in S : place[x] < k}
           In(k) == {x \in S : place[x] = k}
           Good(k) ==
               /\ Addable(F, 0..(k - 1))
               /\ AbsValue(SumFunctionOnSet(f, Upto(k))) <= SumFunctionOnSet(F, 0..(k - 1))
               /\ SumFunctionOnSet(F, 0..(k - 1)) <= SumFunctionOnSet(a, Upto(k))
           K == {k \in Nat : k <= m => Good(k)}
<1>1. Addable(a, S)  BY AbsFacts DEF Addable
<1>2. \A U \in SUBSET S : Addable(f, U) /\ Addable(a, U)  BY <1>1, FS_Subset DEF Addable
<1>3. 0 \in K
  <2>1. Upto(0) = {}
    <3> SUFFICES ASSUME NEW x \in S, place[x] < 0  PROVE FALSE  OBVIOUS
    <3> QED  OBVIOUS
  <2>2. 0..(0 - 1) = {}  OBVIOUS
  <2>3. AbsValue(0) = 0 /\ Addable(F, {})  BY FS_EmptySet DEF AbsValue, Addable
  <2>4. Good(0)  BY <2>1, <2>2, <2>3, SumEmpty
  <2> QED  BY <2>4
<1>4. ASSUME NEW k \in Nat, k + 1 <= m, Good(k)  PROVE Good(k + 1)
  <2>1. Good(k)  BY <1>4
  <2>2. Upto(k + 1) = Upto(k) \cup In(k) /\ Upto(k) \cap In(k) = {}
    <3>1. ASSUME NEW x \in S
          PROVE  /\ place[x] < k + 1 <=> place[x] < k \/ place[x] = k
                 /\ ~(place[x] < k /\ place[x] = k)
      OBVIOUS
    <3> QED  BY <3>1
  <2>3. Upto(k) \in SUBSET S /\ In(k) \in SUBSET S  OBVIOUS
  <2>4. k \in 0..(m - 1) /\ k \notin 0..(k - 1) /\ 0..((k + 1) - 1) = (0..(k - 1)) \cup {k}
    BY <1>4
  <2>5. F[k] = AbsValue(SumFunctionOnSet(f, In(k)))  BY <2>4
  <2> HIDE DEF Upto, In
  <2>6. /\ Addable(f, Upto(k)) /\ Addable(f, In(k)) /\ Addable(a, Upto(k)) /\ Addable(a, In(k))
    BY <1>2, <2>3
  <2> DEFINE fu == SumFunctionOnSet(f, Upto(k))
             fi == SumFunctionOnSet(f, In(k))
             au == SumFunctionOnSet(a, Upto(k))
             ai == SumFunctionOnSet(a, In(k))
             s == SumFunctionOnSet(F, 0..(k - 1))
  <2>7. SumFunctionOnSet(f, Upto(k + 1)) = fu + fi
    <3>1. SumFunctionOnSet(f, Upto(k) \cup In(k)) = fu + fi  BY <2>2, <2>6, SumUnion
    <3> QED  BY <2>2, <3>1
  <2>8. SumFunctionOnSet(a, Upto(k + 1)) = au + ai
    <3>1. SumFunctionOnSet(a, Upto(k) \cup In(k)) = au + ai  BY <2>2, <2>6, SumUnion
    <3> QED  BY <2>2, <3>1
  <2>9. fu \in Int /\ fi \in Int /\ au \in Int /\ ai \in Int  BY <2>6, SumType
  <2>10. F[k] \in Int  BY <2>5, <2>9, AbsFacts
  <2>11. Addable(F, 0..(k - 1)) /\ s \in Int  BY <2>1, SumType
  <2>12. /\ Addable(F, 0..((k + 1) - 1))
         /\ SumFunctionOnSet(F, 0..((k + 1) - 1)) = F[k] + s
    <3> DEFINE D == 0..(k - 1)
    <3>1. k \notin D /\ Addable(F, D) /\ s = SumFunctionOnSet(F, D)  BY <2>4, <2>11
    <3>2. 0..((k + 1) - 1) = D \cup {k}  BY <2>4
    <3> HIDE DEF D, s
    <3>3. Addable(F, D \cup {k}) /\ SumFunctionOnSet(F, D \cup {k}) = F[k] + s
      BY <2>10, <3>1, SumAdd
    <3> QED  BY <3>2, <3>3
  <2>13. AbsValue(fi) <= ai
    <3>1. \A x \in In(k) : a[x] = AbsValue(f[x])  BY <2>3
    <3> QED  BY <2>6, <3>1, SumAbs
  <2>14. AbsValue(fu) <= s /\ s <= au  BY <2>1
  <2> HIDE DEF fu, fi, au, ai, s
  <2>15. AbsValue(fu + fi) <= F[k] + s /\ F[k] + s <= au + ai
    BY <2>5, <2>9, <2>11, <2>13, <2>14 DEF AbsValue, fi
  <2> QED  BY <2>7, <2>8, <2>12, <2>15
<1>8. ASSUME NEW k \in Nat, k \in K  PROVE k + 1 \in K
  <2> HIDE DEF Good
  <2> QED  BY <1>4, <1>8
<1> HIDE DEF K
<1>5. Nat \subseteq K  BY <1>3, <1>8, NumberInduction
<1>6. Good(m)
  <2>1. m \in K /\ m <= m  BY <1>5
  <2> QED  BY <2>1 DEF K
<1>7. Upto(m) = S  OBVIOUS
<1> QED  BY <1>6, <1>7

\* What the events of a trace are.
LEMMA EventFacts ==
    ASSUME NEW t, t \in Seq(Events)
    PROVE  /\ Len(t) \in Nat /\ DOMAIN t = 1..Len(t) /\ IsFiniteSet(DOMAIN t)
           /\ \A i \in DOMAIN t : t[i] \in RunEvents \cup TurnEvents \cup Companions
           /\ \A i \in DOMAIN t : t[i].kind = "run" => t[i] \in RunEvents
           /\ \A i \in DOMAIN t : t[i].kind = "turn" => t[i] \in TurnEvents
<1>1. Len(t) \in Nat /\ DOMAIN t = 1..Len(t) /\ \A i \in 1..Len(t) : t[i] \in Events
  OBVIOUS
<1>2. IsFiniteSet(1..Len(t))  BY <1>1, FS_Interval
<1>3. \A e \in Events : e \in RunEvents \cup TurnEvents \cup Companions
  BY MeasuresAssumption
<1>4. \A e \in RunEvents \cup TurnEvents \cup Companions :
         /\ e.kind = "run" => e \in RunEvents
         /\ e.kind = "turn" => e \in TurnEvents
  BY DEF RunEvents, TurnEvents, Companions
<1> QED  BY <1>1, <1>2, <1>3, <1>4

LEMMA BinType ==
    ASSUME NEW c \in 0..Certain
    PROVE  Bin(c) \in 0..(Bins - 1)
<1>1. Certain \in Nat \ {0} /\ Bins \in Nat \ {0}  BY MeasuresAssumption
<1>2. c * Bins \in Nat  BY <1>1
<1>3. (c * Bins) \div Certain \in Nat  BY <1>1, <1>2
<1> DEFINE q == (c * Bins) \div Certain
<1> HIDE DEF q
<1>4. {q, Bins - 1} \subseteq Nat /\ {q, Bins - 1} # {}  BY <1>1, <1>3 DEF q
<1>5. Min({q, Bins - 1}) \in {q, Bins - 1} /\ Min({q, Bins - 1}) <= Bins - 1
  BY <1>4, MinIsLeast
<1>6. Bin(c) = Min({q, Bins - 1})  BY DEF Bin, q
<1> QED  BY <1>1, <1>4, <1>5, <1>6

LEMMA EceBracket ==
    ASSUME NEW t, t \in Seq(Events)
    PROVE  /\ AbsValue(SumFunction(Gaps(t))) <= Ece(t)
           /\ Ece(t) <= SumFunction([i \in Guiding(t) |-> AbsValue(Gap(t, i))])
<1> DEFINE G == Guiding(t)
           f == Gaps(t)
           a == [i \in G |-> AbsValue(Gap(t, i))]
           place == [i \in G |-> Bin(t[i].confidence)]
           bin(b) == {i \in G : Bin(t[i].confidence) = b}
           F == [b \in 0..(Bins - 1) |-> AbsValue(SumFunctionOnSet(Gaps(t), bin(b)))]
<1>1. Bins \in Nat /\ Certain \in Nat  BY MeasuresAssumption
<1>2. \A i \in G : t[i] \in TurnEvents /\ i \in DOMAIN t  BY EventFacts DEF Guiding, Of
<1>3. ASSUME NEW i \in G
      PROVE  f[i] \in Int /\ a[i] = AbsValue(f[i]) /\ place[i] \in 0..(Bins - 1)
  <2>1. t[i].confidence \in 0..Certain  BY <1>2 DEF TurnEvents
  <2>2. Score(t, i) \in Int  BY <1>1 DEF Score
  <2>3. f[i] = Gap(t, i) /\ Gap(t, i) \in Int  BY <1>1, <2>1, <2>2 DEF Gap, Gaps
  <2>4. place[i] = Bin(t[i].confidence)  OBVIOUS
  <2> QED  BY <2>1, <2>3, <2>4, BinType
<1>4. IsFiniteSet(G)
  <2>1. G \in SUBSET DOMAIN t  BY <1>2
  <2> QED  BY <2>1, EventFacts, FS_Subset
<1>5. ASSUME NEW b \in 0..(Bins - 1)
      PROVE  F[b] = AbsValue(SumFunctionOnSet(f, {i \in G : place[i] = b}))
  <2>1. {i \in G : place[i] = b} = bin(b)  OBVIOUS
  <2> QED  BY <2>1
<1>6. /\ SumFunction(Gaps(t)) = SumFunctionOnSet(f, G)
      /\ SumFunction(a) = SumFunctionOnSet(a, G)
      /\ Ece(t) = SumFunctionOnSet(F, 0..(Bins - 1))
  BY DEF SumFunction, Gaps, Ece
<1> HIDE DEF G, f, F, place, a
<1>7. IsSorting(f, G, place, Bins)  BY <1>1, <1>3, <1>4 DEF IsSorting, Addable
<1>8. /\ AbsValue(SumFunctionOnSet(f, G)) <= SumFunctionOnSet(F, 0..(Bins - 1))
      /\ SumFunctionOnSet(F, 0..(Bins - 1)) <= SumFunctionOnSet(a, G)
  BY <1>3, <1>5, <1>7, BinsBracket
<1> QED  BY <1>6, <1>8 DEF a, G

-----------------------------------------------------------------------------
(* Outcomes (section 4b)                                                   *)

\* The place of a position among others, as in Nth.
Place(I, i) == Cardinality({j \in I : j <= i})

LEMMA PickedFacts ==
    ASSUME NEW t, t \in Seq(Events), NEW I, I \subseteq DOMAIN t
    PROVE  /\ Positions(I) /\ Cardinality(I) \in Nat
           /\ Picked(t, I) \in Seq(Events) /\ Len(Picked(t, I)) = Cardinality(I)
           /\ \A n \in 1..Cardinality(I) :
                 Nth(I, n) \in I /\ Place(I, Nth(I, n)) = n /\ Picked(t, I)[n] = t[Nth(I, n)]
           /\ \A i \in I : Place(I, i) \in 1..Cardinality(I) /\ Nth(I, Place(I, i)) = i
           /\ \A m, n \in 1..Cardinality(I) : m < n <=> Nth(I, m) < Nth(I, n)
<1>1. Positions(I)
  <2>1. IsFiniteSet(I)  BY EventFacts, FS_Subset
  <2>2. I \subseteq Nat  BY EventFacts
  <2> QED  BY <2>1, <2>2 DEF Positions
<1>2. /\ Cardinality(I) \in Nat
      /\ \A n \in 1..Cardinality(I) : Nth(I, n) \in I /\ Place(I, Nth(I, n)) = n
      /\ \A i \in I : Place(I, i) \in 1..Cardinality(I) /\ Nth(I, Place(I, i)) = i
      /\ \A m, n \in 1..Cardinality(I) : m < n <=> Nth(I, m) < Nth(I, n)
  BY <1>1, NthFacts DEF Place
<1>3. \A i \in I : t[i] \in Events  BY EventFacts
<1>4. /\ DOMAIN Picked(t, I) = 1..Cardinality(I)
      /\ \A n \in 1..Cardinality(I) : Picked(t, I)[n] = t[Nth(I, n)]
  BY DEF Picked
<1>5. Picked(t, I) \in [1..Cardinality(I) -> Events]  BY <1>2, <1>3 DEF Picked
<1>6. Picked(t, I) \in Seq(Events) /\ Len(Picked(t, I)) = Cardinality(I)  BY <1>2, <1>4, <1>5
<1> QED  BY <1>1, <1>2, <1>4, <1>6

\* Metrics, and the lowest of those before a turn.
LEMMA MetricType ==
    /\ \A r \in RunEvents : Metric(r) \in Float
    /\ \A rs \in Seq(RunEvents) :
          /\ Metrics(rs) \in Seq(Float) /\ Len(Metrics(rs)) = Len(rs)
          /\ \A n \in 1..Len(rs) : Metrics(rs)[n] = Metric(rs[n])
<1>1. ASSUME NEW r \in RunEvents  PROVE Metric(r) \in Float
  <2>1. r.metric \in Float \cup {None}  BY DEF RunEvents
  <2>2. Unmeasured \in Float  BY MeasuresAssumption, FloatFacts
  <2> QED  BY <2>1, <2>2 DEF Metric
<1>2. ASSUME NEW rs \in Seq(RunEvents)
      PROVE  /\ Metrics(rs) \in Seq(Float) /\ Len(Metrics(rs)) = Len(rs)
             /\ \A n \in 1..Len(rs) : Metrics(rs)[n] = Metric(rs[n])
  <2>1. Len(rs) \in Nat /\ DOMAIN rs = 1..Len(rs) /\ \A n \in 1..Len(rs) : rs[n] \in RunEvents
    OBVIOUS
  <2>2. Metrics(rs) \in [1..Len(rs) -> Float]  BY <1>1, <2>1 DEF Metrics
  <2> QED  BY <2>1, <2>2 DEF Metrics
<1> QED  BY <1>1, <1>2

LEMMA RunMetrics ==
    ASSUME NEW t, t \in Seq(Events)
    PROVE  \A k \in Of(t, "run") : t[k] \in RunEvents /\ Metric(t[k]) \in Float /\ k \in 1..Len(t)
BY EventFacts, MetricType DEF Of

Before(t, i) == {j \in Of(t, "run") : j <= i}

\* The first run was before the turn, and its metric is not a number.
Spoilt(t, i) ==
    \E k \in Before(t, i) : Metric(t[k]) = NaN /\ \A l \in Of(t, "run") : k <= l

LEMMA PriorFacts ==
    ASSUME NEW t, t \in Seq(Events), NEW i \in DOMAIN t,
           NEW b, b = LowestOf(Metrics(Picked(t, Before(t, i))))
    PROVE  /\ b \in Float
           /\ \A y \in Float : Lower(y, b) <=>
                 /\ ~Spoilt(t, i) /\ Lower(y, PosInf)
                 /\ \A k \in Before(t, i) : Clears(y, Metric(t[k]))
<1> DEFINE B == Before(t, i)
           rs == Picked(t, B)
           xs == Metrics(rs)
<1>1. /\ B \subseteq DOMAIN t /\ B \subseteq Of(t, "run") /\ i \in Nat
      /\ \A j \in Of(t, "run") : j \in Nat /\ (j \in B <=> j <= i)
  BY EventFacts DEF Before, Of
<1>2. /\ Cardinality(B) \in Nat /\ rs \in Seq(Events) /\ Len(rs) = Cardinality(B)
      /\ \A n \in 1..Cardinality(B) : Nth(B, n) \in B /\ rs[n] = t[Nth(B, n)]
      /\ \A j \in B : Place(B, j) \in 1..Cardinality(B) /\ Nth(B, Place(B, j)) = j
      /\ \A m, n \in 1..Cardinality(B) : m < n <=> Nth(B, m) < Nth(B, n)
  BY <1>1, PickedFacts
<1> HIDE DEF B, rs
<1>3. rs \in Seq(RunEvents)
  <2>1. \A n \in 1..Len(rs) : rs[n] \in RunEvents  BY <1>1, <1>2, RunMetrics
  <2> QED  BY <1>2, <2>1
<1>4. /\ xs \in Seq(Float) /\ Len(xs) = Cardinality(B)
      /\ \A n \in 1..Cardinality(B) : xs[n] = Metric(t[Nth(B, n)])
  <2>1. xs \in Seq(Float) /\ Len(xs) = Len(rs) /\ \A n \in 1..Len(rs) : xs[n] = Metric(rs[n])
    BY <1>3, MetricType
  <2> QED  BY <1>2, <2>1
<1>5. b = LowestOf(xs)  BY DEF rs, B
<1> HIDE DEF xs
<1>6. /\ b \in Float
      /\ \A y \in Float : Lower(y, b) <=> /\ Lower(y, PosInf) /\ (xs # <<>> => xs[1] # NaN)
                                          /\ \A k \in 1..Len(xs) : Clears(y, xs[k])
  BY <1>4, <1>5, LowestOfFacts
<1>7. ASSUME NEW y
      PROVE  (\A n \in 1..Len(xs) : Clears(y, xs[n])) <=> \A k \in B : Clears(y, Metric(t[k]))
  BY <1>2, <1>4
<1>8. (xs # <<>> => xs[1] # NaN) <=> ~Spoilt(t, i)
  <2>1. xs = <<>> <=> Cardinality(B) = 0  BY <1>2, <1>4
  <2>2. ASSUME xs # <<>>
        PROVE  Nth(B, 1) \in B /\ \A l \in Of(t, "run") : Nth(B, 1) <= l
    <3>1. 1 \in 1..Cardinality(B)  BY <1>2, <2>1, <2>2
    <3>2. Nth(B, 1) \in B  BY <1>2, <3>1
    <3>3. ASSUME NEW l \in B  PROVE Nth(B, 1) <= l
      <4>1. Place(B, l) \in 1..Cardinality(B) /\ Nth(B, Place(B, l)) = l  BY <1>2
      <4>2. ~(Place(B, l) < 1) /\ l \in Nat /\ Nth(B, 1) \in Nat  BY <1>1, <1>2, <3>2, <4>1
      <4> QED  BY <1>2, <3>1, <4>1, <4>2
    <3>4. ASSUME NEW l \in Of(t, "run"), l \notin B  PROVE Nth(B, 1) <= l
      <4>1. Nth(B, 1) \in Nat /\ Nth(B, 1) <= i /\ l \in Nat /\ ~(l <= i)  BY <1>1, <3>2, <3>4
      <4> QED  BY <1>1, <4>1
    <3> QED  BY <3>2, <3>3, <3>4
  <2>3. ASSUME xs # <<>>  PROVE xs[1] = NaN <=> Spoilt(t, i)
    <3>1. 1 \in 1..Cardinality(B) /\ xs[1] = Metric(t[Nth(B, 1)])  BY <1>2, <1>4, <2>1, <2>3
    <3>2. ASSUME Spoilt(t, i)  PROVE xs[1] = NaN
      <4>1. PICK k \in B : Metric(t[k]) = NaN /\ \A l \in Of(t, "run") : k <= l
        BY <3>2 DEF Spoilt, B
      <4>2. k <= Nth(B, 1) /\ Nth(B, 1) <= k /\ k \in Nat /\ Nth(B, 1) \in Nat
        BY <1>1, <2>2, <2>3, <4>1
      <4>3. k = Nth(B, 1)  BY <4>2
      <4> QED  BY <3>1, <4>1, <4>3
    <3>3. ASSUME xs[1] = NaN  PROVE Spoilt(t, i)  BY <2>2, <2>3, <3>1, <3>3 DEF Spoilt, B
    <3> QED  BY <3>2, <3>3
  <2>4. ASSUME Spoilt(t, i)  PROVE xs # <<>>
    <3>1. PICK k \in B : TRUE  BY <2>4 DEF Spoilt, B
    <3>2. Place(B, k) \in 1..Cardinality(B)  BY <1>2
    <3> QED  BY <1>2, <2>1, <3>2
  <2> QED  BY <2>3, <2>4
<1> QED  BY <1>6, <1>7, <1>8 DEF B

\* The runs after a turn, and whether one of them is progress over all before it.
Pursuit(t, i) == {j \in Of(t, "run") : j > i}
Horizon(t, i) == Min({Window, Cardinality(Pursuit(t, i))})
Progress(t, i, j) ==
    \/ GoalMet(t[j])
    \/ /\ ~Spoilt(t, i) /\ Lower(Metric(t[j]), PosInf)
       /\ \A k \in Of(t, "run") : k < j => Clears(Metric(t[j]), Metric(t[k]))

Verdicts == [hit : BOOLEAN, best : Float]
Weighed(t, i) ==
    [p \in (1..Horizon(t, i)) \X Verdicts |->
        LET r == t[Nth(Pursuit(t, i), p[1])]
        IN [hit |-> p[2].hit \/ Improves(r, p[2].best), best |-> Lesser(p[2].best, Metric(r))]]
AtFirst(t, i) == [hit |-> FALSE, best |-> LowestOf(Metrics(Picked(t, Before(t, i))))]

LEMMA PursuitFacts ==
    ASSUME NEW t, t \in Seq(Events), NEW i \in DOMAIN t
    PROVE  /\ Cardinality(Pursuit(t, i)) \in Nat
           /\ Horizon(t, i) \in 0..Cardinality(Pursuit(t, i)) /\ Horizon(t, i) <= Window
           /\ Horizon(t, i) = Window \/ Horizon(t, i) = Cardinality(Pursuit(t, i))
           /\ Horizon(t, i) = 0 <=> Pursuit(t, i) = {}
           /\ Following(t, i) \in Seq(Events)
           /\ Len(Following(t, i)) = Horizon(t, i)
           /\ \A n \in 1..Horizon(t, i) : Following(t, i)[n] = t[Nth(Pursuit(t, i), n)]
<1> DEFINE P == Pursuit(t, i)
           N == Cardinality(P)
           m == Horizon(t, i)
           later == Picked(t, P)
<1>1. P \subseteq DOMAIN t  BY DEF Pursuit, Of
<1> HIDE DEF P
<1>2. /\ N \in Nat /\ later \in Seq(Events) /\ Len(later) = N
      /\ \A n \in 1..N : later[n] = t[Nth(P, n)]
  BY <1>1, PickedFacts
<1>3. Window \in Nat \ {0}  BY MeasuresAssumption
<1>4. {Window, N} \subseteq Nat /\ {Window, N} # {}  BY <1>2, <1>3
<1>5. m = Min({Window, N})  BY DEF Horizon, P
<1> HIDE DEF m, N
<1>6. m \in {Window, N} /\ m <= Window /\ m <= N  BY <1>4, <1>5, MinIsLeast
<1>7. m \in 0..N  BY <1>2, <1>3, <1>6 DEF N
<1>8. m = 0 <=> P = {}
  <2>1. N = 0 <=> P = {}
    <3>1. IsFiniteSet(P)  BY <1>1, PickedFacts DEF Positions
    <3> QED  BY <3>1, FS_EmptySet DEF N
  <2> QED  BY <1>2, <1>3, <1>6, <2>1
<1>9. Following(t, i) = SubSeq(later, 1, m)
  BY <1>2, <1>5 DEF Following, Pursuit, P
<1> HIDE DEF later
<1>10. /\ Following(t, i) \in Seq(Events) /\ Len(Following(t, i)) = m
       /\ \A n \in 1..m : Following(t, i)[n] = later[n]
  BY <1>2, <1>7, <1>9
<1> QED  BY <1>2, <1>6, <1>7, <1>8, <1>10 DEF N, m, P

LEMMA WeighedType ==
    ASSUME NEW t, t \in Seq(Events), NEW i \in DOMAIN t
    PROVE  /\ AtFirst(t, i) \in Verdicts
           /\ Weighed(t, i) \in [(1..Horizon(t, i)) \X Verdicts -> Verdicts]
<1>1. \A j \in Of(t, "run") : t[j] \in RunEvents /\ Metric(t[j]) \in Float  BY RunMetrics
<1>2. AtFirst(t, i) \in Verdicts  BY PriorFacts DEF AtFirst, Verdicts
<1>3. ASSUME NEW n \in 1..Horizon(t, i), NEW v \in Verdicts
      PROVE  LET r == t[Nth(Pursuit(t, i), n)]
             IN  [hit |-> v.hit \/ Improves(r, v.best), best |-> Lesser(v.best, Metric(r))] \in Verdicts
  <2> DEFINE r == t[Nth(Pursuit(t, i), n)]
  <2>1. Nth(Pursuit(t, i), n) \in Of(t, "run")
    <3>1. Pursuit(t, i) \subseteq DOMAIN t /\ Pursuit(t, i) \subseteq Of(t, "run")
      BY DEF Pursuit, Of
    <3>2. n \in 1..Cardinality(Pursuit(t, i))  BY PursuitFacts
    <3> QED  BY <3>1, <3>2, PickedFacts
  <2>2. r \in RunEvents /\ Metric(r) \in Float  BY <1>1, <2>1
  <2> HIDE DEF r
  <2>3. GoalMet(r) \in BOOLEAN  BY <2>2 DEF GoalMet, RunEvents
  <2>4. v.best \in Float /\ v.hit \in BOOLEAN  BY DEF Verdicts
  <2>6. Lesser(v.best, Metric(r)) \in Float  BY <2>2, <2>4, LesserFacts
  <2>7. (v.hit \/ Improves(r, v.best)) \in BOOLEAN  BY <2>3, <2>4 DEF Improves
  <2>8. [hit |-> v.hit \/ Improves(r, v.best), best |-> Lesser(v.best, Metric(r))] \in Verdicts
    BY <2>6, <2>7 DEF Verdicts
  <2> QED  BY <2>8 DEF r
<1>4. Weighed(t, i) \in [(1..Horizon(t, i)) \X Verdicts -> Verdicts]
  BY <1>3 DEF Weighed
<1> QED  BY <1>2, <1>4

LEMMA OutcomeChain ==
    ASSUME NEW t, t \in Seq(Events), NEW i \in DOMAIN t
    PROVE  /\ Pursuit(t, i) = {} => Outcome(t, i) = None
           /\ Pursuit(t, i) # {} =>
                 \E c : /\ IsChain(c, Horizon(t, i), Verdicts, AtFirst(t, i), Weighed(t, i))
                        /\ Outcome(t, i) = c[Horizon(t, i)].hit
<1> DEFINE m == Horizon(t, i)
           G == Following(t, i)
           V == Verdicts
           base == AtFirst(t, i)
           st == Weighed(t, i)
           body(f) == [s \in SUBSET DOMAIN G |->
                          IF s = {} THEN [hit |-> FALSE, best |-> LowestOf(Metrics(Picked(t, {j \in Of(t, "run") : j <= i})))]
                          ELSE [hit |-> f[s \ {Max(s)}].hit \/ Improves(G[Max(s)], f[s \ {Max(s)}].best),
                                best |-> Lesser(f[s \ {Max(s)}].best, Metric(G[Max(s)]))]]
           iter == CHOOSE f : f = body(f)
<1>1. /\ m \in Nat /\ G \in Seq(Events) /\ Len(G) = m
      /\ m = 0 <=> Pursuit(t, i) = {}
      /\ \A n \in 1..m : G[n] = t[Nth(Pursuit(t, i), n)]
  BY PursuitFacts
<1>2. G = <<>> <=> m = 0  BY <1>1
<1>3. Outcome(t, i) = IF G = <<>> THEN None ELSE iter[DOMAIN G].hit
  BY DEF Outcome, FoldLeft, MapThenFoldSet
<1>4. DOMAIN G = 1..m  BY <1>1
<1>5. base \in V /\ st \in [(1..m) \X V -> V]  BY WeighedType
<1> HIDE DEF m, G, V, base, st
<1>13. PICK f : IsFoldTable(f, m, V, base, st)
  <2>1. Foldable(m, V, base, st)  BY <1>1, <1>5 DEF Foldable
  <2> QED  BY <2>1, FoldExists
<1>6. /\ f \in [SUBSET (1..m) -> V]
      /\ \A s \in SUBSET (1..m) :
            f[s] = IF s = {} THEN base ELSE st[<<Max(s), f[s \ {Max(s)}]>>]
  BY <1>13 DEF IsFoldTable
<1>7. ASSUME NEW s \in SUBSET (1..m), s # {}, NEW v \in V
      PROVE  st[<<Max(s), v>>] = [hit |-> v.hit \/ Improves(G[Max(s)], v.best),
                                  best |-> Lesser(v.best, Metric(G[Max(s)]))]
  <2>1. Max(s) \in 1..m
    <3>1. s \subseteq 0..m /\ m \in Nat  BY <1>1
    <3>2. Max(s) \in s  BY <1>7, <3>1, MaxIsMember
    <3> QED  BY <3>2
  <2>2. st[<<Max(s), v>>] =
           [hit |-> v.hit \/ Improves(t[Nth(Pursuit(t, i), Max(s))], v.best),
            best |-> Lesser(v.best, Metric(t[Nth(Pursuit(t, i), Max(s))]))]
    BY <2>1 DEF Weighed, m, V, st
  <2>3. G[Max(s)] = t[Nth(Pursuit(t, i), Max(s))]  BY <1>1, <2>1
  <2> QED  BY <2>2, <2>3
<1>8. f = body(f)
  <2>1. ASSUME NEW s \in SUBSET (1..m), s # {}  PROVE s \ {Max(s)} \in SUBSET (1..m)  OBVIOUS
  <2>2. ASSUME NEW s \in SUBSET (1..m)
        PROVE  f[s] = IF s = {} THEN base
                      ELSE [hit |-> f[s \ {Max(s)}].hit \/ Improves(G[Max(s)], f[s \ {Max(s)}].best),
                            best |-> Lesser(f[s \ {Max(s)}].best, Metric(G[Max(s)]))]
    <3>1. CASE s = {}  BY <1>6, <3>1
    <3>2. CASE s # {}
      <4>1. f[s \ {Max(s)}] \in V  BY <1>6, <2>1, <3>2
      <4>2. f[s] = st[<<Max(s), f[s \ {Max(s)}]>>]  BY <1>6, <3>2
      <4> QED  BY <1>7, <3>2, <4>1, <4>2
    <3> QED  BY <3>1, <3>2
  <2>3. f = [s \in SUBSET (1..m) |-> f[s]]  BY <1>6
  <2> QED  BY <1>4, <2>2, <2>3, Zenon DEF base, AtFirst, Before
<1> HIDE DEF body
<1>9. iter = body(iter)  BY <1>8
<1> HIDE DEF iter
<1>10. \A s \in SUBSET (1..m) :
          iter[s] = IF s = {} THEN base
                      ELSE [hit |-> iter[s \ {Max(s)}].hit \/ Improves(G[Max(s)], iter[s \ {Max(s)}].best),
                            best |-> Lesser(iter[s \ {Max(s)}].best, Metric(G[Max(s)]))]
  <2>1. \A s \in SUBSET (1..m) : body(iter)[s] = IF s = {} THEN base
                      ELSE [hit |-> iter[s \ {Max(s)}].hit \/ Improves(G[Max(s)], iter[s \ {Max(s)}].best),
                            best |-> Lesser(iter[s \ {Max(s)}].best, Metric(G[Max(s)]))]
    BY <1>4, Zenon DEF body, base, AtFirst, Before
  <2> QED  BY <1>9, <2>1, Zenon
<1>11. IsFold(iter, m, V, base, st)
  <2>1. iter[{}] = base  BY <1>10
  <2>2. ASSUME NEW s \in SUBSET (1..m), s # {}, iter[s \ {Max(s)}] \in V
        PROVE  iter[s] = st[<<Max(s), iter[s \ {Max(s)}]>>]
    BY <1>7, <1>10, <2>2
  <2> QED  BY <1>1, <1>5, <2>1, <2>2 DEF IsFold, Foldable, m
<1>12. \E c : IsChain(c, m, V, base, st) /\ c[m] = iter[1..m]  BY <1>11, FoldIsChain
<1> QED  BY <1>1, <1>2, <1>3, <1>4, <1>12 DEF m, V, base, st

\* The runs weighed after n runs of the pursuit.
Weighing(t, i, n) ==
    {k \in Of(t, "run") : k <= i \/ (k \in Pursuit(t, i) /\ Place(Pursuit(t, i), k) <= n)}

\* The verdict after n runs.
VerdictIs(t, i, n, v) ==
    /\ v \in Verdicts
    /\ v.hit <=> \E k \in 1..n : Progress(t, i, Nth(Pursuit(t, i), k))
    /\ \A x \in Float : Lower(x, v.best) <=>
          /\ ~Spoilt(t, i) /\ Lower(x, PosInf)
          /\ \A k \in Weighing(t, i, n) : Clears(x, Metric(t[k]))

LEMMA VerdictStep ==
    ASSUME NEW t, t \in Seq(Events), NEW i \in DOMAIN t, NEW n \in Nat, n + 1 \in 1..Horizon(t, i),
           NEW v, VerdictIs(t, i, n, v)
    PROVE  VerdictIs(t, i, n + 1, Weighed(t, i)[<<n + 1, v>>])
<1> DEFINE P == Pursuit(t, i)
           j == Nth(P, n + 1)
           r == t[j]
           w == Weighed(t, i)[<<n + 1, v>>]
<1>1. n + 1 \in 1..Cardinality(P) /\ Cardinality(P) \in Nat  BY PursuitFacts
<1>2. P \subseteq DOMAIN t /\ P \subseteq Of(t, "run")  BY DEF Pursuit, Of
<1>3. /\ j \in P /\ Place(P, j) = n + 1
      /\ \A k \in P : Place(P, k) \in 1..Cardinality(P) /\ Nth(P, Place(P, k)) = k
      /\ \A a, b \in 1..Cardinality(P) : a < b <=> Nth(P, a) < Nth(P, b)
  BY <1>1, <1>2, PickedFacts
<1>4. r \in RunEvents /\ Metric(r) \in Float /\ j \in 1..Len(t) /\ j > i
  BY <1>2, <1>3, RunMetrics DEF Pursuit
<1>5. v \in Verdicts /\ v.best \in Float /\ v.hit \in BOOLEAN
  BY DEF VerdictIs, Verdicts
<1>6. w = [hit |-> v.hit \/ Improves(r, v.best), best |-> Lesser(v.best, Metric(r))]
  BY <1>5 DEF Weighed
<1>7. w \in Verdicts  BY <1>5, WeighedType
<1> HIDE DEF w
<1>8. Weighing(t, i, n) = {k \in Of(t, "run") : k < j}
  <2> SUFFICES ASSUME NEW k \in Of(t, "run")
               PROVE  (k <= i \/ (k \in P /\ Place(P, k) <= n)) <=> k < j
    BY DEF Weighing
  <2>1. k \in Nat /\ i \in Nat /\ j \in Nat  BY <1>4, RunMetrics, EventFacts
  <2>2. CASE k <= i  BY <1>4, <2>1, <2>2
  <2>3. CASE k > i
    <3>1. k \in P  BY <2>3 DEF Pursuit
    <3>2. Place(P, k) \in 1..Cardinality(P) /\ Nth(P, Place(P, k)) = k  BY <1>3, <3>1
    <3>3. Place(P, k) < n + 1 <=> k < j
      <4> HIDE DEF P
      <4> QED  BY <1>1, <1>3, <3>2
    <3>4. Place(P, k) <= n <=> Place(P, k) < n + 1  BY <1>1, <3>2
    <3> QED  BY <2>1, <2>3, <3>1, <3>3, <3>4
  <2> QED  BY <2>1, <2>2, <2>3
<1>9. Improves(r, v.best) <=> Progress(t, i, j)
  <2>1. Lower(Metric(r), v.best) <=>
           /\ ~Spoilt(t, i) /\ Lower(Metric(r), PosInf)
           /\ \A k \in Weighing(t, i, n) : Clears(Metric(r), Metric(t[k]))
    BY <1>4 DEF VerdictIs
  <2> QED  BY <1>8, <2>1 DEF Improves, Progress
<1>10. w.hit <=> \E k \in 1..(n + 1) : Progress(t, i, Nth(P, k))
  <2>1. w.hit <=> v.hit \/ Progress(t, i, j)  BY <1>6, <1>9
  <2>2. v.hit <=> \E k \in 1..n : Progress(t, i, Nth(P, k))  BY DEF VerdictIs
  <2>3. 1..(n + 1) = (1..n) \cup {n + 1}  OBVIOUS
  <2> QED  BY <2>1, <2>2, <2>3
<1>11. Weighing(t, i, n + 1) = Weighing(t, i, n) \cup {j}
  <2> SUFFICES ASSUME NEW k \in Of(t, "run")
               PROVE  (k <= i \/ (k \in P /\ Place(P, k) <= n + 1))
                      <=> (k <= i \/ (k \in P /\ Place(P, k) <= n)) \/ k = j
    BY <1>2, <1>3 DEF Weighing
  <2>1. k \in P => Place(P, k) \in Nat  BY <1>3
  <2>2. k \in P /\ Place(P, k) = n + 1 => k = j  BY <1>3
  <2>3. k = j => k \in P /\ Place(P, k) = n + 1  BY <1>3
  <2>4. k \in P => (Place(P, k) <= n + 1 <=> Place(P, k) <= n \/ Place(P, k) = n + 1)  BY <2>1
  <2>5. k = j => k \in P /\ Place(P, k) <= n + 1  BY <2>3
  <2> HIDE DEF P, j
  <2> QED  BY <2>2, <2>4, <2>5
<1>12. ASSUME NEW x \in Float
       PROVE  Lower(x, w.best) <=>
                 /\ ~Spoilt(t, i) /\ Lower(x, PosInf)
                 /\ \A k \in Weighing(t, i, n + 1) : Clears(x, Metric(t[k]))
  <2>1. w.best = Lesser(v.best, Metric(r))  BY <1>6
  <2>2. Lower(x, w.best) <=> Lower(x, v.best) /\ Clears(x, Metric(r))
    BY <1>4, <1>5, <2>1, LesserFacts
  <2>3. Lower(x, v.best) <=> /\ ~Spoilt(t, i) /\ Lower(x, PosInf)
                             /\ \A k \in Weighing(t, i, n) : Clears(x, Metric(t[k]))
    BY DEF VerdictIs
  <2> QED  BY <1>11, <2>2, <2>3
<1> QED  BY <1>7, <1>10, <1>12 DEF VerdictIs, w

\* Whether the student progressed after a turn, read off the trace.
LEMMA OutcomeIs ==
    ASSUME NEW t, t \in Seq(Events), NEW i \in DOMAIN t
    PROVE  Outcome(t, i) = IF Pursuit(t, i) = {} THEN None
                           ELSE \E j \in Pursuit(t, i) :
                                   Place(Pursuit(t, i), j) <= Window /\ Progress(t, i, j)
<1> DEFINE P == Pursuit(t, i)
           m == Horizon(t, i)
<1>1. /\ m \in 0..Cardinality(P) /\ Cardinality(P) \in Nat /\ m <= Window
      /\ m = Window \/ m = Cardinality(P)
  BY PursuitFacts
<1>2. P = {} => Outcome(t, i) = None  BY OutcomeChain
<1>3. ASSUME P # {}
      PROVE  Outcome(t, i) = \E j \in P : Place(P, j) <= Window /\ Progress(t, i, j)
  <2>1. PICK c : IsChain(c, m, Verdicts, AtFirst(t, i), Weighed(t, i)) /\ Outcome(t, i) = c[m].hit
    BY <1>3, OutcomeChain
  <2> DEFINE K == {n \in Nat : n <= m => VerdictIs(t, i, n, c[n])}
  <2>2. 0 \in K
    <3>1. c[0] = AtFirst(t, i) /\ c[0] \in Verdicts
      <4>1. c[0] = AtFirst(t, i)  BY <2>1 DEF IsChain
      <4>2. AtFirst(t, i) \in Verdicts  BY WeighedType
      <4> QED  BY <4>1, <4>2
    <3>2. c[0].hit = FALSE /\ c[0].best = LowestOf(Metrics(Picked(t, Before(t, i))))
      BY <3>1 DEF AtFirst
    <3>3. Weighing(t, i, 0) = Before(t, i)
      <4>1. \A k \in P : Place(P, k) \in 1..Cardinality(P)
        <5>1. P \subseteq DOMAIN t  BY DEF Pursuit, Of
        <5> QED  BY <5>1, PickedFacts
      <4>2. \A k \in P : ~(Place(P, k) <= 0)  BY <4>1
      <4> QED  BY <4>2 DEF Weighing, Before
    <3>4. \A x \in Float : Lower(x, c[0].best) <=>
             /\ ~Spoilt(t, i) /\ Lower(x, PosInf)
             /\ \A k \in Weighing(t, i, 0) : Clears(x, Metric(t[k]))
      BY <3>2, <3>3, PriorFacts
    <3>5. ~\E k \in 1..0 : Progress(t, i, Nth(P, k))  OBVIOUS
    <3>6. VerdictIs(t, i, 0, c[0])  BY <3>1, <3>2, <3>4, <3>5 DEF VerdictIs
    <3> QED  BY <3>6
  <2>3. ASSUME NEW n \in Nat, n \in K  PROVE n + 1 \in K
    <3> SUFFICES ASSUME n + 1 <= m  PROVE VerdictIs(t, i, n + 1, c[n + 1])  OBVIOUS
    <3>1. n + 1 \in 1..m /\ n <= m  BY <1>1
    <3>2. VerdictIs(t, i, n, c[n])  BY <2>3, <3>1
    <3>3. c[n + 1] = Weighed(t, i)[<<n + 1, c[n]>>]
      <4>1. (n + 1) - 1 = n  OBVIOUS
      <4> QED  BY <2>1, <3>1, <4>1 DEF IsChain
    <3> QED  BY <3>1, <3>2, <3>3, VerdictStep
  <2> HIDE DEF K
  <2>4. Nat \subseteq K  BY <2>2, <2>3, NumberInduction
  <2>5. VerdictIs(t, i, m, c[m])
    <3>1. m \in Nat /\ m <= m  BY <1>1
    <3>2. m \in K  BY <2>4, <3>1
    <3> QED  BY <3>1, <3>2 DEF K
  <2>6. c[m].hit \in BOOLEAN /\ (c[m].hit <=> \E k \in 1..m : Progress(t, i, Nth(P, k)))
    BY <2>5 DEF VerdictIs, Verdicts
  <2>7. (\E k \in 1..m : Progress(t, i, Nth(P, k)))
        <=> \E j \in P : Place(P, j) <= Window /\ Progress(t, i, j)
    <3>1. /\ P \subseteq DOMAIN t
          /\ \A k \in 1..Cardinality(P) : Nth(P, k) \in P /\ Place(P, Nth(P, k)) = k
          /\ \A j \in P : Place(P, j) \in 1..Cardinality(P) /\ Nth(P, Place(P, j)) = j
      <4>1. P \subseteq DOMAIN t  BY DEF Pursuit, Of
      <4> QED  BY <4>1, PickedFacts
    <3> HIDE DEF P, m
    <3>2. ASSUME NEW k \in 1..m, Progress(t, i, Nth(P, k))
          PROVE  \E j \in P : Place(P, j) <= Window /\ Progress(t, i, j)
      <4>1. k \in 1..Cardinality(P) /\ k <= Window
        <5>1. Window \in Nat  BY MeasuresAssumption
        <5> QED  BY <1>1, <5>1
      <4> QED  BY <3>1, <3>2, <4>1
    <3>3. ASSUME NEW j \in P, Place(P, j) <= Window, Progress(t, i, j)
          PROVE  \E k \in 1..m : Progress(t, i, Nth(P, k))
      <4>1. Place(P, j) \in 1..m  BY <1>1, <3>1, <3>3
      <4> QED  BY <3>1, <3>3, <4>1
    <3> QED  BY <3>2, <3>3
  <2> QED  BY <2>1, <2>6, <2>7
<1> QED  BY <1>2, <1>3

LEMMA OutcomesAreProgress ==
    ASSUME trace \in Seq(Events)
    PROVE  OutcomeIsProgress
<1> SUFFICES ASSUME NEW i \in DOMAIN trace
             PROVE  LET near == {j \in RunsBetween(trace, i, Len(trace)) :
                                    Cardinality(RunsBetween(trace, i, j)) <= Window}
                        spoilt == \E k \in RunsBetween(trace, 0, i) :
                                     RunsBetween(trace, 0, k) = {k} /\ Metric(trace[k]) = NaN
                        progress(j) == /\ ~spoilt /\ Lower(Metric(trace[j]), PosInf)
                                       /\ \A k \in RunsBetween(trace, 0, j - 1) :
                                             Clears(Metric(trace[j]), Metric(trace[k]))
                    IN  Outcome(trace, i) =
                           IF near = {} THEN None
                           ELSE \E j \in near : GoalMet(trace[j]) \/ progress(j)
  BY DEF OutcomeIsProgress
<1> DEFINE P == Pursuit(trace, i)
           near == {j \in RunsBetween(trace, i, Len(trace)) :
                       Cardinality(RunsBetween(trace, i, j)) <= Window}
           spoilt == \E k \in RunsBetween(trace, 0, i) :
                        RunsBetween(trace, 0, k) = {k} /\ Metric(trace[k]) = NaN
           progress(j) == /\ ~spoilt /\ Lower(Metric(trace[j]), PosInf)
                          /\ \A k \in RunsBetween(trace, 0, j - 1) :
                                Clears(Metric(trace[j]), Metric(trace[k]))
<1>1. Len(trace) \in Nat /\ DOMAIN trace = 1..Len(trace) /\ i \in 1..Len(trace)
  BY EventFacts
<1>2. RunsBetween(trace, i, Len(trace)) = P
  BY <1>1 DEF RunsBetween, Pursuit, Of, IsRun
<1>3. ASSUME NEW j \in P  PROVE Cardinality(RunsBetween(trace, i, j)) = Place(P, j)
  <2>1. j \in 1..Len(trace)  BY <1>1 DEF Pursuit, Of
  <2>2. RunsBetween(trace, i, j) = {k \in P : k <= j}
    BY <1>1, <2>1 DEF RunsBetween, Pursuit, Of, IsRun
  <2> QED  BY <2>2 DEF Place
<1>11. spoilt <=> Spoilt(trace, i)
  <2>1. RunsBetween(trace, 0, i) = Before(trace, i)
    BY <1>1 DEF RunsBetween, Before, Of, IsRun
  <2>2. ASSUME NEW k \in Before(trace, i)
        PROVE  RunsBetween(trace, 0, k) = {k} <=> \A l \in Of(trace, "run") : k <= l
    <3>1. k \in 1..Len(trace) /\ k \in Of(trace, "run")  BY <1>1 DEF Before, Of
    <3>2. RunsBetween(trace, 0, k) = {l \in Of(trace, "run") : l <= k}
      BY <1>1, <3>1 DEF RunsBetween, Of, IsRun
    <3>3. \A l \in Of(trace, "run") : l \in Nat  BY <1>1 DEF Of
    <3>4. ASSUME RunsBetween(trace, 0, k) = {k}, NEW l \in Of(trace, "run")  PROVE k <= l
      <4>1. l <= k => l = k  BY <3>2, <3>4
      <4> QED  BY <3>1, <3>3, <4>1
    <3>5. ASSUME \A l \in Of(trace, "run") : k <= l  PROVE RunsBetween(trace, 0, k) = {k}
      <4>1. \A l \in Of(trace, "run") : l <= k => l = k  BY <3>1, <3>3, <3>5
      <4>2. k <= k  BY <3>1
      <4> QED  BY <3>1, <3>2, <4>1, <4>2
    <3> QED  BY <3>4, <3>5
  <2> QED  BY <2>1, <2>2 DEF Spoilt
<1> HIDE DEF spoilt
<1>4. ASSUME NEW j \in P  PROVE GoalMet(trace[j]) \/ progress(j) <=> Progress(trace, i, j)
  <2>1. j \in 1..Len(trace)  BY <1>1 DEF Pursuit, Of
  <2>2. RunsBetween(trace, 0, j - 1) = {k \in Of(trace, "run") : k < j}
    BY <1>1, <2>1 DEF RunsBetween, Of, IsRun
  <2> QED  BY <1>11, <2>2 DEF Progress
<1>5. P \subseteq DOMAIN trace  BY DEF Pursuit, Of
<1> HIDE DEF P
<1>6. near = {j \in P : Place(P, j) <= Window}  BY <1>2, <1>3
<1>7. near = {} <=> P = {}
  <2> SUFFICES ASSUME P # {}  PROVE near # {}  BY <1>6
  <2>1. Cardinality(P) # 0 /\ Cardinality(P) \in Nat
    <3>1. IsFiniteSet(P) /\ Cardinality(P) \in Nat  BY <1>5, PickedFacts DEF Positions
    <3> QED  BY <3>1, FS_EmptySet
  <2>2. 1 \in 1..Cardinality(P)  BY <2>1
  <2>3. Nth(P, 1) \in P /\ Place(P, Nth(P, 1)) = 1  BY <1>5, <2>2, PickedFacts
  <2>4. Window \in Nat \ {0}  BY MeasuresAssumption
  <2> QED  BY <1>6, <2>3, <2>4
<1>8. (\E j \in near : GoalMet(trace[j]) \/ progress(j))
      <=> \E j \in P : Place(P, j) <= Window /\ Progress(trace, i, j)
  BY <1>4, <1>6
<1>9. Outcome(trace, i) = IF P = {} THEN None
                           ELSE \E j \in P : Place(P, j) <= Window /\ Progress(trace, i, j)
  BY OutcomeIs DEF P
<1> HIDE DEF near, progress
<1>10. Outcome(trace, i) = IF near = {} THEN None
                           ELSE \E j \in near : GoalMet(trace[j]) \/ progress(j)
  BY <1>7, <1>8, <1>9
<1> QED  BY <1>10 DEF near, progress, spoilt

-----------------------------------------------------------------------------
(* What settles while the trace grows                                      *)

\* The trace one event later.
Grown(t, u) == \E e \in Events : u = Append(t, e)

LEMMA GrownFacts ==
    ASSUME NEW t, t \in Seq(Events), NEW u, Grown(t, u)
    PROVE  /\ u \in Seq(Events) /\ Len(u) = Len(t) + 1 /\ Len(t) \in Nat
           /\ DOMAIN t = 1..Len(t) /\ DOMAIN u = DOMAIN t \cup {Len(t) + 1}
           /\ \A i \in DOMAIN t : u[i] = t[i]
           /\ \A k : Of(u, k) = Of(t, k) \/ Of(u, k) = Of(t, k) \cup {Len(t) + 1}
           /\ \A k : \A i \in DOMAIN t : i \in Of(u, k) <=> i \in Of(t, k)
<1>1. PICK e \in Events : u = Append(t, e)  BY DEF Grown
<1>2. /\ u \in Seq(Events) /\ Len(u) = Len(t) + 1 /\ Len(t) \in Nat
      /\ DOMAIN t = 1..Len(t) /\ DOMAIN u = 1..(Len(t) + 1)
      /\ \A i \in 1..Len(t) : u[i] = t[i]
  BY <1>1
<1>3. DOMAIN u = DOMAIN t \cup {Len(t) + 1}  BY <1>2
<1> QED  BY <1>2, <1>3 DEF Of

\* A later position leaves the places and the n-th ones before it alone.
Later(t, u, I, J) ==
    /\ t \in Seq(Events) /\ Grown(t, u)
    /\ I \subseteq DOMAIN t /\ J = I \cup {Len(t) + 1}

LEMMA LaterPosition ==
    ASSUME NEW t, NEW u, NEW I, NEW J, Later(t, u, I, J)
    PROVE  /\ J \subseteq DOMAIN u /\ Cardinality(J) = Cardinality(I) + 1
           /\ \A i \in I : Place(J, i) = Place(I, i)
           /\ Place(J, Len(t) + 1) = Cardinality(I) + 1
           /\ \A n \in 1..Cardinality(I) : Nth(J, n) = Nth(I, n)
<1> USE DEF Later
<1>1. /\ Len(t) \in Nat /\ DOMAIN t = 1..Len(t) /\ DOMAIN u = DOMAIN t \cup {Len(t) + 1}
      /\ u \in Seq(Events)
  BY GrownFacts
<1>2. \A i \in I : i \in Nat /\ i < Len(t) + 1  BY <1>1
<1>3. Len(t) + 1 \notin I  BY <1>1, <1>2
<1>4. IsFiniteSet(I) /\ Cardinality(I) \in Nat  BY PickedFacts DEF Positions
<1>5. Cardinality(J) = Cardinality(I) + 1  BY <1>3, <1>4, FS_AddElement
<1>6. J \subseteq DOMAIN u  BY <1>1
<1>7. ASSUME NEW i \in I  PROVE Place(J, i) = Place(I, i)
  <2>1. ~(Len(t) + 1 <= i)  BY <1>1, <1>2
  <2>2. {j \in J : j <= i} = {j \in I : j <= i}  BY <2>1
  <2> QED  BY <2>2 DEF Place
<1>8. Place(J, Len(t) + 1) = Cardinality(I) + 1
  <2>1. \A j \in J : j <= Len(t) + 1  BY <1>1, <1>2
  <2>2. {j \in J : j <= Len(t) + 1} = J  BY <2>1
  <2> QED  BY <1>5, <2>2 DEF Place
<1>9. ASSUME NEW n \in 1..Cardinality(I)  PROVE Nth(J, n) = Nth(I, n)
  <2>1. Nth(I, n) \in I /\ Place(I, Nth(I, n)) = n  BY PickedFacts
  <2>2. Place(J, Nth(I, n)) = n /\ Nth(I, n) \in J  BY <1>7, <2>1
  <2>3. \A i \in J : Nth(J, Place(J, i)) = i  BY <1>1, <1>6, PickedFacts
  <2> QED  BY <2>2, <2>3
<1> QED  BY <1>5, <1>6, <1>7, <1>8, <1>9

LEMMA PursuitGrows ==
    ASSUME NEW t, t \in Seq(Events), NEW u, Grown(t, u), NEW i \in DOMAIN t
    PROVE  /\ i \in DOMAIN u
           /\ \/ Pursuit(u, i) = Pursuit(t, i)
              \/ Pursuit(u, i) = Pursuit(t, i) \cup {Len(t) + 1}
           /\ \A j \in Pursuit(t, i) : /\ Place(Pursuit(u, i), j) = Place(Pursuit(t, i), j)
                                       /\ Progress(u, i, j) <=> Progress(t, i, j)
           /\ \A j \in Pursuit(u, i) : j \in Pursuit(t, i) \/
                                       Place(Pursuit(u, i), j) = Cardinality(Pursuit(t, i)) + 1
<1>1. /\ Len(t) \in Nat /\ DOMAIN t = 1..Len(t) /\ DOMAIN u = DOMAIN t \cup {Len(t) + 1}
      /\ \A k \in DOMAIN t : u[k] = t[k] /\ (k \in Of(u, "run") <=> k \in Of(t, "run"))
      /\ \/ Of(u, "run") = Of(t, "run")
         \/ Of(u, "run") = Of(t, "run") \cup {Len(t) + 1}
  BY GrownFacts
<1>2. Pursuit(u, i) = Pursuit(t, i) \/ Pursuit(u, i) = Pursuit(t, i) \cup {Len(t) + 1}
  <2>1. Len(t) + 1 > i  BY <1>1
  <2> QED  BY <1>1, <2>1 DEF Pursuit
<1>3. Pursuit(t, i) \subseteq DOMAIN t  BY DEF Pursuit, Of
<1>4. ASSUME NEW j \in Pursuit(t, i)
      PROVE  Progress(u, i, j) <=> Progress(t, i, j)
  <2>4. Before(u, i) = Before(t, i)
    <3>1. \A k \in DOMAIN u : k <= i => k \in DOMAIN t  BY <1>1
    <3> QED  BY <1>1, <3>1 DEF Before, Of
  <2>5. Spoilt(u, i) <=> Spoilt(t, i)
    <3>1. ASSUME NEW k \in Before(t, i)
          PROVE  (\A l \in Of(u, "run") : k <= l) <=> \A l \in Of(t, "run") : k <= l
      <4>1. k \in 1..Len(t)  BY <1>1 DEF Before, Of
      <4>2. k <= Len(t) + 1  BY <1>1, <4>1
      <4> QED  BY <1>1, <4>2
    <3>2. \A k \in Before(t, i) : u[k] = t[k]  BY <1>1 DEF Before, Of
    <3> QED  BY <2>4, <3>1, <3>2 DEF Spoilt
  <2>1. j \in 1..Len(t)  BY <1>1, <1>3
  <2>2. \A k \in Of(u, "run") : k < j => k \in DOMAIN t
    <3>1. \A k \in Of(u, "run") : k \in DOMAIN u  BY DEF Of
    <3> QED  BY <1>1, <2>1, <3>1
  <2>3. \A k \in Of(t, "run") : k \in DOMAIN t  BY DEF Of
  <2> QED  BY <1>1, <2>1, <2>2, <2>3, <2>5 DEF Progress
<1>5. ASSUME NEW j \in Pursuit(t, i)
      PROVE  Place(Pursuit(u, i), j) = Place(Pursuit(t, i), j)
  <2>1. CASE Pursuit(u, i) = Pursuit(t, i)  BY <2>1
  <2>2. CASE Pursuit(u, i) = Pursuit(t, i) \cup {Len(t) + 1}
    <3>1. Later(t, u, Pursuit(t, i), Pursuit(u, i))  BY <1>3, <2>2 DEF Later
    <3> QED  BY <3>1, LaterPosition
  <2> QED  BY <1>2, <2>1, <2>2
<1>6. ASSUME NEW j \in Pursuit(u, i), j \notin Pursuit(t, i)
      PROVE  Place(Pursuit(u, i), j) = Cardinality(Pursuit(t, i)) + 1
  <2>1. Pursuit(u, i) = Pursuit(t, i) \cup {Len(t) + 1} /\ j = Len(t) + 1  BY <1>2, <1>6
  <2>2. Later(t, u, Pursuit(t, i), Pursuit(u, i))  BY <1>3, <2>1 DEF Later
  <2> QED  BY <2>1, <2>2, LaterPosition
<1> QED  BY <1>1, <1>2, <1>4, <1>5, <1>6

LEMMA OutcomeSettles ==
    ASSUME NEW t, t \in Seq(Events), NEW u, Grown(t, u), NEW i \in DOMAIN t, Settled(t, i)
    PROVE  Outcome(u, i) = Outcome(t, i)
<1> DEFINE P == Pursuit(t, i)
           Q == Pursuit(u, i)
<1>1. u \in Seq(Events) /\ i \in DOMAIN u  BY GrownFacts, PursuitGrows
<1>2. Outcome(t, i) = IF P = {} THEN None
                      ELSE \E j \in P : Place(P, j) <= Window /\ Progress(t, i, j)
  BY OutcomeIs
<1>3. Outcome(u, i) = IF Q = {} THEN None
                      ELSE \E j \in Q : Place(Q, j) <= Window /\ Progress(u, i, j)
  BY <1>1, OutcomeIs
<1>4. /\ P \subseteq Q
      /\ \A j \in P : Place(Q, j) = Place(P, j) /\ (Progress(u, i, j) <=> Progress(t, i, j))
      /\ \A j \in Q : j \in P \/ Place(Q, j) = Cardinality(P) + 1
  BY PursuitGrows
<1>5. Window \in Nat \ {0} /\ None \notin BOOLEAN  BY MeasuresAssumption
<1>6. /\ Len(Following(t, i)) = Horizon(t, i) /\ Cardinality(P) \in Nat
      /\ Horizon(t, i) <= Cardinality(P) /\ Horizon(t, i) \in Nat
      /\ Horizon(t, i) = 0 <=> P = {}
  BY PursuitFacts
<1> HIDE DEF P, Q
<1>7. CASE Outcome(t, i) = TRUE
  <2>1. P # {}
    <3> SUFFICES ASSUME P = {}  PROVE FALSE  OBVIOUS
    <3>1. Outcome(t, i) = None  BY <1>2
    <3> QED  BY <1>5, <1>7, <3>1
  <2>2. \E j \in P : Place(P, j) <= Window /\ Progress(t, i, j)  BY <1>2, <1>7, <2>1
  <2>3. \E j \in Q : Place(Q, j) <= Window /\ Progress(u, i, j)  BY <1>4, <2>2
  <2> QED  BY <1>3, <1>4, <1>7, <2>1, <2>3
<1>8. CASE Len(Following(t, i)) = Window
  <2>1. P # {} /\ Window <= Cardinality(P)  BY <1>5, <1>6, <1>8
  <2>2. \A j \in Q : Place(Q, j) <= Window => j \in P
    <3>1. ~(Cardinality(P) + 1 <= Window)  BY <1>5, <1>6, <2>1
    <3> QED  BY <1>4, <3>1
  <2>3. (\E j \in P : Place(P, j) <= Window /\ Progress(t, i, j))
        <=> \E j \in Q : Place(Q, j) <= Window /\ Progress(u, i, j)
    BY <1>4, <2>2
  <2>4. Q # {}  BY <1>4, <2>1
  <2> DEFINE X == \E j \in P : Place(P, j) <= Window /\ Progress(t, i, j)
             Y == \E j \in Q : Place(Q, j) <= Window /\ Progress(u, i, j)
  <2>5. Outcome(t, i) = X /\ Outcome(u, i) = Y  BY <1>2, <1>3, <2>1, <2>4
  <2>6. X = Y  BY <2>3
  <2> HIDE DEF X, Y
  <2> QED  BY <2>5, <2>6
<1> QED  BY <1>7, <1>8 DEF Settled

LEMMA RunsGrow ==
    ASSUME NEW t, t \in Seq(Events), NEW u, Grown(t, u)
    PROVE  /\ Cardinality(Of(t, "run")) \in Nat /\ Cardinality(Of(u, "run")) \in Nat
           /\ Cardinality(Of(t, "run")) <= Cardinality(Of(u, "run"))
           /\ Len(Kind(t, "run")) = Cardinality(Of(t, "run"))
           /\ Len(Kind(u, "run")) = Cardinality(Of(u, "run"))
           /\ Kind(t, "run") \in Seq(Events) /\ Kind(u, "run") \in Seq(Events)
           /\ \A n \in 1..Cardinality(Of(t, "run")) :
                 /\ Nth(Of(t, "run"), n) \in Of(t, "run")
                 /\ Nth(Of(u, "run"), n) = Nth(Of(t, "run"), n)
                 /\ Kind(u, "run")[n] = Kind(t, "run")[n]
<1> DEFINE R == Of(t, "run")
           Q == Of(u, "run")
<1>1. /\ u \in Seq(Events) /\ Len(t) \in Nat /\ DOMAIN t = 1..Len(t)
      /\ Q = R \/ Q = R \cup {Len(t) + 1}
      /\ \A i \in DOMAIN t : u[i] = t[i]
  BY GrownFacts
<1>2. R \subseteq DOMAIN t /\ Q \subseteq DOMAIN u  BY DEF Of
<1>3. /\ Cardinality(R) \in Nat /\ Len(Kind(t, "run")) = Cardinality(R)
      /\ Kind(t, "run") \in Seq(Events)
      /\ \A n \in 1..Cardinality(R) : Nth(R, n) \in R /\ Kind(t, "run")[n] = t[Nth(R, n)]
  BY <1>2, PickedFacts DEF Kind
<1>4. /\ Cardinality(Q) \in Nat /\ Len(Kind(u, "run")) = Cardinality(Q)
      /\ Kind(u, "run") \in Seq(Events)
      /\ \A n \in 1..Cardinality(Q) : Kind(u, "run")[n] = u[Nth(Q, n)]
  BY <1>1, <1>2, PickedFacts DEF Kind
<1> HIDE DEF R, Q
<1>5. /\ Cardinality(R) <= Cardinality(Q)
      /\ \A n \in 1..Cardinality(R) : Nth(Q, n) = Nth(R, n)
  <2>1. CASE Q = R  BY <1>3, <2>1
  <2>2. CASE Q = R \cup {Len(t) + 1}
    <3>1. Later(t, u, R, Q)  BY <1>2, <2>2 DEF Later
    <3>2. /\ Cardinality(Q) = Cardinality(R) + 1
          /\ \A n \in 1..Cardinality(R) : Nth(Q, n) = Nth(R, n)
      BY <3>1, LaterPosition
    <3> QED  BY <1>3, <3>2
  <2> QED  BY <1>1, <2>1, <2>2
<1>6. ASSUME NEW n \in 1..Cardinality(R)
      PROVE  /\ Nth(R, n) \in R /\ Nth(Q, n) = Nth(R, n)
             /\ Kind(u, "run")[n] = Kind(t, "run")[n]
  <2>1. n \in 1..Cardinality(Q)  BY <1>3, <1>4, <1>5
  <2>2. Nth(R, n) \in DOMAIN t  BY <1>2, <1>3
  <2> QED  BY <1>1, <1>3, <1>4, <1>5, <2>1, <2>2
<1> QED  BY <1>3, <1>4, <1>5, <1>6 DEF R, Q

LEMMA CountsSettle ==
    ASSUME NEW t, t \in Seq(Events), NEW u, Grown(t, u), SolvedAt(Kind(t, "run")) # {}
    PROVE  /\ AttemptsToSolve(Kind(u, "run")) = AttemptsToSolve(Kind(t, "run"))
           /\ TurnsToSolve(u) = TurnsToSolve(t)
<1> DEFINE N == Cardinality(Of(t, "run"))
           S == SolvedAt(Kind(t, "run"))
           T == SolvedAt(Kind(u, "run"))
<1>1. /\ N \in Nat /\ Len(Kind(t, "run")) = N
      /\ N <= Len(Kind(u, "run")) /\ Len(Kind(u, "run")) \in Nat
      /\ DOMAIN Kind(t, "run") = 1..N /\ DOMAIN Kind(u, "run") = 1..Len(Kind(u, "run"))
      /\ \A n \in 1..N : /\ Kind(u, "run")[n] = Kind(t, "run")[n]
                         /\ Nth(Of(t, "run"), n) \in Of(t, "run")
                         /\ Nth(Of(u, "run"), n) = Nth(Of(t, "run"), n)
  <2>1. /\ Kind(t, "run") \in Seq(Events) /\ Kind(u, "run") \in Seq(Events)
        /\ Len(Kind(t, "run")) = N /\ Len(Kind(u, "run")) = Cardinality(Of(u, "run"))
        /\ N \in Nat /\ Cardinality(Of(u, "run")) \in Nat /\ N <= Cardinality(Of(u, "run"))
    BY RunsGrow
  <2>2. /\ DOMAIN Kind(t, "run") = 1..Len(Kind(t, "run"))
        /\ DOMAIN Kind(u, "run") = 1..Len(Kind(u, "run"))
    BY <2>1
  <2> QED  BY <2>1, <2>2, RunsGrow
<1> HIDE DEF N
<1>2. S \subseteq 1..N /\ S # {} /\ T \subseteq Nat  BY <1>1 DEF SolvedAt
<1>3. \A n \in 1..N : n \in T <=> n \in S  BY <1>1 DEF SolvedAt
<1> HIDE DEF S, T
<1>4. Min(S) \in S /\ \A y \in S : Min(S) <= y
  <2>1. S \subseteq Nat  BY <1>2
  <2> QED  BY <1>2, <2>1, MinIsLeast
<1>5. Min(S) \in T /\ Min(S) \in 1..N  BY <1>2, <1>3, <1>4
<1>6. Min(T) \in T /\ \A y \in T : Min(T) <= y
  <2>1. T # {}  BY <1>5
  <2> QED  BY <1>2, <2>1, MinIsLeast
<1>7. Min(T) = Min(S)
  <2>1. Min(T) <= Min(S) /\ Min(T) \in Nat  BY <1>2, <1>5, <1>6
  <2>2. Min(T) # 0
    <3>1. \A n \in T : n \in DOMAIN Kind(u, "run")  BY DEF T, SolvedAt
    <3> QED  BY <1>1, <1>6, <3>1
  <2>3. Min(T) \in 1..N  BY <1>1, <1>5, <2>1, <2>2
  <2>4. Min(S) <= Min(T)  BY <1>3, <1>4, <1>6, <2>3
  <2> QED  BY <1>1, <1>5, <2>1, <2>4
<1>8. FirstSolve(Kind(u, "run")) = Min(S) /\ FirstSolve(Kind(t, "run")) = Min(S) /\ T # {}
  BY <1>5, <1>7 DEF FirstSolve, S, T
<1>9. AttemptsToSolve(Kind(u, "run")) = AttemptsToSolve(Kind(t, "run"))
  BY <1>2, <1>8 DEF AttemptsToSolve, S, T
<1>10. TurnsToSolve(u) = TurnsToSolve(t)
  <2> DEFINE cut == Nth(Of(t, "run"), Min(S))
  <2>1. cut \in Of(t, "run") /\ Nth(Of(u, "run"), Min(S)) = cut  BY <1>1, <1>5
  <2> HIDE DEF cut
  <2>2. TurnsToSolve(t) = Cardinality({i \in Of(t, "turn") : i < cut})
    BY <1>2, <1>8 DEF TurnsToSolve, S, cut
  <2>3. TurnsToSolve(u) = Cardinality({i \in Of(u, "turn") : i < cut})
    BY <1>8, <2>1 DEF TurnsToSolve, T
  <2>4. {i \in Of(u, "turn") : i < cut} = {i \in Of(t, "turn") : i < cut}
    <3>1. /\ Len(t) \in Nat /\ DOMAIN t = 1..Len(t) /\ DOMAIN u = DOMAIN t \cup {Len(t) + 1}
          /\ \A i \in DOMAIN t : i \in Of(u, "turn") <=> i \in Of(t, "turn")
      BY GrownFacts
    <3>2. cut \in 1..Len(t)  BY <2>1, <3>1 DEF Of
    <3>3. \A i \in Of(u, "turn") : i < cut => i \in DOMAIN t
      <4>1. \A i \in Of(u, "turn") : i \in DOMAIN u  BY DEF Of
      <4> QED  BY <3>1, <3>2, <4>1
    <3>4. \A i \in Of(t, "turn") : i \in DOMAIN t  BY DEF Of
    <3> QED  BY <3>1, <3>3, <3>4
  <2> QED  BY <2>2, <2>3, <2>4
<1> QED  BY <1>9, <1>10

LEMMA AbstentionsSettle ==
    ASSUME NEW t, t \in Seq(Events), NEW u, Grown(t, u)
    PROVE  /\ FalseAbstentions(t) \subseteq FalseAbstentions(u)
           /\ \A i \in WarrantedAbstentions(t) :
                 i \in FalseAbstentions(u) => Len(Following(t, i)) < Window
<1>1. /\ \A i \in DOMAIN t : u[i] = t[i] /\ (i \in Of(u, "turn") <=> i \in Of(t, "turn"))
      /\ \A i \in Of(t, "turn") : i \in DOMAIN t
  <2>1. \A i \in Of(t, "turn") : i \in DOMAIN t  BY DEF Of
  <2> QED  BY <2>1, GrownFacts
<1>2. \A i \in DOMAIN t : i \in AbstainedAt(u) <=> i \in AbstainedAt(t)
  BY <1>1 DEF AbstainedAt
<1>3. \A i \in AbstainedAt(t) : i \in DOMAIN t  BY <1>1 DEF AbstainedAt
<1>4. ASSUME NEW i \in FalseAbstentions(t)  PROVE i \in FalseAbstentions(u)
  <2>1. i \in DOMAIN t /\ i \in AbstainedAt(u) /\ Outcome(t, i) = TRUE
    BY <1>2, <1>3 DEF FalseAbstentions
  <2>2. Settled(t, i)  BY <2>1 DEF Settled
  <2>3. Outcome(u, i) = TRUE  BY <2>1, <2>2, OutcomeSettles
  <2> QED  BY <2>1, <2>3 DEF FalseAbstentions
<1>5. ASSUME NEW i \in WarrantedAbstentions(t), i \in FalseAbstentions(u)
      PROVE  Len(Following(t, i)) < Window
  <2>1. i \in DOMAIN t /\ Outcome(t, i) # TRUE /\ Outcome(u, i) = TRUE
    BY <1>3, <1>5 DEF WarrantedAbstentions, FalseAbstentions
  <2>2. Len(Following(t, i)) # Window  BY <2>1, OutcomeSettles DEF Settled
  <2>3. /\ Len(Following(t, i)) = Horizon(t, i) /\ Horizon(t, i) <= Window
        /\ Horizon(t, i) \in Nat
    BY <2>1, PursuitFacts
  <2>4. Window \in Nat  BY MeasuresAssumption
  <2> QED  BY <2>2, <2>3, <2>4
<1> QED  BY <1>4, <1>5

-----------------------------------------------------------------------------
(* The class of a span (section 5)                                         *)

\* The sums of the first terms.
IsRunningSum(p, f, n) ==
    /\ n \in Nat /\ p \in [0..n -> Int] /\ p[0] = 0
    /\ \A k \in 0..(n - 1) : f[k + 1] \in Int /\ p[k + 1] = p[k] + f[k + 1]

LEMMA RunningSum ==
    ASSUME NEW f, NEW n \in Nat, \A i \in 1..n : f[i] \in Int
    PROVE  \E p : IsRunningSum(p, f, n) /\ p[n] = SumFunctionOnSet(f, 1..n)
<1> DEFINE p == [k \in 0..n |-> SumFunctionOnSet(f, 1..k)]
<1>1. ASSUME NEW k \in 0..n  PROVE Addable(f, 1..k) /\ SumFunctionOnSet(f, 1..k) \in Int
  <2>1. IsFiniteSet(1..k)  BY FS_Interval
  <2>2. \A i \in 1..k : f[i] \in Int  OBVIOUS
  <2>3. Addable(f, 1..k)  BY <2>1, <2>2 DEF Addable
  <2> QED  BY <2>3, SumType
<1>2. p \in [0..n -> Int]  BY <1>1
<1>3. p[0] = 0
  <2>1. 1..0 = {} /\ 0 \in 0..n  OBVIOUS
  <2> QED  BY <2>1, SumEmpty
<1>4. ASSUME NEW k \in 0..(n - 1)
      PROVE  f[k + 1] \in Int /\ p[k + 1] = p[k] + f[k + 1]
  <2>1. k + 1 \in 1..n /\ k \in 0..n /\ k + 1 \in 0..n /\ k \in Int  OBVIOUS
  <2>2. k + 1 \notin 1..k /\ 1..(k + 1) = (1..k) \cup {k + 1}  BY <2>1
  <2> DEFINE D == 1..k
             x == k + 1
  <2>3. Addable(f, D) /\ f[x] \in Int  BY <1>1, <2>1
  <2>4. p[x] = SumFunctionOnSet(f, 1..x) /\ p[k] = SumFunctionOnSet(f, D)  BY <2>1
  <2>5. x \notin D /\ 1..x = D \cup {x}  BY <2>2
  <2>6. SumFunctionOnSet(f, D) \in Int  BY <1>1, <2>1
  <2> HIDE DEF D, x, p
  <2>7. SumFunctionOnSet(f, D \cup {x}) = f[x] + SumFunctionOnSet(f, D)
    BY <2>3, <2>5, SumAdd
  <2>9. p[x] = SumFunctionOnSet(f, D \cup {x})  BY <2>4, <2>5
  <2> DEFINE q == SumFunctionOnSet(f, D)
             y == f[x]
  <2>10. p[x] = y + q /\ p[k] = q /\ y \in Int /\ q \in Int  BY <2>3, <2>4, <2>6, <2>7, <2>9
  <2> HIDE DEF q, y
  <2>11. p[x] = p[k] + y  BY <2>10
  <2>8. p[x] = p[k] + f[x]  BY <2>11 DEF y
  <2> QED  BY <2>3, <2>8 DEF x
<1>5. p[n] = SumFunctionOnSet(f, 1..n)  OBVIOUS
<1> HIDE DEF p
<1> QED  BY <1>2, <1>3, <1>4, <1>5 DEF IsRunningSum

\* One step of the slope.
LEMMA SlopeStep ==
    ASSUME NEW n \in Int, NEW a \in Int, NEW c \in Int, NEW s \in Int, NEW x \in Int
    PROVE  (n + 1) * (a + n * x) - (c + n) * (s + x)
           = (n * a - c * s) - (n * s - a - (n * n - c) * x)
OBVIOUS

LEMMA SlopeGap ==
    ASSUME NEW n \in Int, NEW k \in Int, NEW a \in Int, NEW c \in Int, NEW s \in Int,
           NEW x \in Int, NEW y \in Int
    PROVE  n * (s + y) - (a + k * y) - (n * (k + 1) - (c + k)) * x
           = (n * s - a - (n * k - c) * x) + (n - k) * (y - x)
OBVIOUS

LEMMA Products ==
    /\ \A a, b \in Int : a >= 0 /\ b >= 0 => a * b >= 0
    /\ \A a, b \in Int : a > 0 /\ b > 0 => a * b > 0
OBVIOUS

\* The least-squares slope over numbers that never rise, and end below the first.
Falling(v) ==
    /\ v \in Seq(Int) /\ Len(v) > 0
    /\ \A i, j \in 1..Len(v) : i <= j => v[j] <= v[i]
    /\ v[Len(v)] < v[1]

LEMMA SlopeIsNegative ==
    ASSUME NEW v, Falling(v)
    PROVE  Slope(v) < 0 /\ Slope(v) \in Int
<1> DEFINE n == Len(v)
           av == [i \in DOMAIN v |-> (i - 1) * v[i]]
           tv == [i \in DOMAIN v |-> i - 1]
<1>1. n \in Nat /\ DOMAIN v = 1..n /\ n > 0 /\ \A i \in 1..n : v[i] \in Int  BY DEF Falling
<1>2. /\ DOMAIN av = 1..n /\ DOMAIN tv = 1..n
      /\ \A i \in 1..n : av[i] = (i - 1) * v[i] /\ tv[i] = i - 1
      /\ \A i \in 1..n : av[i] \in Int /\ tv[i] \in Int
  BY <1>1
<1>3. Slope(v) = n * SumFunctionOnSet(av, 1..n)
                 - SumFunctionOnSet(tv, 1..n) * SumFunctionOnSet(v, 1..n)
  BY <1>1 DEF Slope, SumFunction
<1> HIDE DEF n, av, tv
<1>4. PICK s : IsRunningSum(s, v, n) /\ s[n] = SumFunctionOnSet(v, 1..n)  BY <1>1, RunningSum
<1>5. PICK a : IsRunningSum(a, av, n) /\ a[n] = SumFunctionOnSet(av, 1..n)
  BY <1>1, <1>2, RunningSum
<1>6. PICK c : IsRunningSum(c, tv, n) /\ c[n] = SumFunctionOnSet(tv, 1..n)
  BY <1>1, <1>2, RunningSum
<1>7. ASSUME NEW k \in 0..n
      PROVE  s[k] \in Int /\ a[k] \in Int /\ c[k] \in Int
  BY <1>4, <1>5, <1>6 DEF IsRunningSum
<1>8. ASSUME NEW k \in 0..(n - 1)
      PROVE  /\ v[k + 1] \in Int
             /\ s[k + 1] = s[k] + v[k + 1] /\ a[k + 1] = a[k] + k * v[k + 1]
             /\ c[k + 1] = c[k] + k
  <2>1. k + 1 \in 1..n /\ (k + 1) - 1 = k  BY <1>1
  <2>2. /\ s[k + 1] = s[k] + v[k + 1] /\ a[k + 1] = a[k] + av[k + 1]
        /\ c[k + 1] = c[k] + tv[k + 1]
    BY <1>4, <1>5, <1>6 DEF IsRunningSum
  <2>3. av[k + 1] = k * v[k + 1] /\ tv[k + 1] = k  BY <1>2, <2>1
  <2> QED  BY <1>1, <2>1, <2>2, <2>3
<1>9. s[0] = 0 /\ a[0] = 0 /\ c[0] = 0  BY <1>4, <1>5, <1>6 DEF IsRunningSum
<1> DEFINE B(m, k, x) == m * s[k] - a[k] - (m * k - c[k]) * x
           D(k) == k * a[k] - c[k] * s[k]
<1>10. ASSUME NEW m \in 1..n, NEW x \in Int, \A i \in 1..m : x <= v[i]
       PROVE  B(m, m, x) >= 0 /\ (x < v[1] => B(m, m, x) > 0)
  <2> DEFINE K == {k \in Nat : k + 1 <= m => /\ B(m, k + 1, x) >= 0
                                             /\ x < v[1] => B(m, k + 1, x) > 0}
  <2>1. ASSUME NEW k \in 0..(m - 1)
        PROVE  /\ B(m, k + 1, x) = B(m, k, x) + (m - k) * (v[k + 1] - x)
               /\ B(m, k, x) \in Int /\ v[k + 1] - x >= 0 /\ v[k + 1] \in Int /\ m - k > 0
    <3>1. k \in 0..(n - 1) /\ k + 1 \in 1..m /\ k \in 0..n /\ k \in Int /\ m \in Int  BY <1>1
    <3>2. s[k] \in Int /\ a[k] \in Int /\ c[k] \in Int /\ v[k + 1] \in Int  BY <1>7, <1>8, <3>1
    <3>3. B(m, k + 1, x) = m * (s[k] + v[k + 1]) - (a[k] + k * v[k + 1])
                           - (m * (k + 1) - (c[k] + k)) * x
      BY <1>8, <3>1
    <3>4. m * (s[k] + v[k + 1]) - (a[k] + k * v[k + 1]) - (m * (k + 1) - (c[k] + k)) * x
          = (m * s[k] - a[k] - (m * k - c[k]) * x) + (m - k) * (v[k + 1] - x)
      BY <3>1, <3>2, SlopeGap
    <3>5. B(m, k, x) \in Int  BY <3>1, <3>2
    <3>6. v[k + 1] - x >= 0 /\ m - k > 0  BY <1>10, <3>1, <3>2
    <3> QED  BY <3>2, <3>3, <3>4, <3>5, <3>6
  <2>2. 0 \in K
    <3>1. 0 \in 0..(m - 1) /\ m \in Int /\ m > 0  OBVIOUS
    <3>2. B(m, 0, x) = 0  BY <1>9, <3>1
    <3> HIDE DEF B
    <3>3. B(m, 0 + 1, x) = 0 + (m - 0) * (v[0 + 1] - x) /\ v[0 + 1] - x >= 0 /\ v[0 + 1] \in Int
      BY <2>1, <3>1, <3>2
    <3>4. B(m, 0 + 1, x) = m * (v[1] - x) /\ v[1] - x >= 0 /\ v[1] \in Int  BY <3>1, <3>3
    <3>5. m * (v[1] - x) >= 0 /\ (x < v[1] => m * (v[1] - x) > 0)
      <4>1. v[1] - x \in Int /\ (x < v[1] => v[1] - x > 0)  BY <3>4
      <4> QED  BY <3>1, <3>4, <4>1, Products
    <3> QED  BY <3>4, <3>5
  <2>3. ASSUME NEW k \in Nat, k \in K  PROVE k + 1 \in K
    <3> HIDE DEF B
    <3> SUFFICES ASSUME (k + 1) + 1 <= m
                 PROVE  B(m, (k + 1) + 1, x) >= 0 /\ (x < v[1] => B(m, (k + 1) + 1, x) > 0)
      OBVIOUS
    <3>1. k + 1 \in 0..(m - 1)  OBVIOUS
    <3> DEFINE e == (m - (k + 1)) * (v[(k + 1) + 1] - x)
               b == B(m, k + 1, x)
    <3>2. B(m, (k + 1) + 1, x) = b + e /\ b \in Int  BY <2>1, <3>1
    <3>3. e \in Int /\ e >= 0
      <4>1. /\ v[(k + 1) + 1] - x >= 0 /\ v[(k + 1) + 1] - x \in Int
            /\ m - (k + 1) > 0 /\ m - (k + 1) \in Int
        BY <2>1, <3>1
      <4> QED  BY <4>1, Products
    <3>4. b >= 0 /\ (x < v[1] => b > 0)  BY <2>3, <3>1
    <3> HIDE DEF e, b
    <3> QED  BY <3>2, <3>3, <3>4
  <2> HIDE DEF K
  <2>4. Nat \subseteq K  BY <2>2, <2>3, NumberInduction
  <2>5. m - 1 \in K /\ (m - 1) + 1 = m  BY <2>4
  <2> HIDE DEF B
  <2> QED  BY <2>5 DEF K
<1>11. ASSUME NEW k \in 1..(n - 1)
       PROVE  D(k + 1) = D(k) - B(k, k, v[k + 1]) /\ D(k) \in Int /\ B(k, k, v[k + 1]) \in Int
  <2>1. k \in 0..(n - 1) /\ k \in 0..n /\ k \in Int  BY <1>1
  <2>2. s[k] \in Int /\ a[k] \in Int /\ c[k] \in Int /\ v[k + 1] \in Int  BY <1>7, <1>8, <2>1
  <2>3. D(k + 1) = (k + 1) * (a[k] + k * v[k + 1]) - (c[k] + k) * (s[k] + v[k + 1])
    BY <1>8, <2>1
  <2>4. (k + 1) * (a[k] + k * v[k + 1]) - (c[k] + k) * (s[k] + v[k + 1])
        = (k * a[k] - c[k] * s[k]) - (k * s[k] - a[k] - (k * k - c[k]) * v[k + 1])
    <3> DEFINE aa == a[k]
               cc == c[k]
               ss == s[k]
               x == v[k + 1]
    <3>1. k \in Int /\ aa \in Int /\ cc \in Int /\ ss \in Int /\ x \in Int  BY <2>1, <2>2
    <3> HIDE DEF aa, cc, ss, x
    <3>2. (k + 1) * (aa + k * x) - (cc + k) * (ss + x)
          = (k * aa - cc * ss) - (k * ss - aa - (k * k - cc) * x)
      BY <3>1, SlopeStep
    <3> QED  BY <3>2 DEF aa, cc, ss, x
  <2>5. D(k) \in Int /\ B(k, k, v[k + 1]) \in Int  BY <2>1, <2>2
  <2> QED  BY <2>3, <2>4, <2>5
<1> HIDE DEF B
<1>12. D(1) <= 0 /\ D(1) \in Int
  <2>1. 0 \in 0..(n - 1) /\ 1 \in 0..n  BY <1>1
  <2>2. a[0 + 1] = a[0] + 0 * v[0 + 1] /\ c[0 + 1] = c[0] + 0 /\ v[0 + 1] \in Int  BY <1>8, <2>1
  <2>3. a[1] = 0 /\ c[1] = 0 /\ s[1] \in Int  BY <1>7, <1>9, <2>1, <2>2
  <2> QED  BY <2>3
<1> HIDE DEF D
<1>13. ASSUME NEW k \in 1..(n - 1), D(k) <= 0
       PROVE  D(k + 1) <= 0 /\ (v[k + 1] < v[1] => D(k + 1) < 0)
  <2>1. k \in 1..n /\ k + 1 \in 1..n /\ v[k + 1] \in Int  BY <1>1
  <2>2. \A i \in 1..k : v[k + 1] <= v[i]
    <3>1. \A i \in 1..k : i \in 1..n /\ i <= k + 1  BY <1>1
    <3> QED  BY <2>1, <3>1 DEF Falling, n
  <2>3. B(k, k, v[k + 1]) >= 0 /\ (v[k + 1] < v[1] => B(k, k, v[k + 1]) > 0)
    BY <1>10, <2>1, <2>2
  <2> QED  BY <1>11, <1>13, <2>3
<1> DEFINE K == {k \in Nat : k + 1 <= n => D(k + 1) <= 0}
<1>14. 0 \in K  BY <1>12
<1>15. ASSUME NEW k \in Nat, k \in K  PROVE k + 1 \in K
  <2> SUFFICES ASSUME (k + 1) + 1 <= n  PROVE D((k + 1) + 1) <= 0  OBVIOUS
  <2>1. k + 1 \in 1..(n - 1)  BY <1>1
  <2>2. D(k + 1) <= 0  BY <1>1, <1>15, <2>1
  <2> QED  BY <1>13, <2>1, <2>2
<1> HIDE DEF K
<1>16. Nat \subseteq K  BY <1>14, <1>15, NumberInduction
<1>17. n # 1 /\ v[n] < v[1]  BY <1>1 DEF Falling, n
<1>18. n - 1 \in 1..(n - 1) /\ (n - 2) + 1 = n - 1 /\ n - 2 \in Nat /\ (n - 1) + 1 = n  BY <1>1, <1>17
<1>19. D(n - 1) <= 0
  <2>1. n - 2 \in K /\ (n - 2) + 1 <= n  BY <1>1, <1>16, <1>18
  <2>2. D((n - 2) + 1) <= 0  BY <2>1 DEF K
  <2> QED  BY <1>18, <2>2
<1>20. D(n) < 0
  <2>1. D((n - 1) + 1) < 0  BY <1>13, <1>17, <1>18, <1>19
  <2> QED  BY <1>18, <2>1
<1>21. D(n) \in Int
  <2>1. n \in 0..n /\ n \in Int  BY <1>1
  <2> QED  BY <1>7, <2>1 DEF D
<1> QED  BY <1>3, <1>4, <1>5, <1>6, <1>20, <1>21 DEF D

\* The runs of a trace.
LEMMA RunsFacts ==
    ASSUME NEW t, t \in Seq(Events), NEW rs, rs = Kind(t, "run")
    PROVE  rs \in Seq(RunEvents)
<1>1. Of(t, "run") \subseteq DOMAIN t  BY DEF Of
<1>2. /\ rs \in Seq(Events) /\ Len(rs) = Cardinality(Of(t, "run"))
      /\ \A n \in 1..Cardinality(Of(t, "run")) :
            Nth(Of(t, "run"), n) \in Of(t, "run") /\ rs[n] = t[Nth(Of(t, "run"), n)]
  BY <1>1, PickedFacts DEF Kind
<1>3. \A n \in 1..Len(rs) : rs[n] \in RunEvents  BY <1>2, RunMetrics
<1> QED  BY <1>2, <1>3

\* A running minimum of metrics, and what goes below it.
LEMMA BestSoFarFacts ==
    ASSUME NEW rs, rs \in Seq(RunEvents)
    PROVE  /\ \A i \in 1..Len(rs) : Metric(rs[i]) \in Float
           /\ BestSoFar(rs) \in Seq(Float) /\ Len(BestSoFar(rs)) = Len(rs)
           /\ \A i \in 1..Len(rs), y \in Float :
                 Lower(y, BestSoFar(rs)[i]) <=>
                    Lower(y, PosInf) /\ \A k \in 1..i : Clears(y, Metric(rs[k]))
           /\ \A i \in 1..Len(rs), y \in Float :
                 Lower(y, LowestOf(SubSeq(Metrics(rs), 1, i - 1))) <=>
                    /\ Lower(y, PosInf) /\ (i > 1 => Metric(rs[1]) # NaN)
                    /\ \A k \in 1..(i - 1) : Clears(y, Metric(rs[k]))
<1> DEFINE ms == Metrics(rs)
<1>1. /\ ms \in Seq(Float) /\ Len(ms) = Len(rs) /\ DOMAIN rs = 1..Len(rs) /\ Len(rs) \in Nat
      /\ \A n \in 1..Len(rs) : ms[n] = Metric(rs[n]) /\ Metric(rs[n]) \in Float
  <2>1. \A n \in 1..Len(rs) : rs[n] \in RunEvents  OBVIOUS
  <2> QED  BY <2>1, MetricType
<1> HIDE DEF ms
<1>2. ASSUME NEW i \in 0..Len(rs)
      PROVE  /\ SubSeq(ms, 1, i) \in Seq(Float) /\ Len(SubSeq(ms, 1, i)) = i
             /\ \A k \in 1..i : SubSeq(ms, 1, i)[k] = Metric(rs[k])
  <2>1. i \in Nat /\ \A k \in 1..i : k \in 1..Len(ms) /\ ms[k] \in Float  BY <1>1
  <2>2. SubSeq(ms, 1, i) = [k \in 1..i |-> ms[k]]  BY <1>1, <2>1
  <2> QED  BY <1>1, <2>1, <2>2
<1>3. ASSUME NEW i \in 1..Len(rs)
      PROVE  /\ Lowest(PosInf, SubSeq(ms, 1, i)) \in Float
             /\ \A y \in Float : Lower(y, Lowest(PosInf, SubSeq(ms, 1, i))) <=>
                   Lower(y, PosInf) /\ \A k \in 1..i : Clears(y, Metric(rs[k]))
  <2>1. i \in 0..Len(rs)  OBVIOUS
  <2> DEFINE xs == SubSeq(ms, 1, i)
  <2>2. xs \in Seq(Float) /\ Len(xs) = i /\ \A k \in 1..i : xs[k] = Metric(rs[k])  BY <1>2, <2>1
  <2> HIDE DEF xs
  <2>3. /\ Lowest(PosInf, xs) \in Float
        /\ \A y \in Float : Lower(y, Lowest(PosInf, xs)) <=>
              Lower(y, PosInf) /\ \A k \in 1..Len(xs) : Clears(y, xs[k])
    BY <2>2, FloatFacts, LowestFacts
  <2>4. /\ Lowest(PosInf, xs) \in Float
        /\ \A y \in Float : Lower(y, Lowest(PosInf, xs)) <=>
              Lower(y, PosInf) /\ \A k \in 1..i : Clears(y, Metric(rs[k]))
    BY <2>2, <2>3
  <2> QED  BY <2>4 DEF xs
<1>4. BestSoFar(rs) = [i \in 1..Len(rs) |-> Lowest(PosInf, SubSeq(ms, 1, i))]
  BY <1>1 DEF BestSoFar, ms
<1>5. BestSoFar(rs) \in [1..Len(rs) -> Float]  BY <1>3, <1>4
<1>6. ASSUME NEW i \in 1..Len(rs), NEW y \in Float
      PROVE  Lower(y, LowestOf(SubSeq(ms, 1, i - 1))) <=>
                /\ Lower(y, PosInf) /\ (i > 1 => Metric(rs[1]) # NaN)
                /\ \A k \in 1..(i - 1) : Clears(y, Metric(rs[k]))
  <2>1. i - 1 \in 0..Len(rs)  BY <1>1
  <2> DEFINE xs == SubSeq(ms, 1, i - 1)
  <2>2. /\ xs \in Seq(Float) /\ Len(xs) = i - 1
        /\ \A k \in 1..(i - 1) : xs[k] = Metric(rs[k])
    BY <1>2, <2>1
  <2> HIDE DEF xs
  <2>3. i > 1 => xs # <<>> /\ xs[1] = Metric(rs[1])
    <3>1. i > 1 => 1 \in 1..(i - 1) /\ Len(xs) # 0  BY <1>1, <2>2
    <3> QED  BY <2>2, <3>1
  <2>4. ~(i > 1) => xs = <<>>  BY <1>1, <2>2
  <2> QED  BY <2>2, <2>3, <2>4, LowestOfFacts DEF xs
<1> QED  BY <1>1, <1>3, <1>4, <1>5, <1>6 DEF ms

\* Some run is lower than all before it iff some run is lower than the first.
LEMMA ProgressIsBelowFirst ==
    ASSUME NEW rs, rs \in Seq(RunEvents)
    PROVE  HasProgress(rs) <=> BelowFirst(rs)
<1> USE BestSoFarFacts
<1>1. DOMAIN rs = 1..Len(rs) /\ Len(rs) \in Nat  OBVIOUS
<1>2. ASSUME HasProgress(rs)  PROVE BelowFirst(rs)
  <2>1. PICK i \in 1..Len(rs) :
           i > 1 /\ Lower(Metric(rs[i]), LowestOf(SubSeq(Metrics(rs), 1, i - 1)))
    BY <1>1, <1>2 DEF HasProgress
  <2>2. 1 \in 1..(i - 1) /\ Metric(rs[1]) # NaN  BY <1>1, <2>1
  <2>3. Clears(Metric(rs[i]), Metric(rs[1]))  BY <2>1, <2>2
  <2> QED  BY <1>1, <2>2, <2>3 DEF BelowFirst, Clears
<1>3. ASSUME BelowFirst(rs)  PROVE HasProgress(rs)
  <2> DEFINE S == {i \in 1..Len(rs) : Lower(Metric(rs[i]), Metric(rs[1]))}
  <2>1. S \subseteq Nat /\ S # {}  BY <1>1, <1>3 DEF BelowFirst
  <2>2. PICK i \in S : \A j \in S : i <= j
    <3> HIDE DEF S
    <3> QED  BY <2>1, LeastNumber
  <2>3. i \in 1..Len(rs) /\ 1 \in 1..Len(rs) /\ Lower(Metric(rs[i]), Metric(rs[1]))
    BY <1>1, <2>2
  <2>4. Metric(rs[1]) \in Float /\ Metric(rs[i]) \in Float /\ Metric(rs[1]) # NaN
    BY <2>3, LowerIsLess
  <2>5. i > 1  BY <1>1, <2>3, LowerIsLess
  <2>6. ASSUME NEW k \in 1..(i - 1)  PROVE Clears(Metric(rs[i]), Metric(rs[k]))
    <3>1. k \in 1..Len(rs) /\ ~(i <= k)  BY <1>1, <2>3
    <3>2. ~Lower(Metric(rs[k]), Metric(rs[1]))  BY <2>2, <3>1
    <3>3. Metric(rs[k]) \in Float  BY <3>1
    <3> QED  BY <2>3, <2>4, <3>2, <3>3, LowerOrder
  <2>7. Lower(Metric(rs[i]), PosInf)  BY <2>3, <2>4, LowerOrder
  <2> QED  BY <1>1, <2>3, <2>4, <2>5, <2>6, <2>7 DEF HasProgress
<1> QED  BY <1>2, <1>3

\* The slope follows a span that went below its first run, if it is a number.
LEMMA ProgressTurnsSlope ==
    ASSUME NEW rs, rs \in Seq(RunEvents), BelowFirst(rs)
    PROVE  Len(rs) >= 2 /\ (Lower(Slope(BestSoFar(rs)), 0) <=> SlopeIsNumber(rs))
<1> DEFINE v == BestSoFar(rs)
           M(k) == Metric(rs[k])
<1>1. DOMAIN rs = 1..Len(rs) /\ Len(rs) \in Nat  OBVIOUS
<1>2. PICK i \in 1..Len(rs) : Lower(M(i), M(1))  BY <1>1 DEF BelowFirst
<1>3. 1 \in 1..Len(rs) /\ Len(rs) > 0 /\ Len(rs) \in 1..Len(rs)  BY <1>1, <1>2
<1>4. M(1) \in Float /\ M(i) \in Float /\ M(1) # NaN
  BY <1>2, <1>3, LowerIsLess, BestSoFarFacts
<1>5. i # 1  BY <1>2, LowerIsLess
<1>6. Len(rs) >= 2  BY <1>1, <1>2, <1>5
<1>7. /\ v \in Seq(Float) /\ Len(v) = Len(rs) /\ DOMAIN v = 1..Len(rs)
      /\ \A k \in 1..Len(rs) : v[k] \in Float /\ M(k) \in Float
      /\ \A k \in 1..Len(rs), y \in Float :
            Lower(y, v[k]) <=> Lower(y, PosInf) /\ \A l \in 1..k : Clears(y, M(l))
  <2>1. v \in Seq(Float) /\ Len(v) = Len(rs)  BY BestSoFarFacts
  <2>2. \A k \in 1..Len(rs) : M(k) \in Float  BY BestSoFarFacts
  <2>3. \A k \in 1..Len(rs), y \in Float :
           Lower(y, v[k]) <=> Lower(y, PosInf) /\ \A l \in 1..k : Clears(y, M(l))
    BY BestSoFarFacts
  <2> HIDE DEF v, M
  <2> QED  BY <2>1, <2>2, <2>3
<1> HIDE DEF v, M
<1>8. \A y \in Float : Lower(y, v[1]) <=> Lower(y, M(1))
  <2>1. \A y \in Float : Lower(y, v[1]) <=> Lower(y, PosInf) /\ Clears(y, M(1))
    <3>1. 1..1 = {1}  OBVIOUS
    <3>2. \A y \in Float :
             Lower(y, v[1]) <=> Lower(y, PosInf) /\ \A l \in 1..1 : Clears(y, M(l))
      BY <1>3, <1>7
    <3> QED  BY <3>1, <3>2
  <2> QED  BY <1>4, <2>1, LowerOrder, LowerIsLess DEF Clears
<1>9. ASSUME SlopeIsNumber(rs)  PROVE Lower(Slope(v), 0)
  <2>1. M(1) # PosInf /\ \A k \in 1..Len(rs) : M(k) # NegInf
    BY <1>1, <1>9 DEF SlopeIsNumber, M
  <2>2. M(1) \in Int  BY <1>3, <1>4, <2>1, FloatFacts
  <2>3. ASSUME NEW k \in 1..Len(rs)  PROVE v[k] \in Int
    <3>1. \A l \in 1..k : l \in 1..Len(rs)  BY <1>1
    <3>2. Lower(NegInf, v[k])
      <4>1. \A l \in 1..k : Clears(NegInf, M(l))
        BY <1>7, <2>1, <3>1, LowerIsLess DEF Clears
      <4> QED  BY <1>7, <4>1, FloatFacts, LowerIsLess
    <3>3. v[k] # NaN /\ v[k] # NegInf  BY <3>2, LowerIsLess
    <3>4. v[k] # PosInf
      <4>1. 1 \in 1..k  BY <1>1
      <4>2. ~Lower(M(1), M(1)) /\ Lower(M(1), PosInf)  BY <2>2, FloatFacts, LowerIsLess
      <4>3. ~Clears(M(1), M(1))  BY <1>4, <4>2 DEF Clears
      <4>4. ~Lower(M(1), v[k])  BY <1>4, <1>7, <4>1, <4>3
      <4> QED  BY <4>2, <4>4
    <3> QED  BY <1>7, <3>3, <3>4, FloatFacts
  <2>4. v \in Seq(Int) /\ Len(v) > 0
    <3>1. v \in [1..Len(v) -> Int]  BY <1>7, <2>3
    <3> QED  BY <1>1, <1>3, <1>7, <3>1
  <2>5. ASSUME NEW a \in 1..Len(v), NEW b \in 1..Len(v), a <= b  PROVE v[b] <= v[a]
    <3>1. a \in 1..Len(rs) /\ b \in 1..Len(rs) /\ v[a] \in Int /\ v[b] \in Int
      BY <1>7, <2>3
    <3>2. \A l \in 1..a : l \in 1..b  BY <2>5
    <3>3. \A y \in Float : Lower(y, v[b]) => Lower(y, v[a])  BY <1>7, <3>1, <3>2
    <3>4. ~Lower(v[a], v[b])  BY <1>7, <3>1, <3>3, LowerIsLess
    <3> QED  BY <3>1, <3>4, LowerIsLess
  <2>6. v[Len(v)] < v[1]
    <3>1. v[1] \in Int /\ v[Len(v)] \in Int  BY <1>3, <1>7, <2>3
    <3>2. ~Lower(M(i), v[Len(v)])
      <4>1. ~Clears(M(i), M(i))  BY <1>2, LowerIsLess DEF Clears
      <4>2. i \in 1..Len(rs)  OBVIOUS
      <4> QED  BY <1>3, <1>4, <1>7, <4>1, <4>2
    <3>3. Lower(M(i), v[1])  BY <1>2, <1>4, <1>8
    <3>4. M(i) \in Int
      <4>1. M(i) # NaN /\ M(i) # PosInf  BY <1>2, <1>4, LowerIsLess, LowerOrder
      <4>2. M(i) # NegInf  BY <2>1
      <4> QED  BY <1>4, <4>1, <4>2, FloatFacts
    <3> QED  BY <3>1, <3>2, <3>3, <3>4, LowerIsLess
  <2>7. Falling(v)  BY <2>4, <2>5, <2>6 DEF Falling
  <2>8. Slope(v) < 0 /\ Slope(v) \in Int  BY <2>7, SlopeIsNegative
  <2> QED  BY <2>8, LowerIsLess
<1>10. ASSUME ~SlopeIsNumber(rs)  PROVE ~Lower(Slope(v), 0)
  <2>1. M(1) = PosInf \/ \E k \in 1..Len(rs) : M(k) = NegInf
    BY <1>1, <1>10 DEF SlopeIsNumber, M
  <2>2. CASE M(1) = PosInf
    <3>1. \A y \in Int : Lower(y, v[1])  BY <1>8, <2>2, FloatFacts, LowerIsLess
    <3>2. v[1] \notin Int
      <4>1. ASSUME v[1] \in Int  PROVE FALSE  BY <3>1, <4>1, LowerIsLess
      <4> QED  BY <4>1
    <3> QED  BY <1>3, <1>7, <3>2, LowerIsLess DEF Slope
  <2>3. CASE \E k \in 1..Len(rs) : M(k) = NegInf
    <3>1. PICK k \in 1..Len(rs) : M(k) = NegInf  BY <2>3
    <3>2. v[k] \notin Int
      <4>1. ASSUME v[k] \in Int  PROVE FALSE
        <5>1. Lower(NegInf, v[k]) /\ NegInf \in Float  BY <4>1, FloatFacts, LowerIsLess
        <5>2. Clears(NegInf, M(k))
          <6>1. k \in 1..k /\ k \in 1..Len(rs)  BY <1>1
          <6> QED  BY <1>7, <5>1, <6>1
        <5> QED  BY <3>1, <5>2, FloatFacts, LowerIsLess DEF Clears
      <4> QED  BY <4>1
    <3>3. k \in DOMAIN v  BY <1>7
    <3> QED  BY <3>2, <3>3, LowerIsLess DEF Slope
  <2> QED  BY <2>1, <2>2, <2>3
<1> QED  BY <1>6, <1>9, <1>10 DEF v

Sigs == {Success} \cup {FailSig(r) : r \in RunEvents}
Streaks == [prev : Sigs, count : Nat]
Counted(rs) ==
    [p \in (1..Len(rs)) \X Streaks |->
        [prev |-> FailSig(rs[p[1]]),
         count |-> p[2].count + (IF Repeats(FailSig(rs[p[1]]), p[2].prev) THEN 1 ELSE 0)]]
NoStreak == [prev |-> Success, count |-> 0]

LEMMA CountedType ==
    ASSUME NEW rs, rs \in Seq(RunEvents)
    PROVE  /\ NoStreak \in Streaks /\ Counted(rs) \in [(1..Len(rs)) \X Streaks -> Streaks]
           /\ \A i \in 1..Len(rs), v \in Streaks :
                 Counted(rs)[<<i, v>>] =
                    [prev |-> FailSig(rs[i]),
                     count |-> v.count + (IF Repeats(FailSig(rs[i]), v.prev) THEN 1 ELSE 0)]
<1>1. NoStreak \in Streaks  BY DEF NoStreak, Streaks, Sigs
<1>2. ASSUME NEW i \in 1..Len(rs), NEW v \in Streaks
      PROVE  [prev |-> FailSig(rs[i]),
              count |-> v.count + (IF Repeats(FailSig(rs[i]), v.prev) THEN 1 ELSE 0)] \in Streaks
  <2>1. FailSig(rs[i]) \in Sigs
    <3>1. rs[i] \in RunEvents  OBVIOUS
    <3> QED  BY <3>1 DEF Sigs
  <2>2. v.count \in Nat  BY DEF Streaks
  <2>3. v.count + (IF Repeats(FailSig(rs[i]), v.prev) THEN 1 ELSE 0) \in Nat  BY <2>2
  <2> QED  BY <2>1, <2>3 DEF Streaks
<1>3. Counted(rs) \in [(1..Len(rs)) \X Streaks -> Streaks]  BY <1>2 DEF Counted
<1> QED  BY <1>1, <1>3 DEF Counted

LEMMA CountChain ==
    ASSUME NEW rs, rs \in Seq(RunEvents)
    PROVE  \E c : /\ IsChain(c, Len(rs), Streaks, NoStreak, Counted(rs))
                  /\ RepeatedErrorCount(rs) = c[Len(rs)].count
<1> DEFINE m == Len(rs)
           st == Counted(rs)
           next(f, s) ==
               IF s = {} THEN [prev |-> Success, count |-> 0]
               ELSE [prev |-> FailSig(rs[Max(s)]),
                     count |-> f[s \ {Max(s)}].count
                        + (IF Repeats(FailSig(rs[Max(s)]), f[s \ {Max(s)}].prev) THEN 1 ELSE 0)]
           body(f) == [s \in SUBSET DOMAIN rs |-> next(f, s)]
           iter == CHOOSE f : f = body(f)
<1>1. m \in Nat /\ DOMAIN rs = 1..m  OBVIOUS
<1>2. RepeatedErrorCount(rs) = iter[DOMAIN rs].count
  BY DEF RepeatedErrorCount, FoldLeft, MapThenFoldSet
<1>3. NoStreak \in Streaks /\ st \in [(1..m) \X Streaks -> Streaks]  BY CountedType
<1>4. \A i \in 1..m, v \in Streaks :
         st[<<i, v>>] = [prev |-> FailSig(rs[i]),
                         count |-> v.count + (IF Repeats(FailSig(rs[i]), v.prev) THEN 1 ELSE 0)]
  BY CountedType
<1> HIDE DEF m, st
<1>5. PICK f : IsFoldTable(f, m, Streaks, NoStreak, st)
  <2>1. Foldable(m, Streaks, NoStreak, st)  BY <1>1, <1>3 DEF Foldable
  <2> QED  BY <2>1, FoldExists
<1>6. /\ f \in [SUBSET (1..m) -> Streaks]
      /\ \A s \in SUBSET (1..m) :
            f[s] = IF s = {} THEN NoStreak ELSE st[<<Max(s), f[s \ {Max(s)}]>>]
  BY <1>5 DEF IsFoldTable
<1>7. ASSUME NEW s \in SUBSET (1..m), s # {}  PROVE Max(s) \in 1..m /\ s \ {Max(s)} \in SUBSET (1..m)
  <2>1. s \subseteq 0..m /\ m \in Nat  BY <1>1
  <2>2. Max(s) \in s  BY <1>7, <2>1, MaxIsMember
  <2> QED  BY <2>2
<1>8. f = body(f)
  <2>1. ASSUME NEW s \in SUBSET (1..m)
        PROVE  f[s] = next(f, s)
    <3>1. CASE s = {}  BY <1>6, <3>1 DEF NoStreak
    <3>2. CASE s # {}
      <4>1. f[s \ {Max(s)}] \in Streaks  BY <1>6, <1>7, <3>2
      <4>2. f[s] = st[<<Max(s), f[s \ {Max(s)}]>>]  BY <1>6, <3>2
      <4> QED  BY <1>4, <1>7, <3>2, <4>1, <4>2
    <3> QED  BY <3>1, <3>2
  <2>2. f = [s \in SUBSET (1..m) |-> f[s]]  BY <1>6
  <2> HIDE DEF next
  <2> QED  BY <1>1, <2>1, <2>2, Zenon
<1> HIDE DEF body, next
<1>9. iter = body(iter)  BY <1>8
<1> HIDE DEF iter
<1>10. \A s \in SUBSET (1..m) : iter[s] = next(iter, s)
  <2>1. \A s \in SUBSET (1..m) : body(iter)[s] = next(iter, s)  BY <1>1, Zenon DEF body
  <2> QED  BY <1>9, <2>1, Zenon
<1>11. IsFold(iter, m, Streaks, NoStreak, st)
  <2>1. iter[{}] = NoStreak  BY <1>10 DEF NoStreak, next
  <2>2. ASSUME NEW s \in SUBSET (1..m), s # {}, iter[s \ {Max(s)}] \in Streaks
        PROVE  iter[s] = st[<<Max(s), iter[s \ {Max(s)}]>>]
    BY <1>4, <1>7, <1>10, <2>2 DEF next
  <2> QED  BY <1>1, <1>3, <2>1, <2>2 DEF IsFold, Foldable
<1>12. \E c : IsChain(c, m, Streaks, NoStreak, st) /\ c[m] = iter[1..m]  BY <1>11, FoldIsChain
<1> QED  BY <1>1, <1>2, <1>12 DEF m, st

\* A count above zero names a repetition.
LEMMA CountIsOfRepeats ==
    ASSUME NEW rs, rs \in Seq(RunEvents), RepeatedErrorCount(rs) > 0
    PROVE  \E i \in 1..(Len(rs) - 1) :
              Same(FailSig(rs[i]), FailSig(rs[i + 1])) /\ ~GoalMet(rs[i])
<1> SUFFICES ASSUME \A i \in 1..(Len(rs) - 1) :
                       ~(Same(FailSig(rs[i]), FailSig(rs[i + 1])) /\ ~GoalMet(rs[i]))
             PROVE  FALSE
  OBVIOUS
<1>1. PICK c : /\ IsChain(c, Len(rs), Streaks, NoStreak, Counted(rs))
               /\ RepeatedErrorCount(rs) = c[Len(rs)].count
  BY CountChain
<1>2. ASSUME NEW i \in 1..Len(rs)
      PROVE  /\ c[i - 1] \in Streaks
             /\ c[i].prev = FailSig(rs[i])
             /\ c[i].count = c[i - 1].count
                             + (IF Repeats(FailSig(rs[i]), c[i - 1].prev) THEN 1 ELSE 0)
  <2>1. c[i - 1] \in Streaks /\ c[i] = Counted(rs)[<<i, c[i - 1]>>]
    <3>1. i - 1 \in 0..Len(rs)  OBVIOUS
    <3> QED  BY <1>1, <3>1 DEF IsChain
  <2> DEFINE v == c[i - 1]
  <2>2. v \in Streaks /\ c[i] = Counted(rs)[<<i, v>>]  BY <2>1
  <2> HIDE DEF v
  <2>3. c[i] = [prev |-> FailSig(rs[i]),
                count |-> v.count + (IF Repeats(FailSig(rs[i]), v.prev) THEN 1 ELSE 0)]
    BY <2>2, CountedType
  <2>4. c[i].prev = FailSig(rs[i])  BY <2>3
  <2>5. c[i].count = v.count + (IF Repeats(FailSig(rs[i]), v.prev) THEN 1 ELSE 0)  BY <2>3
  <2> QED  BY <2>2, <2>4, <2>5 DEF v
<1>3. c[0] = NoStreak  BY <1>1 DEF IsChain
<1>4. \A r \in RunEvents : FailSig(r) # Success => ~GoalMet(r)
  BY DEF FailSig, Success, GoalMet
<1> DEFINE K == {k \in Nat : k <= Len(rs) => c[k].count = 0}
<1>5. 0 \in K  BY <1>3 DEF NoStreak
<1>6. ASSUME NEW k \in Nat, k \in K  PROVE k + 1 \in K
  <2> SUFFICES ASSUME k + 1 <= Len(rs)  PROVE c[k + 1].count = 0  OBVIOUS
  <2>1. k + 1 \in 1..Len(rs) /\ (k + 1) - 1 = k /\ k <= Len(rs)  OBVIOUS
  <2>2. c[k].count = 0  BY <1>6, <2>1
  <2>3. c[k + 1].count = c[k].count + (IF Repeats(FailSig(rs[k + 1]), c[k].prev) THEN 1 ELSE 0)
    BY <1>2, <2>1
  <2>4. ~Repeats(FailSig(rs[k + 1]), c[k].prev)
    <3>1. CASE k = 0
      <4>1. c[k].prev = Success  BY <1>3, <3>1 DEF NoStreak
      <4> QED  BY <4>1 DEF Repeats, Same
    <3>2. CASE k # 0
      <4>1. k \in 1..Len(rs) /\ k \in 1..(Len(rs) - 1)  BY <2>1, <3>2
      <4>2. c[k].prev = FailSig(rs[k])  BY <1>2, <4>1
      <4>3. rs[k] \in RunEvents  BY <4>1
      <4> QED  BY <1>4, <4>1, <4>2, <4>3 DEF Repeats, Same
    <3> QED  BY <3>1, <3>2
  <2> QED  BY <2>2, <2>3, <2>4
<1> HIDE DEF K
<1>7. Nat \subseteq K  BY <1>5, <1>6, NumberInduction
<1>8. Len(rs) \in K /\ Len(rs) <= Len(rs)  BY <1>7
<1> QED  BY <1>1, <1>8 DEF K

LEMMA SpanClasses ==
    ASSUME trace \in Seq(Events)
    PROVE  SpanClassIsProgress
<1> DEFINE rs == Runs
<1>1. rs \in Seq(RunEvents)  BY RunsFacts DEF Runs
<1> HIDE DEF rs
<1>2. HasProgress(rs) <=> BelowFirst(rs)  BY <1>1, ProgressIsBelowFirst
<1>3. SpanClass(rs) = "productive" <=> BelowFirst(rs) /\ SlopeIsNumber(rs)
  BY <1>1, <1>2, ProgressTurnsSlope DEF SpanClass
<1>4. ASSUME SpanClass(rs) = "unproductive_stuck"
      PROVE  /\ ~BelowFirst(rs)
             /\ \E i \in 1..(Len(rs) - 1) :
                   Same(FailSig(rs[i]), FailSig(rs[i + 1])) /\ ~GoalMet(rs[i])
  <2>1. ~HasProgress(rs) /\ RepeatedErrorCount(rs) > 0  BY <1>4 DEF SpanClass
  <2> QED  BY <1>1, <1>2, <2>1, CountIsOfRepeats
<1> QED  BY <1>3, <1>4 DEF SpanClassIsProgress, rs

-----------------------------------------------------------------------------
(* The engaged span (section 5)                                            *)

Stretching == [max : Nat, cur : Nat]
Stretched(acc, e) == IF RealizedHandoff(e) THEN [max |-> Max({acc.max, acc.cur}), cur |-> 0]
                                           ELSE [acc EXCEPT !.cur = @ + 1]
Engaged(t) == [p \in (1..Len(t)) \X Stretching |-> Stretched(p[2], t[p[1]])]
NoStretch == [max |-> 0, cur |-> 0]

LEMMA MaxOfTwo ==
    ASSUME NEW a \in Nat, NEW b \in Nat
    PROVE  /\ Max({a, b}) \in {a, b} /\ Max({a, b}) >= a /\ Max({a, b}) >= b
           /\ Max({a, b}) \in Nat
<1> DEFINE n == a + b
<1>1. {a, b} \subseteq 0..n /\ {a, b} # {} /\ n \in Nat  OBVIOUS
<1> HIDE DEF n
<1>2. Max({a, b}) \in {a, b} /\ \A y \in {a, b} : y <= Max({a, b})  BY <1>1, MaxIsMember
<1> QED  BY <1>2

LEMMA EngagedType ==
    ASSUME NEW t, t \in Seq(Events)
    PROVE  /\ NoStretch \in Stretching
           /\ Engaged(t) \in [(1..Len(t)) \X Stretching -> Stretching]
           /\ \A i \in 1..Len(t), v \in Stretching : Engaged(t)[<<i, v>>] = Stretched(v, t[i])
<1>1. NoStretch \in Stretching  BY DEF NoStretch, Stretching
<1>2. ASSUME NEW i \in 1..Len(t), NEW v \in Stretching  PROVE Stretched(v, t[i]) \in Stretching
  <2>1. v.max \in Nat /\ v.cur \in Nat  BY DEF Stretching
  <2>2. Max({v.max, v.cur}) \in Nat  BY <2>1, MaxOfTwo
  <2>3. [max |-> Max({v.max, v.cur}), cur |-> 0] \in Stretching  BY <2>2 DEF Stretching
  <2>4. [v EXCEPT !.cur = @ + 1] \in Stretching  BY <2>1 DEF Stretching
  <2> QED  BY <2>3, <2>4 DEF Stretched
<1>3. Engaged(t) \in [(1..Len(t)) \X Stretching -> Stretching]  BY <1>2 DEF Engaged
<1> QED  BY <1>1, <1>3 DEF Engaged

LEMMA EngagedChain ==
    ASSUME NEW t, t \in Seq(Events)
    PROVE  \E c : /\ IsChain(c, Len(t), Stretching, NoStretch, Engaged(t))
                  /\ EngagedSpan(t) = Longest(c[Len(t)])
<1> DEFINE m == Len(t)
           st == Engaged(t)
           next(f, s) == IF s = {} THEN NoStretch ELSE Stretched(f[s \ {Max(s)}], t[Max(s)])
           body(f) == [s \in SUBSET DOMAIN t |-> next(f, s)]
           iter == CHOOSE f : f = body(f)
<1>1. m \in Nat /\ DOMAIN t = 1..m  OBVIOUS
<1>2. EngagedSpan(t) = Longest(iter[DOMAIN t])
  BY DEF EngagedSpan, FoldLeft, MapThenFoldSet, Stretched, NoStretch
<1>3. /\ NoStretch \in Stretching /\ st \in [(1..m) \X Stretching -> Stretching]
      /\ \A i \in 1..m, v \in Stretching : st[<<i, v>>] = Stretched(v, t[i])
  BY EngagedType
<1> HIDE DEF m, st
<1>5. PICK f : IsFoldTable(f, m, Stretching, NoStretch, st)
  <2>1. Foldable(m, Stretching, NoStretch, st)  BY <1>1, <1>3 DEF Foldable
  <2> QED  BY <2>1, FoldExists
<1>6. /\ f \in [SUBSET (1..m) -> Stretching]
      /\ \A s \in SUBSET (1..m) :
            f[s] = IF s = {} THEN NoStretch ELSE st[<<Max(s), f[s \ {Max(s)}]>>]
  BY <1>5 DEF IsFoldTable
<1>7. ASSUME NEW s \in SUBSET (1..m), s # {}  PROVE Max(s) \in 1..m /\ s \ {Max(s)} \in SUBSET (1..m)
  <2>1. s \subseteq 0..m /\ m \in Nat  BY <1>1
  <2>2. Max(s) \in s  BY <1>7, <2>1, MaxIsMember
  <2> QED  BY <2>2
<1>8. f = body(f)
  <2>1. ASSUME NEW s \in SUBSET (1..m)
        PROVE  f[s] = next(f, s)
    <3>1. CASE s = {}  BY <1>6, <3>1
    <3>2. CASE s # {}
      <4>1. f[s \ {Max(s)}] \in Stretching  BY <1>6, <1>7, <3>2
      <4>2. f[s] = st[<<Max(s), f[s \ {Max(s)}]>>]  BY <1>6, <3>2
      <4> QED  BY <1>3, <1>7, <3>2, <4>1, <4>2
    <3> QED  BY <3>1, <3>2
  <2>2. f = [s \in SUBSET (1..m) |-> f[s]]  BY <1>6
  <2> HIDE DEF next
  <2> QED  BY <1>1, <2>1, <2>2, Zenon
<1> HIDE DEF body, next
<1>9. iter = body(iter)  BY <1>8
<1> HIDE DEF iter
<1>10. \A s \in SUBSET (1..m) : iter[s] = next(iter, s)
  <2>1. \A s \in SUBSET (1..m) : body(iter)[s] = next(iter, s)  BY <1>1, Zenon DEF body
  <2> QED  BY <1>9, <2>1, Zenon
<1>11. IsFold(iter, m, Stretching, NoStretch, st)
  <2>1. iter[{}] = NoStretch  BY <1>10 DEF next
  <2>2. ASSUME NEW s \in SUBSET (1..m), s # {}, iter[s \ {Max(s)}] \in Stretching
        PROVE  iter[s] = st[<<Max(s), iter[s \ {Max(s)}]>>]
    BY <1>3, <1>7, <1>10, <2>2 DEF next
  <2> QED  BY <1>1, <1>3, <2>1, <2>2 DEF IsFold, Foldable
<1>12. \E c : IsChain(c, m, Stretching, NoStretch, st) /\ c[m] = iter[1..m]  BY <1>11, FoldIsChain
<1> QED  BY <1>1, <1>2, <1>12 DEF m, st

\* No hand-off from i to j.
Clear(t, i, j) == \A k \in i..j : ~RealizedHandoff(t[k])

\* After n events: cur is the stretch that ends here, max the longest one before it.
StretchIs(t, n, v) ==
    /\ v.cur \in 0..n /\ v.max \in 0..n
    /\ Clear(t, n - v.cur + 1, n)
    /\ v.max = 0 \/ \E i \in 1..n : \E j \in i..n : Clear(t, i, j) /\ j - i + 1 = v.max
    /\ \A i \in 1..n : Clear(t, i, n) => n - i + 1 <= v.cur
    /\ \A i \in 1..n : \A j \in i..n : Clear(t, i, j) => j - i + 1 <= v.max \/ j - i + 1 <= v.cur

LEMMA StretchStep ==
    ASSUME NEW t, NEW n \in Nat, NEW v \in Stretching, StretchIs(t, n, v)
    PROVE  StretchIs(t, n + 1, Stretched(v, t[n + 1]))
<1> DEFINE w == Stretched(v, t[n + 1])
<1>1. /\ v.cur \in 0..n /\ v.max \in 0..n
      /\ Clear(t, n - v.cur + 1, n)
      /\ v.max = 0 \/ \E i \in 1..n : \E j \in i..n : Clear(t, i, j) /\ j - i + 1 = v.max
      /\ \A i \in 1..n : Clear(t, i, n) => n - i + 1 <= v.cur
      /\ \A i \in 1..n : \A j \in i..n : Clear(t, i, j) => j - i + 1 <= v.max \/ j - i + 1 <= v.cur
  BY DEF StretchIs
<1>2. CASE RealizedHandoff(t[n + 1])
  <2>1. w.max = Max({v.max, v.cur}) /\ w.cur = 0  BY <1>2 DEF Stretched
  <2>2. w.max \in {v.max, v.cur} /\ w.max >= v.max /\ w.max >= v.cur
    <3>1. v.max \in Nat /\ v.cur \in Nat  BY DEF Stretching
    <3> QED  BY <2>1, <3>1, MaxOfTwo
  <2> HIDE DEF w
  <2>3. \A i \in 1..(n + 1) : ~Clear(t, i, n + 1)
    <3>1. \A i \in 1..(n + 1) : n + 1 \in i..(n + 1)  OBVIOUS
    <3> QED  BY <1>2, <3>1 DEF Clear
  <2>4. Clear(t, (n + 1) - w.cur + 1, n + 1)
    <3>1. ((n + 1) - w.cur + 1)..(n + 1) = {}  BY <2>1
    <3> QED  BY <3>1 DEF Clear
  <2>5. w.max = 0 \/ \E i \in 1..(n + 1) : \E j \in i..(n + 1) : Clear(t, i, j) /\ j - i + 1 = w.max
    <3>1. CASE w.max = v.max
      <4>1. \A i \in 1..n : i \in 1..(n + 1) /\ \A j \in i..n : j \in i..(n + 1)  OBVIOUS
      <4> QED  BY <1>1, <3>1, <4>1
    <3>2. CASE w.max = v.cur /\ v.cur # 0
      <4>1. n - v.cur + 1 \in 1..(n + 1) /\ n \in (n - v.cur + 1)..(n + 1)
            /\ n - (n - v.cur + 1) + 1 = v.cur
        BY <1>1, <3>2
      <4> QED  BY <1>1, <3>2, <4>1
    <3> QED  BY <2>2, <3>1, <3>2
  <2>6. ASSUME NEW i \in 1..(n + 1), NEW j \in i..(n + 1), Clear(t, i, j)
        PROVE  j - i + 1 <= w.max
    <3>1. j # n + 1  BY <2>3, <2>6
    <3>2. i \in 1..n /\ j \in i..n  BY <3>1
    <3>3. j - i + 1 <= v.max \/ j - i + 1 <= v.cur  BY <1>1, <2>6, <3>2
    <3> QED  BY <1>1, <2>2, <3>3
  <2>7. w.cur \in 0..(n + 1) /\ w.max \in 0..(n + 1)  BY <1>1, <2>1, <2>2
  <2> QED  BY <2>3, <2>4, <2>5, <2>6, <2>7 DEF StretchIs, w
<1>3. CASE ~RealizedHandoff(t[n + 1])
  <2>1. w.max = v.max /\ w.cur = v.cur + 1  BY <1>3 DEF Stretched, Stretching
  <2> HIDE DEF w
  <2>2. Clear(t, (n + 1) - w.cur + 1, n + 1)
    <3>1. ASSUME NEW k \in ((n + 1) - w.cur + 1)..(n + 1)  PROVE ~RealizedHandoff(t[k])
      <4>1. k = n + 1 \/ k \in (n - v.cur + 1)..n  BY <1>1, <2>1
      <4> QED  BY <1>1, <1>3, <4>1 DEF Clear
    <3> QED  BY <3>1 DEF Clear
  <2>3. w.max = 0 \/ \E i \in 1..(n + 1) : \E j \in i..(n + 1) : Clear(t, i, j) /\ j - i + 1 = w.max
    <3>1. \A i \in 1..n : i \in 1..(n + 1) /\ \A j \in i..n : j \in i..(n + 1)  OBVIOUS
    <3> QED  BY <1>1, <2>1, <3>1
  <2>4. ASSUME NEW i \in 1..(n + 1), Clear(t, i, n + 1)  PROVE (n + 1) - i + 1 <= w.cur
    <3>1. CASE i = n + 1  BY <1>1, <2>1, <3>1
    <3>2. CASE i # n + 1
      <4>1. i \in 1..n /\ \A k \in i..n : k \in i..(n + 1)  BY <3>2
      <4>2. Clear(t, i, n)  BY <2>4, <4>1 DEF Clear
      <4>3. n - i + 1 <= v.cur  BY <1>1, <4>1, <4>2
      <4> QED  BY <1>1, <2>1, <4>3
    <3> QED  BY <3>1, <3>2
  <2>5. ASSUME NEW i \in 1..(n + 1), NEW j \in i..(n + 1), Clear(t, i, j)
        PROVE  j - i + 1 <= w.max \/ j - i + 1 <= w.cur
    <3>1. CASE j = n + 1  BY <2>4, <2>5, <3>1
    <3>2. CASE j # n + 1
      <4>1. i \in 1..n /\ j \in i..n  BY <3>2
      <4>2. j - i + 1 <= v.max \/ j - i + 1 <= v.cur  BY <1>1, <2>5, <4>1
      <4> QED  BY <1>1, <2>1, <4>2
    <3> QED  BY <3>1, <3>2
  <2>6. w.cur \in 0..(n + 1) /\ w.max \in 0..(n + 1)  BY <1>1, <2>1
  <2> QED  BY <2>2, <2>3, <2>4, <2>5, <2>6 DEF StretchIs, w
<1> QED  BY <1>2, <1>3

LEMMA SpansAreStretches ==
    ASSUME NEW t, t \in Seq(Events)
    PROVE  EngagedSpan(t) = Max({0} \cup {s[2] - s[1] + 1 : s \in Stretches(t)})
<1> DEFINE n == Len(t)
           X == {0} \cup {s[2] - s[1] + 1 : s \in Stretches(t)}
<1>1. PICK c : /\ IsChain(c, n, Stretching, NoStretch, Engaged(t))
               /\ EngagedSpan(t) = Longest(c[n])
  BY EngagedChain
<1>2. n \in Nat  OBVIOUS
<1>3. \A k \in 0..n : c[k] \in Stretching  BY <1>1 DEF IsChain
<1> DEFINE K == {k \in Nat : k <= n => StretchIs(t, k, c[k])}
<1>4. 0 \in K
  <2>1. c[0].cur = 0 /\ c[0].max = 0  BY <1>1 DEF IsChain, NoStretch
  <2>2. 0 - 0 + 1 = 1 /\ 1..0 = {} /\ 0..0 = {0}  OBVIOUS
  <2>3. Clear(t, 0 - c[0].cur + 1, 0)  BY <2>1, <2>2 DEF Clear
  <2>4. StretchIs(t, 0, c[0])  BY <2>1, <2>2, <2>3 DEF StretchIs
  <2> QED  BY <2>4
<1>5. ASSUME NEW k \in Nat, k \in K  PROVE k + 1 \in K
  <2> SUFFICES ASSUME k + 1 <= n  PROVE StretchIs(t, k + 1, c[k + 1])  OBVIOUS
  <2>1. k + 1 \in 1..n /\ (k + 1) - 1 = k /\ k \in 0..n  BY <1>2
  <2>2. StretchIs(t, k, c[k]) /\ c[k] \in Stretching  BY <1>2, <1>3, <1>5, <2>1
  <2>3. c[k + 1] = Engaged(t)[<<k + 1, c[k]>>]
    <3>1. c[k + 1] = Engaged(t)[<<k + 1, c[(k + 1) - 1]>>]  BY <1>1, <2>1 DEF IsChain
    <3> QED  BY <2>1, <3>1
  <2>4. c[k + 1] = Stretched(c[k], t[k + 1])  BY <2>1, <2>2, <2>3, EngagedType
  <2> QED  BY <2>2, <2>4, StretchStep
<1> HIDE DEF K
<1>6. Nat \subseteq K  BY <1>4, <1>5, NumberInduction
<1> DEFINE v == c[n]
<1>7. StretchIs(t, n, v) /\ v \in Stretching
  <2>1. n \in K /\ n <= n /\ n \in 0..n  BY <1>2, <1>6
  <2> QED  BY <1>3, <2>1 DEF K
<1> HIDE DEF v
<1>8. /\ v.cur \in 0..n /\ v.max \in 0..n /\ v.cur \in Nat /\ v.max \in Nat
      /\ Clear(t, n - v.cur + 1, n)
      /\ v.max = 0 \/ \E i \in 1..n : \E j \in i..n : Clear(t, i, j) /\ j - i + 1 = v.max
      /\ \A i \in 1..n : \A j \in i..n : Clear(t, i, j) => j - i + 1 <= v.max \/ j - i + 1 <= v.cur
  BY <1>7 DEF StretchIs
<1> DEFINE x == Max({v.max, v.cur})
<1>9. x \in {v.max, v.cur} /\ x >= v.max /\ x >= v.cur /\ x \in Nat  BY <1>8, MaxOfTwo
<1>10. EngagedSpan(t) = x  BY <1>1 DEF Longest, v
<1> HIDE DEF x
<1>11. ASSUME NEW i \in 1..n, NEW j \in i..n, Clear(t, i, j)  PROVE j - i + 1 \in X
  <2>1. <<i, j>> \in Stretches(t)
    <3>1. <<i, j>> \in (1..n) \X (0..n) /\ i <= j + 1  OBVIOUS
    <3> QED  BY <1>11, <3>1 DEF Stretches, Clear
  <2>2. <<i, j>>[2] - <<i, j>>[1] + 1 = j - i + 1  OBVIOUS
  <2> QED  BY <2>1, <2>2
<1>12. x \in X
  <2>1. CASE x = 0  BY <2>1
  <2>2. CASE x = v.max /\ x # 0  BY <1>8, <1>11, <2>2
  <2>3. CASE x = v.cur /\ x # 0
    <3>1. n - v.cur + 1 \in 1..n /\ n \in (n - v.cur + 1)..n /\ n - (n - v.cur + 1) + 1 = v.cur
      BY <1>2, <1>8, <2>3
    <3> QED  BY <1>8, <1>11, <2>3, <3>1
  <2> QED  BY <1>9, <2>1, <2>2, <2>3
<1>13. ASSUME NEW y \in X  PROVE y \in Int /\ y <= x
  <2>1. CASE y = 0  BY <1>9, <2>1
  <2>2. CASE y # 0
    <3>1. PICK s \in Stretches(t) : y = s[2] - s[1] + 1  BY <2>2
    <3>2. /\ s[1] \in 1..n /\ s[2] \in 0..n /\ s[1] <= s[2] + 1
          /\ Clear(t, s[1], s[2])
      BY DEF Stretches, Clear
    <3>3. s[2] \in s[1]..n  BY <1>2, <2>2, <3>1, <3>2
    <3>4. y <= v.max \/ y <= v.cur  BY <1>8, <3>1, <3>2, <3>3
    <3> QED  BY <1>8, <1>9, <3>1, <3>2, <3>4
  <2> QED  BY <2>1, <2>2
<1> HIDE DEF X
<1>14. Max(X) = x  BY <1>12, <1>13, MaxIsGreatest
<1> QED  BY <1>10, <1>14 DEF X

-----------------------------------------------------------------------------
(* Recovery (section 5c)                                                   *)

\* Places among positions and the positions themselves are as many.
LEMMA AsManyPlaces ==
    ASSUME NEW t, t \in Seq(Events), NEW P, P \subseteq DOMAIN t,
           NEW A, NEW B, A \subseteq 1..Cardinality(P), B \subseteq P,
           \A n \in 1..Cardinality(P) : n \in A <=> Nth(P, n) \in B
    PROVE  Cardinality(A) = Cardinality(B)
<1> DEFINE N == Cardinality(P)
           f == [n \in A |-> Nth(P, n)]
<1>1. /\ N \in Nat
      /\ \A n \in 1..N : Nth(P, n) \in P /\ Place(P, Nth(P, n)) = n
      /\ \A i \in P : Place(P, i) \in 1..N /\ Nth(P, Place(P, i)) = i
  BY PickedFacts
<1> HIDE DEF N
<1>2. A \subseteq 1..N /\ \A n \in 1..N : n \in A <=> Nth(P, n) \in B  BY DEF N
<1>3. f \in [A -> B]  BY <1>2
<1>4. \A m, n \in A : f[m] = f[n] => m = n
  <2> SUFFICES ASSUME NEW m \in A, NEW n \in A, Nth(P, m) = Nth(P, n)  PROVE m = n  OBVIOUS
  <2>1. Place(P, Nth(P, m)) = m /\ Place(P, Nth(P, n)) = n  BY <1>1, <1>2
  <2> QED  BY <2>1
<1>5. \A i \in B : \E n \in A : f[n] = i
  <2> SUFFICES ASSUME NEW i \in B  PROVE \E n \in A : Nth(P, n) = i  OBVIOUS
  <2>1. Place(P, i) \in 1..N /\ Nth(P, Place(P, i)) = i  BY <1>1
  <2> QED  BY <1>2, <2>1
<1> HIDE DEF f
<1>6. f \in Bijection(A, B)
  BY <1>3, <1>4, <1>5 DEF Bijection, Injection, Surjection, IsInjective
<1>7. ExistsBijection(A, B)  BY <1>6 DEF ExistsBijection
<1>8. IsFiniteSet(A)
  <2>1. IsFiniteSet(1..N)  BY <1>1, FS_Interval
  <2> QED  BY <1>2, <2>1, FS_Subset
<1> QED  BY <1>7, <1>8, FS_Bijection

LEMMA RecoveriesAreOfTheNextPlan ==
    ASSUME trace \in Seq(Events)
    PROVE  RecoveryIsOfTheNextPlan
<1> DEFINE P == {i \in Of(trace, "turn") : trace[i].planned}
           N == Cardinality(P)
           negative == {i \in P : trace[i].affect \in NeedsSupport}
           later(i) == {j \in P : j > i}
           followed == {i \in negative : later(i) # {}}
           recovered == {i \in followed : Min(later(i)) \notin negative}
<1>1. P \subseteq DOMAIN trace  BY DEF Of
<1>2. P = {i \in DOMAIN trace : trace[i].kind = "turn" /\ trace[i].planned}  BY DEF Of
<1>3. SUFFICES /\ Cardinality(WithNext(trace)) = Cardinality(followed)
               /\ Cardinality(Recovered(trace)) = Cardinality(recovered)
  BY <1>2 DEF RecoveryIsOfTheNextPlan
<1>4. Planned(trace) = Picked(trace, P)  BY DEF Planned
<1>5. P \subseteq Nat
  <2>1. DOMAIN trace = 1..Len(trace)  BY EventFacts
  <2> QED  BY <1>1, <2>1
<1> HIDE DEF P
<1>6. /\ N \in Nat /\ Planned(trace) \in Seq(Events) /\ Len(Planned(trace)) = N
      /\ \A n \in 1..N : /\ Nth(P, n) \in P /\ Place(P, Nth(P, n)) = n
                         /\ Planned(trace)[n] = trace[Nth(P, n)]
      /\ \A i \in P : Place(P, i) \in 1..N /\ Nth(P, Place(P, i)) = i
      /\ \A m, n \in 1..N : m < n <=> Nth(P, m) < Nth(P, n)
  BY <1>1, <1>4, PickedFacts
<1> HIDE DEF N
<1>7. DOMAIN Planned(trace) = 1..N  BY <1>6
<1>8. \A n \in 1..N : n \in Negative(Planned(trace)) <=> Nth(P, n) \in negative
  BY <1>6, <1>7 DEF Negative
<1>9. \A n \in Negative(Planned(trace)) : n \in 1..N  BY <1>7 DEF Negative
<1>10. ASSUME NEW n \in 1..N
       PROVE  /\ n < N <=> later(Nth(P, n)) # {}
              /\ n < N => Min(later(Nth(P, n))) = Nth(P, n + 1)
  <2>1. ASSUME n < N  PROVE /\ Nth(P, n + 1) \in later(Nth(P, n))
                            /\ \A j \in later(Nth(P, n)) : Nth(P, n + 1) <= j
    <3>1. n + 1 \in 1..N /\ n < n + 1  BY <1>6, <2>1
    <3>2. Nth(P, n + 1) \in P /\ Nth(P, n) < Nth(P, n + 1)  BY <1>6, <3>1
    <3>3. Nth(P, n) \in Nat /\ Nth(P, n + 1) \in Nat  BY <1>5, <1>6, <3>1
    <3>4. ASSUME NEW j \in P, j > Nth(P, n)  PROVE Nth(P, n + 1) <= j
      <4>1. Place(P, j) \in 1..N /\ Nth(P, Place(P, j)) = j /\ j \in Nat  BY <1>5, <1>6
      <4>2. n < Place(P, j)  BY <1>6, <3>3, <3>4, <4>1
      <4>3. ~(Place(P, j) < n + 1)  BY <4>1, <4>2
      <4>4. ~(j < Nth(P, n + 1))  BY <1>6, <3>1, <4>1, <4>3
      <4> QED  BY <3>3, <4>1, <4>4
    <3> QED  BY <3>2, <3>3, <3>4
  <2>2. ASSUME NEW j \in later(Nth(P, n))  PROVE n < N
    <3>1. Place(P, j) \in 1..N /\ Nth(P, Place(P, j)) = j /\ j \in Nat /\ Nth(P, n) \in Nat
      BY <1>5, <1>6
    <3>2. Nth(P, n) < j  BY <3>1
    <3>3. n < Place(P, j)  BY <1>6, <3>1, <3>2
    <3> QED  BY <1>6, <3>1, <3>3
  <2>3. ASSUME n < N  PROVE Min(later(Nth(P, n))) = Nth(P, n + 1)
    <3> DEFINE L == later(Nth(P, n))
               x == Nth(P, n + 1)
    <3>1. x \in L /\ (\A j \in L : x <= j) /\ L \subseteq Nat  BY <1>5, <2>1, <2>3
    <3> HIDE DEF L, x
    <3>2. Min(L) \in L /\ \A y \in L : Min(L) <= y  BY <3>1, MinIsLeast
    <3>3. Min(L) <= x /\ x <= Min(L) /\ x \in Nat /\ Min(L) \in Nat  BY <3>1, <3>2
    <3>4. Min(L) = x  BY <3>3
    <3> QED  BY <3>4 DEF L, x
  <2> QED  BY <2>1, <2>2, <2>3
<1>11. \A n \in 1..N : n \in WithNext(trace) <=> Nth(P, n) \in followed
  BY <1>6, <1>8, <1>10 DEF WithNext
<1>12. \A n \in 1..N : n \in Recovered(trace) <=> Nth(P, n) \in recovered
  <2> SUFFICES ASSUME NEW n \in 1..N
               PROVE  n \in Recovered(trace) <=> Nth(P, n) \in recovered
    OBVIOUS
  <2>1. CASE n \in WithNext(trace)
    <3>1. n < N /\ n + 1 \in 1..N  BY <1>6, <2>1 DEF WithNext
    <3>2. n + 1 \in Negative(Planned(trace)) <=> Nth(P, n + 1) \in negative  BY <1>8, <3>1
    <3>3. Min(later(Nth(P, n))) = Nth(P, n + 1)  BY <1>10, <3>1
    <3>4. Nth(P, n) \in followed  BY <1>11, <2>1
    <3> QED  BY <2>1, <3>2, <3>3, <3>4 DEF Recovered
  <2>2. CASE n \notin WithNext(trace)  BY <1>11, <2>2 DEF Recovered
  <2> QED  BY <2>1, <2>2
<1>13. WithNext(trace) \subseteq 1..N /\ Recovered(trace) \subseteq 1..N
  BY <1>9 DEF WithNext, Recovered
<1>14. followed \subseteq P /\ recovered \subseteq P  OBVIOUS
<1> HIDE DEF followed, recovered
<1>15. Cardinality(WithNext(trace)) = Cardinality(followed)
  BY <1>1, <1>11, <1>13, <1>14, AsManyPlaces DEF N
<1>16. Cardinality(Recovered(trace)) = Cardinality(recovered)
  BY <1>1, <1>12, <1>13, <1>14, AsManyPlaces DEF N
<1> QED  BY <1>15, <1>16

-----------------------------------------------------------------------------
(* The theorems.                                                           *)

TraceType == trace \in Seq(Events) /\ Len(trace) <= MaxEvents

\* The handlers append the events they know, up to the bound.
THEOREM TraceTypeCorrect == Spec => []TraceType
<1>1. Init => TraceType  BY MeasuresAssumption DEF Init, TraceType
<1>2. TraceType /\ [Next]_trace => TraceType'
  <2> SUFFICES ASSUME TraceType, [Next]_trace  PROVE TraceType'  OBVIOUS
  <2>1. CASE Next
    <3>1. PICK e \in Events : Len(trace) < MaxEvents /\ trace' = Append(trace, e)
      BY <2>1 DEF Next, AppendEvent
    <3>2. trace' \in Seq(Events) /\ Len(trace') = Len(trace) + 1 /\ Len(trace) \in Nat
      BY <3>1 DEF TraceType
    <3> QED  BY <3>1, <3>2, MeasuresAssumption DEF TraceType
  <2>2. CASE UNCHANGED trace  BY <2>2 DEF TraceType
  <2> QED  BY <2>1, <2>2
<1> QED  BY <1>1, <1>2, PTL DEF Spec

\* Whatever the window, the trace and its metrics: a turn helped iff one of the next Window
\* runs met the goal or had a metric lower than every number before it; nothing is lower
\* once the first run before the turn had one that is not a number (_outcome_for_turn).
THEOREM OutcomesAreRight == Spec => []OutcomeIsProgress
<1>1. TraceType => OutcomeIsProgress  BY OutcomesAreProgress DEF TraceType
<1> QED  BY <1>1, TraceTypeCorrect, PTL

\* Whatever the bins: the calibration error lies between the overall bias of the
\* confidences and their mean absolute error (ece).
THEOREM CalibrationIsBracketed == Spec => []EceIsBracketed
<1>1. TraceType => EceIsBracketed  BY EceBracket DEF TraceType, EceIsBracketed
<1> QED  BY <1>1, TraceTypeCorrect, PTL

\* For traces of any length and any metrics: a span is productive iff some metric is lower
\* than the first and the slope is a number, a stuck one repeated an error and never went
\* lower (_span_class), the engaged span is the longest stretch (_engaged_span), and a
\* recovery is of the next turn with a plan.
THEOREM ProcessMeasuresHold == Spec => []ProcessMeasuresAreRight
<1>1. TraceType => ProcessMeasuresAreRight
  <2> SUFFICES ASSUME TraceType  PROVE ProcessMeasuresAreRight  OBVIOUS
  <2>1. trace \in Seq(Events)  BY DEF TraceType
  <2>2. SpanIsLongestStretch  BY <2>1, SpansAreStretches DEF SpanIsLongestStretch
  <2> QED  BY <2>1, <2>2, SpanClasses, RecoveriesAreOfTheNextPlan DEF ProcessMeasuresAreRight
<1> QED  BY <1>1, TraceTypeCorrect, PTL

\* What an extraction in the middle of a study found settled, every later one finds
\* again: full windows and good outcomes, the attempts and turns a solved exercise
\* took, and false abstentions.
THEOREM ExtractionsSettle == Spec => MeasuresSettle
<1>1. TraceType /\ [Next]_trace =>
         [OutcomesSettleStep /\ SolveSettlesCountsStep /\ AbstentionsSettleStep]_trace
  <2> SUFFICES ASSUME TraceType, Next
               PROVE  OutcomesSettleStep /\ SolveSettlesCountsStep /\ AbstentionsSettleStep
    OBVIOUS
  <2>1. trace \in Seq(Events)  BY DEF TraceType
  <2>2. Grown(trace, trace')  BY DEF Next, AppendEvent, Grown
  <2>3. OutcomesSettleStep  BY <2>1, <2>2, OutcomeSettles DEF OutcomesSettleStep
  <2>4. SolveSettlesCountsStep
    <3> SUFFICES ASSUME SolvedAt(Runs) # {}
                 PROVE  /\ AttemptsToSolve(Runs') = AttemptsToSolve(Runs)
                        /\ TurnsToSolve(trace') = TurnsToSolve(trace)
      BY DEF SolveSettlesCountsStep
    <3>1. Runs = Kind(trace, "run") /\ Runs' = Kind(trace', "run")  BY DEF Runs
    <3> QED  BY <2>1, <2>2, <3>1, CountsSettle
  <2>5. AbstentionsSettleStep  BY <2>1, <2>2, AbstentionsSettle DEF AbstentionsSettleStep
  <2> QED  BY <2>3, <2>4, <2>5
<1> QED  BY <1>1, TraceTypeCorrect, PTL DEF Spec, MeasuresSettle
=============================================================================
