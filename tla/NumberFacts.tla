---------------------------- MODULE NumberFacts ----------------------------
(***************************************************************************)
(* Facts about numbers that the proofs about the components share: least   *)
(* and greatest elements of sets, and sums over finite sets. What would be *)
(* an induction is well-foundedness, in the form of a least counterexample.*)
(***************************************************************************)
EXTENDS Integers, FiniteSets, FiniteSetTheorems, WellFoundedInduction, TLAPS

Less == {ss \in Nat \X Nat : ss[1] < ss[2]}

(* A set of numbers has a least one.                                       *)
LEMMA NatLeast ==
    ASSUME NEW T, T \subseteq Nat, T # {}
    PROVE  \E x \in T : \A y \in T : x <= y
<1>1. IsWellFoundedOn(Less, Nat)
  BY NatLessThanWellFounded DEF OpToRel, Less
<1>2. PICK x \in T : \A y \in T : <<y, x>> \notin Less
  BY <1>1, WFMin
<1>3. \A y \in T : ~(y < x)
  BY <1>2 DEF Less
<1> QED
  BY <1>2, <1>3

Greatest(x, S) == x \in S /\ \A y \in S : y <= x

(* A finite set of numbers has a greatest one: in a smallest set without,  *)
(* take an element away, and the greatest of the rest or that element is   *)
(* the greatest.                                                           *)
LEMMA NatGreatest ==
    ASSUME NEW T, T \subseteq Nat, T # {}, IsFiniteSet(T)
    PROVE  \E x \in T : \A y \in T : y <= x
<1> DEFINE Without == {S \in SUBSET T : S # {} /\ ~\E x \in S : Greatest(x, S)}
           Sizes == {n \in Nat : \E S \in Without : Cardinality(S) = n}
<1>1. SUFFICES ASSUME T \in Without
               PROVE  FALSE
  BY DEF Greatest
<1>2. \A S \in SUBSET T : IsFiniteSet(S) /\ Cardinality(S) \in Nat
  BY FS_Subset, FS_CardinalityType
<1>3. Sizes # {} /\ Sizes \subseteq Nat
  BY <1>1, <1>2
<1> HIDE DEF Sizes
<1>4. PICK n \in Sizes : \A m \in Sizes : n <= m
  BY <1>3, NatLeast
<1>5. PICK S \in Without : Cardinality(S) = n
  BY <1>4 DEF Sizes
<1>6. PICK x \in S : TRUE
  BY <1>5
<1>7. Cardinality(S \ {x}) = n - 1 /\ n \in Nat /\ n - 1 \in Int
  BY <1>2, <1>3, <1>5, <1>6, FS_RemoveElement
<1>8. S \ {x} \notin Without
  <2>1. SUFFICES ASSUME S \ {x} \in Without
                 PROVE  FALSE
    OBVIOUS
  <2>2. Cardinality(S \ {x}) \in Nat
    BY <1>2, <1>5
  <2>3. n - 1 \in Sizes
    BY <1>7, <2>1, <2>2 DEF Sizes
  <2> QED BY <1>4, <1>7, <2>3
<1>9. CASE S \ {x} = {}
  <2>1. S = {x} /\ x \in Nat
    BY <1>5, <1>6, <1>9
  <2>2. Greatest(x, S)
    BY <2>1 DEF Greatest
  <2> QED BY <1>5, <1>6, <2>2
<1>10. CASE S \ {x} # {}
  <2>1. PICK m \in S \ {x} : Greatest(m, S \ {x})
    BY <1>5, <1>8, <1>10
  <2>2. m \in Nat /\ x \in Nat /\ S \subseteq Nat
    BY <1>5, <1>6, <2>1
  <2>3. Greatest(m, S) \/ Greatest(x, S)
    BY <1>6, <2>1, <2>2 DEF Greatest
  <2> QED BY <1>5, <1>6, <2>1, <2>3
<1> QED
  BY <1>9, <1>10

(* The values of a sequence of numbers are finitely many.                  *)
LEMMA BoundedValues ==
    ASSUME NEW n \in Nat, NEW f, \A i \in 1 .. n : f[i] \in Nat
    PROVE  IsFiniteSet({f[i] : i \in 1 .. n}) /\ {f[i] : i \in 1 .. n} \subseteq Nat
<1> DEFINE S == {f[i] : i \in 1 .. n}
           g == [i \in 1 .. n |-> f[i]]
<1>1. IsFiniteSet(1 .. n)
  BY FS_Interval
<1>2. g \in Surjection(1 .. n, S)
  BY DEF Surjection
<1>3. IsFiniteSet(S)
  BY <1>1, <1>2, FS_Surjection
<1> QED
  BY <1>3

(* So does a set of integers between two bounds.                           *)
LEMMA IntGreatest ==
    ASSUME NEW lo \in Int, NEW hi \in Int, NEW T, T \subseteq lo .. hi, T # {}
    PROVE  \E x \in T : \A y \in T : y <= x
<1> DEFINE Up == {n \in 0 .. hi - lo : n + lo \in T}
<1>1. Up \subseteq Nat /\ IsFiniteSet(Up)
  <2>1. 0 \in Int /\ hi - lo \in Int
    OBVIOUS
  <2>2. IsFiniteSet(0 .. hi - lo)
    BY <2>1, FS_Interval
  <2> QED BY <2>2, FS_Subset
<1>2. \A y \in T : y \in Int /\ y - lo \in Up /\ y = (y - lo) + lo
  OBVIOUS
<1>3. Up # {}
  BY <1>2
<1>4. PICK n \in Up : \A m \in Up : m <= n
  BY <1>1, <1>3, NatGreatest
<1>5. n + lo \in T /\ \A y \in T : y <= n + lo
  <2>1. \A y \in T : y - lo <= n
    BY <1>2, <1>4
  <2> QED BY <1>1, <1>2, <1>4, <2>1
<1> QED
  BY <1>5

-----------------------------------------------------------------------------
(* MapThenSumSet of the community modules: w summed over S, one chosen     *)
(* element after the other.                                                *)
Added(s, w, g) == IF s = {} THEN 0 ELSE LET x == CHOOSE x \in s : TRUE IN w[x] + g[s \ {x}]

Unfolds(S, w, g) == g = [s \in SUBSET S |-> Added(s, w, g)]

Total(S, w) == (CHOOSE g : Unfolds(S, w, g))[S]

(* Among finite sets there is one of the least size.                       *)
LEMMA SmallestOf ==
    ASSUME NEW C, C # {}, \A s \in C : IsFiniteSet(s)
    PROVE  \E s \in C : \A t \in C : Cardinality(s) <= Cardinality(t)
<1> DEFINE T == {n \in Nat : \E s \in C : Cardinality(s) = n}
<1>1. \A s \in C : Cardinality(s) \in T
  BY FS_CardinalityType
<1>2. T \subseteq Nat /\ T # {}
  BY <1>1
<1>3. PICK n \in T : \A m \in T : n <= m
  <2> HIDE DEF T
  <2> QED BY <1>2, NatLeast
<1>4. PICK s \in C : Cardinality(s) = n
  BY <1>3
<1> QED
  BY <1>1, <1>3, <1>4

(* The element that is chosen, and what is left without it.                *)
LEMMA OneLess ==
    ASSUME NEW s, IsFiniteSet(s), s # {}, NEW x, x = CHOOSE y \in s : TRUE
    PROVE  x \in s /\ IsFiniteSet(s \ {x}) /\ Cardinality(s \ {x}) \in Nat
           /\ Cardinality(s) = Cardinality(s \ {x}) + 1
<1>1. x \in s
  OBVIOUS
<1>2. IsFiniteSet(s \ {x}) /\ Cardinality(s \ {x}) = Cardinality(s) - 1
  BY <1>1, FS_RemoveElement
<1>3. Cardinality(s) \in Nat /\ Cardinality(s \ {x}) \in Nat
  BY <1>2, FS_CardinalityType
<1> QED
  BY <1>1, <1>2, <1>3

(* The function that MapThenSumSet defines by recursion exists.            *)
LEMMA SumsExist ==
    ASSUME NEW S, IsFiniteSet(S), NEW w
    PROVE  \E g : Unfolds(S, w, g)
<1> DEFINE Small(n) == {s \in SUBSET S : Cardinality(s) <= n}
           Good(n, g) == g = [s \in Small(n) |-> Added(s, w, g)]
           Without == {n \in Nat : ~\E g : Good(n, g)}
<1>1. \A s \in SUBSET S : IsFiniteSet(s) /\ Cardinality(s) \in Nat
  BY FS_Subset, FS_CardinalityType
<1>2. \E g : Good(0, g)
  <2> DEFINE g == [s \in Small(0) |-> 0]
  <2>1. \A s \in Small(0) : s = {}
    BY <1>1, FS_EmptySet
  <2>2. \A s \in Small(0) : Added(s, w, g) = 0
    BY <2>1 DEF Added
  <2> HIDE DEF Small
  <2>3. g = [s \in Small(0) |-> Added(s, w, g)]
    <3>1. \A s \in Small(0) : g[s] = Added(s, w, g)
      BY <2>2
    <3> QED BY <3>1
  <2> QED BY <2>3
<1>3. ASSUME NEW n \in Nat, NEW g, Good(n, g)
      PROVE  \E h : Good(n + 1, h)
  <2> DEFINE h == [s \in Small(n + 1) |-> Added(s, w, g)]
  <2>1. \A s \in Small(n) : s \in Small(n + 1)
    BY <1>1
  <2>2. \A s \in Small(n) : g[s] = Added(s, w, g)
    <3> HIDE DEF Small
    <3> QED BY <1>3
  <2>3. \A s \in Small(n) : h[s] = g[s]
    <3> HIDE DEF Small
    <3> QED BY <2>1, <2>2
  <2>4. ASSUME NEW s \in Small(n + 1)
        PROVE  Added(s, w, g) = Added(s, w, h)
    <3>1. CASE s = {}
      BY <3>1 DEF Added
    <3>2. CASE s # {}
      <4> DEFINE x == CHOOSE x \in s : TRUE
      <4>1. IsFiniteSet(s) /\ s \in SUBSET S /\ Cardinality(s) <= n + 1
        BY <1>1
      <4>2. x \in s /\ Cardinality(s \ {x}) \in Nat /\ Cardinality(s) = Cardinality(s \ {x}) + 1
        BY <3>2, <4>1, OneLess
      <4>3. s \ {x} \in Small(n)
        BY <4>1, <4>2
      <4>4. g[s \ {x}] = h[s \ {x}]
        <5> HIDE DEF h, Small, x
        <5> QED BY <2>3, <4>3
      <4> QED BY <3>2, <4>4, Zenon DEF Added
    <3> QED BY <3>1, <3>2
  <2> HIDE DEF Small
  <2>5. h = [s \in Small(n + 1) |-> Added(s, w, h)]
    <3>1. \A s \in Small(n + 1) : h[s] = Added(s, w, h)
      BY <2>4
    <3> QED BY <3>1
  <2> QED BY <2>5
<1>4. \A n \in Nat : \E g : Good(n, g)
  <2>1. ASSUME Without # {} PROVE FALSE
    <3>1. Without \subseteq Nat
      OBVIOUS
    <3>2. PICK n \in Without : \A m \in Without : n <= m
      <4> HIDE DEF Without
      <4> QED BY <2>1, <3>1, NatLeast
    <3> HIDE DEF Good
    <3>3. n # 0 /\ n - 1 \in Nat
      BY <1>2, <3>2
    <3>4. n - 1 \notin Without
      BY <3>2, <3>3
    <3>5. PICK g : Good(n - 1, g)
      BY <3>3, <3>4
    <3>6. \E h : Good((n - 1) + 1, h)
      BY <1>3, <3>3, <3>5
    <3>7. (n - 1) + 1 = n
      BY <3>2
    <3> QED BY <3>2, <3>6, <3>7
  <2> QED BY <2>1
<1>5. Cardinality(S) \in Nat /\ Small(Cardinality(S)) = SUBSET S
  <2>1. \A s \in SUBSET S : Cardinality(s) <= Cardinality(S)
    BY FS_Subset
  <2> QED BY <1>1, <2>1
<1>6. PICK g : Good(Cardinality(S), g)
  BY <1>4, <1>5
<1>7. g = [s \in SUBSET S |-> Added(s, w, g)]
  <2> HIDE DEF Small
  <2> QED BY <1>5, <1>6
<1> QED
  BY <1>7 DEF Unfolds

Sums(S, w, g) == Total(S, w) = g[S] /\ \A s \in SUBSET S : g[s] = Added(s, w, g)

LEMMA TotalUnfolds == ASSUME NEW S, IsFiniteSet(S), NEW w PROVE \E g : Sums(S, w, g)
<1> DEFINE g == CHOOSE h : Unfolds(S, w, h)
<1>1. Unfolds(S, w, g)
  BY SumsExist
<1> HIDE DEF g
<1>2. \A s \in SUBSET S : g[s] = Added(s, w, g)
  BY <1>1 DEF Unfolds
<1>3. Total(S, w) = g[S]
  BY DEF Total, g
<1> QED
  BY <1>2, <1>3 DEF Sums

(* A sum of what is at most b times w is at most b times the sum of w.     *)
LEMMA TotalsCompare ==
    ASSUME NEW S, IsFiniteSet(S), NEW w, NEW p, NEW b \in Nat,
           \A x \in S : w[x] \in Nat /\ p[x] \in Nat /\ p[x] <= b * w[x]
    PROVE  Total(S, w) \in Nat /\ Total(S, p) \in Nat /\ Total(S, p) <= b * Total(S, w)
<1>10. PICK g : Sums(S, w, g)
  BY TotalUnfolds
<1>1. Total(S, w) = g[S] /\ \A s \in SUBSET S : g[s] = Added(s, w, g)
  BY <1>10 DEF Sums
<1>20. PICK h : Sums(S, p, h)
  BY TotalUnfolds
<1>2. Total(S, p) = h[S] /\ \A s \in SUBSET S : h[s] = Added(s, p, h)
  BY <1>20 DEF Sums
<1> DEFINE Fine(s) == g[s] \in Nat /\ h[s] \in Nat /\ h[s] <= b * g[s]
           Bad == {s \in SUBSET S : ~Fine(s)}
<1>3. \A s \in SUBSET S : IsFiniteSet(s)
  BY FS_Subset
<1>4. ASSUME Bad # {} PROVE FALSE
  <2>1. PICK s \in Bad : \A t \in Bad : Cardinality(s) <= Cardinality(t)
    <3>1. \A t \in Bad : IsFiniteSet(t)
      BY <1>3
    <3> HIDE DEF Bad
    <3> QED BY <1>4, <3>1, SmallestOf
  <2>2. s \in SUBSET S /\ ~Fine(s)
    BY <2>1
  <2>3. CASE s = {}
    <3>1. g[s] = 0 /\ h[s] = 0
      BY <1>1, <1>2, <2>2, <2>3 DEF Added
    <3> QED BY <2>2, <3>1
  <2>4. CASE s # {}
    <3> DEFINE x == CHOOSE x \in s : TRUE
    <3>1. x \in s /\ Cardinality(s \ {x}) \in Nat /\ Cardinality(s) = Cardinality(s \ {x}) + 1
      BY <1>3, <2>2, <2>4, OneLess
    <3>2. s \ {x} \notin Bad
      <4>1. ~(Cardinality(s) <= Cardinality(s \ {x}))
        BY <3>1
      <4> HIDE DEF Bad, x
      <4> QED BY <2>1, <4>1
    <3>3. g[s] = w[x] + g[s \ {x}] /\ h[s] = p[x] + h[s \ {x}]
      BY <1>1, <1>2, <2>2, <2>4, Zenon DEF Added
    <3> HIDE DEF x
    <3>4. w[x] \in Nat /\ p[x] \in Nat /\ p[x] <= b * w[x] /\ Fine(s \ {x})
      BY <2>2, <3>1, <3>2
    <3>5. Fine(s)
      <4> DEFINE i == w[x]
                 j == p[x]
                 k == g[s \ {x}]
                 l == h[s \ {x}]
      <4>1. i \in Nat /\ j \in Nat /\ j <= b * i /\ k \in Nat /\ l \in Nat /\ l <= b * k
        BY <3>4
      <4>2. g[s] = i + k /\ h[s] = j + l
        BY <3>3
      <4> HIDE DEF i, j, k, l
      <4>3. b * (i + k) = b * i + b * k /\ b * i \in Nat /\ b * k \in Nat
        BY <4>1
      <4> QED BY <4>1, <4>2, <4>3
    <3> QED BY <2>2, <3>5
  <2> QED BY <2>3, <2>4
<1>5. S \in SUBSET S /\ S \notin Bad
  BY <1>4
<1> QED
  BY <1>1, <1>2, <1>5

(* Summed over values, how often each is taken is how many take one.       *)
LEMMA TotalCounts ==
    ASSUME NEW S, IsFiniteSet(S), NEW I, IsFiniteSet(I), NEW f, NEW w,
           \A c \in S : w[c] = Cardinality({i \in I : f[i] = c})
    PROVE  Total(S, w) = Cardinality({i \in I : f[i] \in S})
<1>10. PICK g : Sums(S, w, g)
  BY TotalUnfolds
<1>1. Total(S, w) = g[S] /\ \A s \in SUBSET S : g[s] = Added(s, w, g)
  BY <1>10 DEF Sums
<1> DEFINE Takers(s) == {i \in I : f[i] \in s}
           Fine(s) == g[s] = Cardinality(Takers(s))
           Bad == {s \in SUBSET S : ~Fine(s)}
<1>2. \A s \in SUBSET S : IsFiniteSet(s)
  BY FS_Subset
<1>3. ASSUME Bad # {} PROVE FALSE
  <2>1. PICK s \in Bad : \A t \in Bad : Cardinality(s) <= Cardinality(t)
    <3>1. \A t \in Bad : IsFiniteSet(t)
      BY <1>2
    <3> HIDE DEF Bad
    <3> QED BY <1>3, <3>1, SmallestOf
  <2>2. s \in SUBSET S /\ ~Fine(s)
    BY <2>1
  <2>3. CASE s = {}
    <3>1. g[s] = 0
      BY <1>1, <2>2, <2>3 DEF Added
    <3>2. Takers(s) = {}
      BY <2>3
    <3> QED BY <2>2, <3>1, <3>2, FS_EmptySet
  <2>4. CASE s # {}
    <3> DEFINE x == CHOOSE x \in s : TRUE
    <3>1. x \in s /\ Cardinality(s \ {x}) \in Nat /\ Cardinality(s) = Cardinality(s \ {x}) + 1
      BY <1>2, <2>2, <2>4, OneLess
    <3>2. s \ {x} \notin Bad
      <4>1. ~(Cardinality(s) <= Cardinality(s \ {x}))
        BY <3>1
      <4> HIDE DEF Bad, x
      <4> QED BY <2>1, <4>1
    <3>3. g[s] = w[x] + g[s \ {x}]
      BY <1>1, <2>2, <2>4, Zenon DEF Added
    <3> HIDE DEF x
    <3> DEFINE A == {i \in I : f[i] = x}
               B == Takers(s \ {x})
    <3>4. w[x] = Cardinality(A) /\ g[s \ {x}] = Cardinality(B)
      BY <2>2, <3>1, <3>2
    <3>5. IsFiniteSet(A) /\ IsFiniteSet(B) /\ A \cap B = {} /\ Takers(s) = A \cup B
      <4>1. A \subseteq I /\ B \subseteq I
        OBVIOUS
      <4>2. A \cap B = {} /\ Takers(s) = A \cup B
        BY <3>1
      <4> QED BY <4>1, <4>2, FS_Subset
    <3>6. Cardinality(Takers(s)) = Cardinality(A) + Cardinality(B)
      <4> HIDE DEF A, B, Takers
      <4>1. Cardinality(A \cup B) = Cardinality(A) + Cardinality(B) - Cardinality(A \cap B)
        BY <3>5, FS_Union
      <4>2. Cardinality(A) \in Nat /\ Cardinality(B) \in Nat /\ Cardinality(A \cap B) = 0
        BY <3>5, FS_CardinalityType, FS_EmptySet
      <4> QED BY <3>5, <4>1, <4>2
    <3> QED BY <2>2, <3>3, <3>4, <3>6
  <2> QED BY <2>3, <2>4
<1>4. S \in SUBSET S /\ S \notin Bad
  BY <1>3
<1> QED
  BY <1>1, <1>4

LEMMA TotalOfOne == ASSUME NEW x, NEW w, w[x] \in Int PROVE Total({x}, w) = w[x]
<1>1. IsFiniteSet({x})
  BY FS_Singleton
<1>10. PICK g : Sums({x}, w, g)
  BY <1>1, TotalUnfolds
<1>2. Total({x}, w) = g[{x}] /\ \A s \in SUBSET {x} : g[s] = Added(s, w, g)
  BY <1>10 DEF Sums
<1>3. g[{}] = 0
  BY <1>2 DEF Added
<1>4. (CHOOSE y \in {x} : TRUE) = x /\ {x} \ {x} = {}
  OBVIOUS
<1>5. g[{x}] = w[x] + g[{}]
  BY <1>2, <1>4 DEF Added
<1> QED
  BY <1>2, <1>3, <1>5

(* A quotient is at most what the dividend is a multiple of.               *)
LEMMA QuotientBelow ==
    ASSUME NEW a \in Nat, NEW b \in Nat, b > 0, NEW k \in Nat, a <= k * b
    PROVE  a \div b \in Nat /\ a \div b <= k
<1> DEFINE q == a \div b
<1>1. q \in Nat /\ q * b <= a
  OBVIOUS
<1> HIDE DEF q
<1>2. ASSUME q >= k + 1 PROVE FALSE
  <2>1. q * b >= (k + 1) * b
    BY <1>1, <1>2
  <2>2. (k + 1) * b = k * b + b /\ k * b \in Nat /\ q * b \in Nat
    BY <1>1
  <2> QED BY <1>1, <2>1, <2>2
<1> QED
  BY <1>1, <1>2 DEF q
=============================================================================
