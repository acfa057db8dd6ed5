-------------------------------- MODULE Lemmas --------------------------------
(***************************************************************************)
(* What the proofs of several components need of the library's operators:  *)
(* least elements, sums, sequences, functions defined step by step, and    *)
(* sequences that list a set.                                              *)
(*                                                                         *)
(* MapThenSumSet is defined by recursion over the subsets of the set it    *)
(* sums over; the proofs need that it takes the elements in any order.     *)
(* There is no induction rule to cite for this: each lemma looks at a      *)
(* smallest set that refutes it.                                           *)
(***************************************************************************)
EXTENDS Integers, Sequences, SequencesExt, FiniteSetsExt, FiniteSetTheorems, SequenceTheorems,
        WellFoundedInduction, TLAPS

\* The element a sum takes out of a set next.
PickOf(S) == CHOOSE x \in S : TRUE

\* g holds the sum of each subset of S.
SumsUp(g, f, S) ==
  g = [T \in SUBSET S |-> IF T = {} THEN 0 ELSE f[PickOf(T)] + g[T \ {PickOf(T)}]]

PartialSums(f, S) == CHOOSE g : SumsUp(g, f, S)

SumOf(f, S) == MapThenSumSet(LAMBDA x : f[x], S)

\* SumOf is the partial sum of the whole set.
LEMMA SumOfIsPartialSum ==
  ASSUME NEW f, NEW S
  PROVE  SumOf(f, S) = PartialSums(f, S)[S]
BY DEF SumOf, MapThenSumSet, MapThenFoldSet, PartialSums, SumsUp, PickOf

\* A set of subsets of a finite set has a smallest member.
LEMMA SmallestSet ==
  ASSUME NEW S, IsFiniteSet(S), NEW B \in SUBSET SUBSET S, B # {}
  PROVE  \E T \in B : \A U \in B : U \subseteq T => U = T
<1>1. B \subseteq FiniteSubsetsOf(S)
  BY FS_FiniteSubsetsOfFinite
<1>2. \E T \in B : \A U \in B : ~(<<U, T>> \in StrictSubsetOrdering(S))
  BY <1>1, FS_StrictSubsetOrderingWellFounded, WFMin
<1>3. QED
  BY <1>2 DEF StrictSubsetOrdering

\* So has a set of numbers a least one.
LEMMA SmallestNumber ==
  ASSUME NEW B \in SUBSET Nat, B # {}
  PROVE  \E n \in B : \A m \in B : n <= m
<1>1. PICK top \in B : TRUE
  OBVIOUS
<1>. DEFINE R == 0..top
            C == {0..m : m \in {k \in B : k <= top}}
<1>2. C \in SUBSET SUBSET R /\ C # {}
  BY <1>1
<1>3. IsFiniteSet(R)
  BY <1>1, FS_Interval
<1>4. PICK T \in C : \A U \in C : U \subseteq T => U = T
  <2>. HIDE DEF C, R
  <2>. QED
    BY <1>2, <1>3, SmallestSet
<1>5. PICK n \in B : n <= top /\ T = 0..n
  BY <1>4
<1>6. ASSUME NEW m \in B, m < n
      PROVE  FALSE
  <2>1. 0..m \in C /\ 0..m \subseteq T
    BY <1>1, <1>5, <1>6
  <2>2. 0..m = 0..n
    BY <2>1, <1>4, <1>5
  <2>3. n \in 0..n /\ n \notin 0..m
    BY <1>6
  <2>4. QED
    BY <2>2, <2>3
<1>7. QED
  BY <1>5, <1>6

\* A finite set of integers has a least element.
LEMMA MinIsLeast ==
  ASSUME NEW S, IsFiniteSet(S), S # {}, \A x \in S : x \in Int
  PROVE  Min(S) \in S /\ \A y \in S : Min(S) <= y
<1>. DEFINE upto(y) == {x \in S : x <= y}
            B == {upto(y) : y \in S}
<1>1. B \in SUBSET SUBSET S /\ B # {}
  OBVIOUS
<1>2. PICK T \in B : \A U \in B : U \subseteq T => U = T
  <2>1. B \in SUBSET SUBSET S
    BY <1>1
  <2>2. B # {}
    BY <1>1
  <2>. HIDE DEF B, upto
  <2>. QED
    BY <2>1, <2>2, SmallestSet
<1>3. PICK m \in S : T = upto(m)
  OBVIOUS
<1>4. ASSUME NEW y \in S, y < m
      PROVE  FALSE
  <2>1. upto(y) \subseteq upto(m)
    <3>1. \A x \in Int : x <= y => x <= m
      BY <1>4
    <3>2. QED
      BY <3>1
  <2>2. upto(y) = upto(m)
    BY <1>2, <1>3, <2>1
  <2>3. m \in upto(m) /\ m \notin upto(y)
    BY <1>4
  <2>4. QED
    BY <2>2, <2>3
<1>5. \A y \in S : m <= y
  BY <1>4
<1>6. QED
  BY <1>5 DEF Min

\* The greater and the lesser of two numbers.
LEMMA MaxOfTwo ==
  ASSUME NEW a \in Int, NEW b \in Int
  PROVE  /\ Max({a, b}) = (IF a <= b THEN b ELSE a)
         /\ Min({a, b}) = (IF a <= b THEN a ELSE b)
<1>1. \E x \in {a, b} : \A y \in {a, b} : x >= y
  OBVIOUS
<1>2. \E x \in {a, b} : \A y \in {a, b} : x <= y
  OBVIOUS
<1>. DEFINE top == Max({a, b})
            low == Min({a, b})
<1>3. top \in {a, b} /\ \A y \in {a, b} : top >= y
  BY <1>1 DEF Max
<1>4. low \in {a, b} /\ \A y \in {a, b} : low <= y
  BY <1>2 DEF Min
<1>5. QED
  BY <1>3, <1>4

\* Two such functions agree on the sets they have in common.
LEMMA SumsAgree ==
  ASSUME NEW f, NEW S, IsFiniteSet(S), NEW T \in SUBSET S,
         NEW g, SumsUp(g, f, S), NEW h, SumsUp(h, f, T)
  PROVE  \A U \in SUBSET T : g[U] = h[U]
<1>. DEFINE B == {U \in SUBSET T : g[U] # h[U]}
<1>1. SUFFICES ASSUME B # {} PROVE FALSE
  OBVIOUS
<1>2. B \in SUBSET SUBSET S
  OBVIOUS
<1>3. PICK U \in B : \A V \in B : V \subseteq U => V = U
  <2>. HIDE DEF B
  <2>. QED
    BY <1>1, <1>2, SmallestSet
<1>4. U \in SUBSET S /\ U \in SUBSET T
  BY <1>3
<1>5. CASE U = {}
  BY <1>3, <1>4, <1>5 DEF SumsUp
<1>6. CASE U # {}
  <2>. DEFINE V == U \ {PickOf(U)}
  <2>1. PickOf(U) \in U
    BY <1>6 DEF PickOf
  <2>2. V \in SUBSET T /\ V # U /\ V \subseteq U
    BY <2>1, <1>4
  <2>3. g[V] = h[V]
    BY <2>2, <1>3
  <2>4. g[U] = f[PickOf(U)] + g[V] /\ h[U] = f[PickOf(U)] + h[V]
    BY <1>4, <1>6 DEF SumsUp
  <2>5. QED
    BY <2>3, <2>4, <1>3
<1>7. QED
  BY <1>5, <1>6

\* There are partial sums along every enumeration.
LEMMA PartialSumsExist ==
  ASSUME NEW f, NEW S, IsFiniteSet(S)
  PROVE  SumsUp(PartialSums(f, S), f, S)
<1>. DEFINE B == {T \in SUBSET S : ~SumsUp(PartialSums(f, T), f, T)}
<1>1. SUFFICES ASSUME B # {} PROVE FALSE
  OBVIOUS
<1>2. PICK T \in B : \A U \in B : U \subseteq T => U = T
  <2>1. B \in SUBSET SUBSET S
    OBVIOUS
  <2>. HIDE DEF B
  <2>. QED
    BY <1>1, <2>1, SmallestSet
<1>3. T \in SUBSET S
  BY <1>2
<1>4. ASSUME NEW U \in SUBSET T, U # T
      PROVE  SumsUp(PartialSums(f, U), f, U) /\ IsFiniteSet(U)
  BY <1>2, <1>4, <1>3, FS_Subset
<1>. DEFINE below(U) == PartialSums(f, U)[U]
            g == [U \in SUBSET T |->
                    IF U = {} THEN 0 ELSE f[PickOf(U)] + below(U \ {PickOf(U)})]
<1>5. ASSUME NEW U \in SUBSET T, U # {}
      PROVE  g[U \ {PickOf(U)}] = below(U \ {PickOf(U)})
  <2>. DEFINE V == U \ {PickOf(U)}
              W == V \ {PickOf(V)}
  <2>1. PickOf(U) \in U
    BY <1>5 DEF PickOf
  <2>2. V \in SUBSET T /\ V # T
    BY <2>1
  <2>3. SumsUp(PartialSums(f, V), f, V) /\ IsFiniteSet(V)
    BY <2>2, <1>4
  <2>4. CASE V = {}
    BY <2>2, <2>3, <2>4 DEF SumsUp
  <2>5. CASE V # {}
    <3>1. W \in SUBSET V /\ W \in SUBSET T /\ W # T
      BY <2>2
    <3>2. SumsUp(PartialSums(f, W), f, W)
      BY <3>1, <1>4
    <3>3. PartialSums(f, V)[W] = below(W)
      <4>. HIDE DEF V, W
      <4>1. W \in SUBSET W
        OBVIOUS
      <4>2. \A U1 \in SUBSET W : PartialSums(f, V)[U1] = PartialSums(f, W)[U1]
        BY <3>1, <3>2, <2>3, SumsAgree
      <4>3. QED
        BY <4>1, <4>2
    <3>4. PartialSums(f, V)[V] = f[PickOf(V)] + PartialSums(f, V)[W]
      BY <2>3, <2>5 DEF SumsUp
    <3>5. g[V] = f[PickOf(V)] + below(W)
      BY <2>2, <2>5
    <3>6. QED
      BY <3>3, <3>4, <3>5
  <2>6. QED
    BY <2>4, <2>5
<1>6. SumsUp(g, f, T)
  BY <1>5 DEF SumsUp
<1>7. SumsUp(PartialSums(f, T), f, T)
  BY <1>6 DEF PartialSums
<1>8. QED
  BY <1>2, <1>7

\* The sum over nothing.
LEMMA SumEmpty ==
  ASSUME NEW f
  PROVE  SumOf(f, {}) = 0
<1>1. SumsUp(PartialSums(f, {}), f, {})
  BY PartialSumsExist, FS_EmptySet
<1>2. PartialSums(f, {})[{}] = 0
  <2>1. {} \in SUBSET {}
    OBVIOUS
  <2>2. QED
    BY <1>1, <2>1 DEF SumsUp
<1>3. QED
  BY <1>2, SumOfIsPartialSum

\* The recursion, one step.
LEMMA SumStep ==
  ASSUME NEW f, NEW S, IsFiniteSet(S), S # {}
  PROVE  SumOf(f, S) = f[PickOf(S)] + SumOf(f, S \ {PickOf(S)})
<1>. DEFINE T == S \ {PickOf(S)}
<1>1. IsFiniteSet(T) /\ T \in SUBSET S /\ T \in SUBSET T /\ S \in SUBSET S
  BY FS_Subset
<1>2. SumsUp(PartialSums(f, S), f, S) /\ SumsUp(PartialSums(f, T), f, T)
  BY <1>1, PartialSumsExist
<1>3. PartialSums(f, S)[T] = PartialSums(f, T)[T]
  <2>. HIDE DEF T
  <2>. QED
    BY <1>1, <1>2, SumsAgree
<1>4. PartialSums(f, S)[S] = f[PickOf(S)] + PartialSums(f, S)[T]
  BY <1>1, <1>2 DEF SumsUp
<1>5. QED
  BY <1>3, <1>4, SumOfIsPartialSum

\* A sum of integers is one, and any element can be taken out of it.
LEMMA SumTakeOut ==
  ASSUME NEW f, NEW S, IsFiniteSet(S), \A x \in S : f[x] \in Int
  PROVE  /\ SumOf(f, S) \in Int
         /\ \A y \in S : SumOf(f, S) = f[y] + SumOf(f, S \ {y})
<1>. DEFINE good(T) == /\ SumOf(f, T) \in Int
                       /\ \A y \in T : SumOf(f, T) = f[y] + SumOf(f, T \ {y})
            B == {T \in SUBSET S : ~good(T)}
<1>1. SUFFICES ASSUME B # {} PROVE FALSE
  OBVIOUS
<1>2. PICK T \in B : \A U \in B : U \subseteq T => U = T
  <2>1. B \in SUBSET SUBSET S
    OBVIOUS
  <2>. HIDE DEF B
  <2>. QED
    BY <1>1, <2>1, SmallestSet
<1>3. T \in SUBSET S /\ IsFiniteSet(T)
  BY <1>2, FS_Subset
<1>4. \A U \in SUBSET T : U # T => good(U)
  BY <1>2, <1>3
<1>. HIDE DEF B, good
<1>5. CASE T = {}
  BY <1>2, <1>5, SumEmpty DEF B, good
<1>6. CASE T # {}
  <2>. DEFINE p == PickOf(T)
  <2>1. p \in T
    BY <1>6 DEF PickOf
  <2>2. SumOf(f, T) = f[p] + SumOf(f, T \ {p})
    BY <1>3, <1>6, SumStep
  <2>. HIDE DEF p
  <2>3. good(T \ {p})
    BY <1>4, <2>1
  <2>4. f[p] \in Int /\ SumOf(f, T \ {p}) \in Int
    BY <1>3, <2>1, <2>3 DEF good
  <2>5. ASSUME NEW y \in T
        PROVE  SumOf(f, T) = f[y] + SumOf(f, T \ {y})
    <3>1. CASE y = p
      BY <3>1, <2>2
    <3>2. CASE y # p
      <4>1. good(T \ {y})
        BY <1>4
      <4>. DEFINE U == T \ {p, y}
      <4>2. (T \ {p}) \ {y} = U /\ (T \ {y}) \ {p} = U
        OBVIOUS
      <4>3. U \in SUBSET T /\ U # T
        BY <2>1
      <4>. HIDE DEF U
      <4>4. SumOf(f, U) \in Int /\ f[y] \in Int
        BY <1>3, <1>4, <4>3 DEF good
      <4>5. SumOf(f, T \ {p}) = f[y] + SumOf(f, U)
        BY <2>3, <3>2, <4>2 DEF good
      <4>6. SumOf(f, T \ {y}) = f[p] + SumOf(f, U)
        BY <2>1, <3>2, <4>1, <4>2 DEF good
      <4>7. QED
        BY <2>2, <2>4, <4>4, <4>5, <4>6
    <3>3. QED
      BY <3>1, <3>2
  <2>6. good(T)
    <3>1. SumOf(f, T) \in Int
      BY <2>2, <2>4
    <3>2. QED
      BY <3>1, <2>5 DEF good
  <2>7. QED
    BY <1>2, <2>6 DEF B
<1>7. QED
  BY <1>5, <1>6

\* One element more.
LEMMA SumAdd ==
  ASSUME NEW f, NEW S, IsFiniteSet(S), NEW y, y \notin S,
         \A x \in S \cup {y} : f[x] \in Int
  PROVE  SumOf(f, S \cup {y}) = f[y] + SumOf(f, S)
<1>1. IsFiniteSet(S \cup {y}) /\ (S \cup {y}) \ {y} = S
  BY FS_AddElement
<1>2. QED
  BY <1>1, SumTakeOut

\* Sums of natural numbers are natural numbers.
LEMMA SumNat ==
  ASSUME NEW f, NEW S, IsFiniteSet(S), \A x \in S : f[x] \in Nat
  PROVE  SumOf(f, S) \in Nat
<1>. DEFINE B == {T \in SUBSET S : SumOf(f, T) \notin Nat}
<1>1. SUFFICES ASSUME B # {} PROVE FALSE
  OBVIOUS
<1>2. PICK T \in B : \A U \in B : U \subseteq T => U = T
  <2>1. B \in SUBSET SUBSET S
    OBVIOUS
  <2>. HIDE DEF B
  <2>. QED
    BY <1>1, <2>1, SmallestSet
<1>3. T \in SUBSET S /\ IsFiniteSet(T)
  BY <1>2, FS_Subset
<1>4. PICK y \in T : TRUE
  <2>1. SumOf(f, {}) = 0
    BY SumEmpty
  <2>2. QED
    BY <1>2, <2>1
<1>5. SumOf(f, T \ {y}) \in Nat
  BY <1>2, <1>3, <1>4
<1>6. SumOf(f, T) = f[y] + SumOf(f, T \ {y})
  BY <1>3, <1>4, SumTakeOut
<1>7. QED
  BY <1>2, <1>3, <1>5, <1>6

\* Functions with the same values have the same sum.
LEMMA SumSame ==
  ASSUME NEW f, NEW g, NEW S, IsFiniteSet(S),
         \A x \in S : f[x] \in Int /\ f[x] = g[x]
  PROVE  SumOf(f, S) = SumOf(g, S)
<1>. DEFINE B == {T \in SUBSET S : SumOf(f, T) # SumOf(g, T)}
<1>1. SUFFICES ASSUME B # {} PROVE FALSE
  OBVIOUS
<1>2. PICK T \in B : \A U \in B : U \subseteq T => U = T
  <2>1. B \in SUBSET SUBSET S
    OBVIOUS
  <2>. HIDE DEF B
  <2>. QED
    BY <1>1, <2>1, SmallestSet
<1>3. T \in SUBSET S /\ IsFiniteSet(T)
  BY <1>2, FS_Subset
<1>4. PICK y \in T : TRUE
  BY <1>2, SumEmpty
<1>5. SumOf(f, T \ {y}) = SumOf(g, T \ {y})
  BY <1>2, <1>3, <1>4
<1>6. /\ SumOf(f, T) = f[y] + SumOf(f, T \ {y})
      /\ SumOf(g, T) = g[y] + SumOf(g, T \ {y})
  BY <1>3, <1>4, SumTakeOut
<1>7. QED
  BY <1>2, <1>3, <1>4, <1>5, <1>6

\* A change of one number changes the sum by as much.
LEMMA SumChange ==
  ASSUME NEW f, NEW g, NEW S, IsFiniteSet(S), NEW y \in S,
         \A x \in S : f[x] \in Int /\ g[x] \in Int,
         \A x \in S \ {y} : f[x] = g[x]
  PROVE  /\ SumOf(f, S) \in Int /\ SumOf(g, S) \in Int
         /\ SumOf(g, S) - SumOf(f, S) = g[y] - f[y]
<1>1. SumOf(f, S) \in Int /\ SumOf(f, S) = f[y] + SumOf(f, S \ {y})
  BY SumTakeOut
<1>2. SumOf(g, S) \in Int /\ SumOf(g, S) = g[y] + SumOf(g, S \ {y})
  BY SumTakeOut
<1>3. IsFiniteSet(S \ {y})
  BY FS_RemoveElement
<1>4. SumOf(f, S \ {y}) = SumOf(g, S \ {y})
  BY <1>3, SumSame
<1>5. SumOf(f, S \ {y}) \in Int
  BY <1>3, SumTakeOut
<1>6. QED
  BY <1>1, <1>2, <1>4, <1>5

\* Equal numbers add up to a multiple.
LEMMA SumConstant ==
  ASSUME NEW f, NEW S, IsFiniteSet(S), NEW c \in Int, \A x \in S : f[x] = c
  PROVE  SumOf(f, S) = Cardinality(S) * c
<1>. DEFINE B == {T \in SUBSET S : SumOf(f, T) # Cardinality(T) * c}
<1>1. SUFFICES ASSUME B # {} PROVE FALSE
  <2>1. S \notin B => SumOf(f, S) = Cardinality(S) * c
    OBVIOUS
  <2>2. QED
    BY <2>1
<1>2. PICK T \in B : \A U \in B : U \subseteq T => U = T
  <2>1. B \in SUBSET SUBSET S
    OBVIOUS
  <2>. HIDE DEF B
  <2>. QED
    BY <1>1, <2>1, SmallestSet
<1>3. T \in SUBSET S /\ SumOf(f, T) # Cardinality(T) * c
  OBVIOUS
<1>4. IsFiniteSet(T) /\ Cardinality(T) \in Nat
  BY <1>3, FS_Subset, FS_CardinalityType
<1>5. T # {}
  BY <1>3, SumEmpty, FS_EmptySet
<1>6. PICK y \in T : TRUE
  BY <1>5
<1>7. SumOf(f, T) = f[y] + SumOf(f, T \ {y})
  <2>1. \A x \in T : f[x] \in Int
    BY <1>3
  <2>2. QED
    BY <1>4, <2>1, SumTakeOut
<1>8. IsFiniteSet(T \ {y}) /\ Cardinality(T \ {y}) = Cardinality(T) - 1
  BY <1>4, FS_RemoveElement
<1>9. T \ {y} \notin B
  BY <1>2
<1>10. SumOf(f, T \ {y}) = Cardinality(T \ {y}) * c
  BY <1>3, <1>9
<1>11. f[y] = c
  BY <1>3
<1>12. \A n \in Nat : c + (n - 1) * c = n * c
  OBVIOUS
<1>13. QED
  BY <1>3, <1>4, <1>7, <1>8, <1>10, <1>11, <1>12

-------------------------------------------------------------------------------
\* A sequence without its k-th element: the rest keep their order.
LEMMA TakeOutElement ==
  ASSUME NEW T, NEW q \in Seq(T), NEW k \in 1..Len(q)
  PROVE  LET r == SubSeq(q, 1, k - 1) \o SubSeq(q, k + 1, Len(q))
         IN  /\ r \in Seq(T)
             /\ Len(r) = Len(q) - 1
             /\ \A j \in 1..(Len(q) - 1) : r[j] = q[IF j < k THEN j ELSE j + 1]
<1>. DEFINE s == SubSeq(q, 1, k - 1)
            t == SubSeq(q, k + 1, Len(q))
            n == Len(q)
<1>1. n \in Nat /\ k \in Nat /\ k >= 1 /\ k <= n
  OBVIOUS
<1>2. /\ s \in Seq(T) /\ Len(s) = k - 1
      /\ \A j \in 1..(k - 1) : s[j] = q[j]
  OBVIOUS
<1>3. /\ t \in Seq(T) /\ Len(t) = n - k
      /\ \A j \in 1..(n - k) : t[j] = q[j + k]
  OBVIOUS
<1>. HIDE DEF s, t, n
<1>4. /\ s \o t \in Seq(T)
      /\ Len(s \o t) = Len(s) + Len(t)
      /\ \A j \in 1..Len(s) + Len(t) :
           (s \o t)[j] = IF j <= Len(s) THEN s[j] ELSE t[j - Len(s)]
  BY <1>2, <1>3, ConcatProperties
<1>5. Len(s \o t) = n - 1
  BY <1>1, <1>2, <1>3, <1>4
<1>6. ASSUME NEW j \in 1..(n - 1)
      PROVE  (s \o t)[j] = q[IF j < k THEN j ELSE j + 1]
  <2>1. j \in Nat /\ j \in 1..Len(s) + Len(t)
    BY <1>1, <1>2, <1>3
  <2>2. CASE j < k
    BY <1>1, <1>2, <1>4, <2>1, <2>2
  <2>3. CASE ~(j < k)
    <3>1. j - (k - 1) \in 1..(n - k) /\ ~(j <= k - 1) /\ (j - (k - 1)) + k = j + 1
      BY <1>1, <2>1, <2>3
    <3>2. (s \o t)[j] = t[j - (k - 1)]
      BY <1>2, <1>4, <2>1, <3>1
    <3>3. t[j - (k - 1)] = q[j + 1]
      BY <1>3, <3>1
    <3>4. QED
      BY <2>3, <3>2, <3>3
  <2>4. QED
    BY <2>2, <2>3
<1>7. QED
  BY <1>4, <1>5, <1>6 DEF s, t, n

-------------------------------------------------------------------------------
\* FlattenSeq is defined by recursion over the length of the prefix.
FlattensUp(g, s) ==
  g = [i \in 1..Len(s) |-> IF i = 1 THEN s[i] ELSE g[i - 1] \o s[i]]

Flattened(s) == CHOOSE g : FlattensUp(g, s)

\* FlattenSeq is the last of the partial concatenations.
LEMMA FlattenIsLast ==
  ASSUME NEW s
  PROVE  FlattenSeq(s) = IF Len(s) = 0 THEN s ELSE Flattened(s)[Len(s)]
BY DEF FlattenSeq, Flattened, FlattensUp

\* The partial concatenations of a sequence and of a longer one agree.
LEMMA FlattensAgree ==
  ASSUME NEW S, NEW s \in Seq(S), NEW x \in S, NEW g, NEW h,
         FlattensUp(g, s), FlattensUp(h, Append(s, x))
  PROVE  \A i \in 1..Len(s) : g[i] = h[i]
<1>. DEFINE t == Append(s, x)
<1>0. Len(s) <= Len(t) /\ \A i \in 1..Len(s) : s[i] = t[i]
  OBVIOUS
<1>. HIDE DEF t
<1>. DEFINE B == {i \in 1..Len(s) : g[i] # h[i]}
<1>1. SUFFICES ASSUME B # {} PROVE FALSE
  OBVIOUS
<1>2. PICK i \in B : \A j \in B : i <= j
  <2>1. B \in SUBSET Nat
    OBVIOUS
  <2>. HIDE DEF B
  <2>2. QED
    BY <1>1, <2>1, SmallestNumber
<1>3. i \in 1..Len(s) /\ i \in 1..Len(t) /\ g[i] # h[i] /\ s[i] = t[i] /\ i \in Nat
  BY <1>0, <1>2
<1>4. i # 1
  BY <1>3 DEF FlattensUp, t
<1>5. i - 1 \in 1..Len(s) /\ ~(i <= i - 1)
  BY <1>3, <1>4
<1>6. g[i - 1] = h[i - 1]
  BY <1>2, <1>5
<1>7. g[i] = g[i - 1] \o s[i]
  BY <1>3, <1>4, Zenon DEF FlattensUp, t
<1>8. h[i] = h[i - 1] \o t[i]
  BY <1>3, <1>4, Zenon DEF FlattensUp, t
<1>9. QED
  BY <1>3, <1>6, <1>7, <1>8

\* There are partial concatenations of every sequence of sequences.
LEMMA FlattenedExists ==
  ASSUME NEW S, NEW s \in Seq(S)
  PROVE  FlattensUp(Flattened(s), s)
<1>. DEFINE P(n) == \A t \in Seq(S) : Len(t) = n => FlattensUp(Flattened(t), t)
            B == {n \in Nat : ~P(n)}
<1>1. SUFFICES ASSUME B # {} PROVE FALSE
  <2>1. Len(s) \in Nat
    OBVIOUS
  <2>2. QED
    BY <2>1
<1>2. PICK n \in B : \A m \in B : n <= m
  <2>1. B \in SUBSET Nat
    OBVIOUS
  <2>. HIDE DEF B
  <2>2. QED
    BY <1>1, <2>1, SmallestNumber
<1>3. PICK t \in Seq(S) : Len(t) = n /\ ~FlattensUp(Flattened(t), t)
  BY <1>2
<1>4. n \in Nat
  BY <1>2
<1>5. CASE n = 0
  <2>. DEFINE g == [i \in 1..Len(t) |-> t[i]]
  <2>1. FlattensUp(g, t)
    BY <1>3, <1>5 DEF FlattensUp
  <2>2. QED
    BY <1>3, <2>1 DEF Flattened
<1>6. CASE n # 0
  <2>. DEFINE u == SubSeq(t, 1, n - 1)
              f == Flattened(u)
              g == [i \in 1..Len(t) |-> IF i = n /\ i # 1 THEN f[n - 1] \o t[n]
                                        ELSE IF i = 1 THEN t[i] ELSE f[i]]
  <2>1. n - 1 \in Nat /\ ~(n <= n - 1)
    BY <1>4, <1>6
  <2>2. u \in Seq(S) /\ Len(u) = n - 1 /\ \A i \in 1..(n - 1) : u[i] = t[i]
    BY <1>3, <2>1
  <2>3. FlattensUp(f, u)
    <3>1. n - 1 \notin B
      BY <1>2, <2>1
    <3>2. QED
      BY <3>1, <2>1, <2>2
  <2>. HIDE DEF u, f
  <2>4. ASSUME NEW i \in 1..n, i # 1
        PROVE  g[i] = g[i - 1] \o t[i]
    <3>1. i - 1 \in 1..n /\ i - 1 # n /\ i \in Nat /\ i - 1 \in 1..(n - 1)
      BY <2>4, <1>4
    <3>2. g[i - 1] = f[i - 1]
      <4>1. CASE i - 1 = 1
        <5>1. f[1] = u[1]
          BY <2>2, <2>3, <3>1, <4>1 DEF FlattensUp
        <5>2. QED
          BY <5>1, <2>2, <3>1, <4>1, <1>3
      <4>2. QED
        BY <3>1, <4>1, <1>3
    <3>3. CASE i = n
      BY <3>2, <3>3, <2>4, <1>3
    <3>4. CASE i # n
      <4>1. i \in 1..(n - 1)
        BY <3>4, <1>4
      <4>2. f[i] = f[i - 1] \o u[i]
        BY <4>1, <2>2, <2>3, <2>4 DEF FlattensUp
      <4>3. QED
        BY <4>1, <4>2, <3>2, <3>4, <2>2, <2>4, <1>3
    <3>5. QED
      BY <3>3, <3>4
  <2>5. 1 \in 1..n => g[1] = t[1]
    BY <1>3
  <2>6. FlattensUp(g, t)
    <3>1. g = [i \in 1..Len(t) |-> g[i]]
      OBVIOUS
    <3>. HIDE DEF g
    <3>2. QED
      BY <2>4, <2>5, <3>1, <1>3 DEF FlattensUp
  <2>7. QED
    BY <1>3, <2>6 DEF Flattened
<1>7. QED
  BY <1>5, <1>6

\* What is flattened so far is followed by the sequence appended.
LEMMA FlattenAppend ==
  ASSUME NEW S, NEW s \in Seq(Seq(S)), NEW x \in Seq(S),
         FlattenSeq(s) \in Seq(S)
  PROVE  FlattenSeq(Append(s, x)) = FlattenSeq(s) \o x
<1>. DEFINE t == Append(s, x)
            n == Len(s)
<1>1. t \in Seq(Seq(S)) /\ Len(t) = n + 1 /\ n \in Nat /\ t[n + 1] = x
      /\ \A i \in 1..n : s[i] = t[i]
  OBVIOUS
<1>2. FlattensUp(Flattened(s), s) /\ FlattensUp(Flattened(t), t)
  BY <1>1, FlattenedExists
<1>3. FlattenSeq(t) = Flattened(t)[n + 1]
  <2>1. Len(t) = n + 1 /\ n + 1 # 0
    BY <1>1
  <2>. HIDE DEF t
  <2>2. QED
    BY <2>1, FlattenIsLast
<1>. HIDE DEF t
<1>4. CASE n = 0
  <2>1. FlattenSeq(s) = <<>>
    BY <1>4, FlattenIsLast
  <2>2. Flattened(t)[1] = x
    BY <1>1, <1>2, <1>4 DEF FlattensUp
  <2>3. QED
    BY <1>3, <1>4, <2>1, <2>2 DEF t
<1>5. CASE n # 0
  <2>1. n \in 1..n /\ n + 1 \in 1..(n + 1) /\ n + 1 # 1 /\ (n + 1) - 1 = n
    BY <1>1, <1>5
  <2>2. Flattened(s)[n] = Flattened(t)[n]
    <3>. DEFINE Pieces == Seq(S)
    <3>1. s \in Seq(Pieces) /\ x \in Pieces
      OBVIOUS
    <3>. HIDE DEF Pieces
    <3>2. \A i \in 1..Len(s) : Flattened(s)[i] = Flattened(t)[i]
      BY <1>2, <3>1, FlattensAgree DEF t
    <3>3. QED
      BY <2>1, <3>2
  <2>3. Flattened(t)[n + 1] = Flattened(t)[n] \o x
    BY <1>1, <1>2, <2>1 DEF FlattensUp
  <2>4. FlattenSeq(s) = Flattened(s)[n]
    BY <1>5, FlattenIsLast
  <2>5. QED
    BY <1>3, <2>2, <2>3, <2>4 DEF t
<1>6. QED
  BY <1>4, <1>5

\* Nothing, flattened.
LEMMA FlattenEmpty == FlattenSeq(<<>>) = <<>>
BY FlattenIsLast

\* What is flattened has the elements of its pieces.
LEMMA FlattenWithin ==
  ASSUME NEW S, NEW s \in Seq(Seq(S))
  PROVE  FlattenSeq(s) \in Seq(S)
<1>. DEFINE n == Len(s)
            g == Flattened(s)
            B == {i \in 1..n : g[i] \notin Seq(S)}
<1>1. n \in Nat /\ FlattensUp(g, s)
  BY FlattenedExists
<1>2. \A i \in 1..n : s[i] \in Seq(S)
  OBVIOUS
<1>. HIDE DEF n, g
<1>3. B = {}
  <2>1. SUFFICES ASSUME B # {} PROVE FALSE
    OBVIOUS
  <2>2. PICK i \in B : \A j \in B : i <= j
    <3>1. B \in SUBSET Nat
      BY <1>1
    <3>. HIDE DEF B
    <3>2. QED
      BY <2>1, <3>1, SmallestNumber
  <2>3. i \in 1..n /\ i \in Nat
    BY <1>1, <2>2
  <2>4. CASE i = 1
    BY <1>1, <1>2, <2>2, <2>3, <2>4 DEF FlattensUp, n
  <2>5. CASE i # 1
    <3>1. i - 1 \in 1..n /\ ~(i <= i - 1)
      BY <1>1, <2>3, <2>5
    <3>2. g[i - 1] \in Seq(S)
      BY <2>2, <3>1
    <3>3. g[i] = g[i - 1] \o s[i]
      BY <1>1, <2>3, <2>5, Zenon DEF FlattensUp, n
    <3>4. g[i] \in Seq(S)
      BY <1>2, <2>3, <3>2, <3>3, ConcatProperties
    <3>5. QED
      BY <2>2, <3>4
  <2>6. QED
    BY <2>4, <2>5
<1>4. CASE n = 0
  <2>1. FlattenSeq(s) = s
    BY <1>4, FlattenIsLast DEF n
  <2>2. s = <<>>
    BY <1>4 DEF n
  <2>3. QED
    BY <2>1, <2>2
<1>5. CASE n # 0
  <2>1. n \in 1..n /\ FlattenSeq(s) = g[n]
    BY <1>1, <1>5, FlattenIsLast DEF n, g
  <2>2. QED
    BY <1>3, <2>1
<1>6. QED
  BY <1>4, <1>5

\* A prefix element by element.
LEMMA PrefixPointwise ==
  ASSUME NEW S, NEW s \in Seq(S), NEW t \in Seq(S)
  PROVE  IsPrefix(s, t) <=> Len(s) <= Len(t) /\ \A i \in 1..Len(s) : s[i] = t[i]
<1>. DEFINE n == Len(s)
<1>1. SUFFICES ASSUME n <= Len(t)
               PROVE  SubSeq(s, 1, n) = SubSeq(t, 1, n) <=> \A i \in 1..n : s[i] = t[i]
  BY DEF IsPrefix
<1>2. /\ SubSeq(s, 1, n) \in Seq(S) /\ Len(SubSeq(s, 1, n)) = n
      /\ \A i \in 1..n : SubSeq(s, 1, n)[i] = s[i]
  OBVIOUS
<1>3. /\ SubSeq(t, 1, n) \in Seq(S) /\ Len(SubSeq(t, 1, n)) = n
      /\ \A i \in 1..n : SubSeq(t, 1, n)[i] = t[i]
  BY <1>1
<1>. HIDE DEF n
<1>4. QED
  BY <1>2, <1>3, SeqEqual

\* A sequence is a prefix of itself.
LEMMA PrefixSelf ==
  ASSUME NEW S, NEW s \in Seq(S)
  PROVE  IsPrefix(s, s)
BY PrefixPointwise

\* A prefix stays one when an element is appended.
LEMMA PrefixAppend ==
  ASSUME NEW S, NEW s \in Seq(S), NEW t \in Seq(S), NEW x \in S, IsPrefix(s, t)
  PROVE  IsPrefix(s, Append(t, x))
<1>1. Append(t, x) \in Seq(S) /\ Len(s) <= Len(Append(t, x))
  BY PrefixPointwise
<1>2. \A i \in 1..Len(s) : s[i] = Append(t, x)[i]
  BY PrefixPointwise
<1>3. QED
  BY <1>1, <1>2, PrefixPointwise

\* A sequence is a prefix of its concatenations.
LEMMA PrefixConcat ==
  ASSUME NEW S, NEW s \in Seq(S), NEW t \in Seq(S)
  PROVE  IsPrefix(s, s \o t)
<1>1. s \o t \in Seq(S) /\ Len(s) <= Len(s \o t)
  BY ConcatProperties
<1>2. \A i \in 1..Len(s) : s[i] = (s \o t)[i]
  BY ConcatProperties
<1>3. QED
  BY <1>1, <1>2, PrefixPointwise

-------------------------------------------------------------------------------
\* A function that is defined step by step exists.
IteratesFrom(g, step, start, n) ==
  g = [k \in 0..n |-> IF k = 0 THEN start ELSE step[<<k, g[k - 1]>>]]

LEMMA IterationExists ==
  ASSUME NEW S, NEW start \in S, NEW step \in [Nat \X S -> S], NEW n \in Nat
  PROVE  \E g \in [0..n -> S] : IteratesFrom(g, step, start, n)
<1>. DEFINE B == {m \in Nat : ~\E g \in [0..m -> S] : IteratesFrom(g, step, start, m)}
<1>1. SUFFICES ASSUME B # {} PROVE FALSE
  OBVIOUS
<1>2. PICK m \in B : \A j \in B : m <= j
  BY <1>1, SmallestNumber
<1>3. m \in Nat /\ ~\E g \in [0..m -> S] : IteratesFrom(g, step, start, m)
  BY <1>2
<1>4. CASE m = 0
  <2>. DEFINE g == [k \in 0..0 |-> start]
  <2>1. g \in [0..0 -> S] /\ g = [k \in 0..0 |-> IF k = 0 THEN start ELSE step[<<k, g[k - 1]>>]]
    OBVIOUS
  <2>2. QED
    BY <1>3, <1>4, <2>1 DEF IteratesFrom
<1>5. CASE m # 0
  <2>1. m - 1 \in Nat /\ m - 1 \notin B
    BY <1>2, <1>3, <1>5
  <2>2. PICK h \in [0..(m - 1) -> S] : IteratesFrom(h, step, start, m - 1)
    BY <2>1
  <2>. DEFINE g == [k \in 0..m |-> IF k = m THEN step[<<m, h[m - 1]>>] ELSE h[k]]
  <2>3. h[m - 1] \in S /\ step[<<m, h[m - 1]>>] \in S
    BY <1>3, <2>1, <2>2
  <2>4. g \in [0..m -> S]
    BY <1>3, <2>1, <2>2, <2>3
  <2>5. ASSUME NEW k \in 0..m
        PROVE  g[k] = IF k = 0 THEN start ELSE step[<<k, g[k - 1]>>]
    <3>1. CASE k = 0
      BY <1>3, <1>5, <2>1, <2>2, <3>1 DEF IteratesFrom
    <3>2. CASE k # 0 /\ k # m
      <4>1. k - 1 \in 0..(m - 1) /\ k \in 0..(m - 1) /\ k - 1 # m /\ k - 1 \in 0..m
        BY <1>3, <3>2
      <4>2. g[k] = h[k] /\ g[k - 1] = h[k - 1]
        BY <3>2, <4>1
      <4>3. h[k] = step[<<k, h[k - 1]>>]
        BY <2>2, <3>2, <4>1 DEF IteratesFrom
      <4>4. QED
        BY <3>2, <4>2, <4>3
    <3>3. CASE k # 0 /\ k = m
      <4>1. k - 1 \in 0..m /\ k - 1 # m
        BY <1>3, <3>3
      <4>2. g[k] = step[<<m, h[m - 1]>>] /\ g[k - 1] = h[m - 1]
        BY <3>3, <4>1
      <4>3. QED
        BY <3>3, <4>2
    <3>4. QED
      BY <3>1, <3>2, <3>3
  <2>6. IteratesFrom(g, step, start, m)
    <3>. HIDE DEF g
    <3>1. g = [k \in 0..m |-> g[k]]
      BY <2>4
    <3>2. QED
      BY <2>5, <3>1 DEF IteratesFrom
  <2>7. QED
    BY <1>3, <2>4, <2>6
<1>6. QED
  BY <1>4, <1>5

\* q lists the elements of R, each once.
Lists(q, R) ==
  /\ q \in Seq(R)
  /\ \A x \in R : \E i \in 1..Len(q) : q[i] = x
  /\ \A i, j \in 1..Len(q) : q[i] = q[j] => i = j

\* What a list is as a sequence.
LEMMA ListsIs ==
  ASSUME NEW R, NEW q, Lists(q, R)
  PROVE  /\ q \in Seq(R) /\ Len(q) \in Nat /\ DOMAIN q = 1..Len(q)
         /\ \A i \in 1..Len(q) : q[i] \in R
         /\ ToSet(q) = R
BY DEF Lists, ToSet

\* A list is as long as its set is large.
LEMMA ListsCounted ==
  ASSUME NEW R, NEW q, Lists(q, R)
  PROVE  IsFiniteSet(R) /\ Cardinality(R) = Len(q)
<1>1. q \in Bijection(1..Len(q), R)
  <2>1. q \in [1..Len(q) -> R] /\ \A x \in R : \E i \in 1..Len(q) : q[i] = x
    BY DEF Lists
  <2>2. \A i, j \in 1..Len(q) : q[i] = q[j] => i = j
    BY DEF Lists
  <2>3. QED
    BY <2>1, <2>2 DEF Bijection, Injection, Surjection, IsInjective
<1>2. Len(q) \in Nat
  BY DEF Lists
<1>3. IsFiniteSet(1..Len(q)) /\ Cardinality(1..Len(q)) = Len(q)
  BY <1>2, FS_Interval, SMTT(40)
<1>4. QED
  BY <1>1, <1>3, FS_Bijection DEF ExistsBijection

\* Lists of nothing and of one element.
LEMMA ListsOne ==
  ASSUME NEW R, NEW q, Lists(q, R)
  PROVE  /\ Len(q) = 1 => R = {q[1]} /\ q[1] \in R
         /\ \A x : R = {x} => Len(q) = 1 /\ q[1] = x
         /\ Len(q) = 0 <=> R = {}
<1>1. ASSUME Len(q) = 1 PROVE R = {q[1]} /\ q[1] \in R
  BY <1>1, ListsIs DEF Lists
<1>2. ASSUME NEW x, R = {x} PROVE Len(q) = 1 /\ q[1] = x
  <2>1. Len(q) \in Nat /\ \A i \in 1..Len(q) : q[i] = x
    BY <1>2, ListsIs
  <2>2. PICK i \in 1..Len(q) : q[i] = x
    BY <1>2 DEF Lists
  <2>3. 1 \in 1..Len(q) /\ Len(q) \in 1..Len(q)
    BY <2>1, <2>2
  <2>4. q[1] = q[Len(q)]
    BY <2>1, <2>3
  <2>5. 1 = Len(q)
    BY <2>3, <2>4 DEF Lists
  <2>6. QED
    BY <2>1, <2>3, <2>5
<1>3. Len(q) = 0 <=> R = {}
  <2>1. ASSUME R = {} PROVE Len(q) = 0
    <3>1. Len(q) \in Nat /\ ~\E i \in 1..Len(q) : TRUE
      BY <2>1, ListsIs
    <3>2. QED
      BY <3>1
  <2>2. ASSUME Len(q) = 0, NEW x \in R PROVE FALSE
    BY <2>2 DEF Lists
  <2>3. QED
    BY <2>1, <2>2
<1>4. QED
  BY <1>1, <1>2, <1>3

\* The sequences of bounded length are those whose length is bounded.
LEMMA BoundedSequences ==
  ASSUME NEW S, NEW n \in Int, NEW t
  PROVE  t \in SeqOf(S, n) <=> t \in Seq(S) /\ Len(t) <= n
<1>1. ASSUME t \in SeqOf(S, n) PROVE t \in Seq(S) /\ Len(t) <= n
  <2>1. PICK m \in 0..n : t \in [1..m -> S]
    BY <1>1 DEF SeqOf
  <2>2. QED
    BY <2>1
<1>2. ASSUME t \in Seq(S), Len(t) <= n PROVE t \in SeqOf(S, n)
  <2>1. t \in [1..Len(t) -> S] /\ Len(t) \in 0..n
    BY <1>2
  <2>2. QED
    BY <2>1 DEF SeqOf
<1>3. QED
  BY <1>1, <1>2

\* The first n elements.
LEMMA PrefixIs ==
  ASSUME NEW T, NEW q \in Seq(T), NEW n \in 0..Len(q)
  PROVE  /\ SubSeq(q, 1, n) \in Seq(T) /\ Len(SubSeq(q, 1, n)) = n
         /\ \A i \in 1..n : SubSeq(q, 1, n)[i] = q[i]
OBVIOUS

\* A sequence without its last element.
LEMMA FrontIs ==
  ASSUME NEW T, NEW q \in Seq(T), q # <<>>
  PROVE  /\ Front(q) \in Seq(T) /\ Len(Front(q)) = Len(q) - 1
         /\ \A i \in 1..(Len(q) - 1) : Front(q)[i] = q[i]
<1>1. Len(q) - 1 \in 0..Len(q)
  OBVIOUS
<1>2. QED
  BY <1>1, PrefixIs DEF Front

\* Two sequences after each other.
LEMMA Joined ==
  ASSUME NEW T, NEW q \in Seq(T), NEW r \in Seq(T)
  PROVE  /\ q \o r \in Seq(T) /\ Len(q \o r) = Len(q) + Len(r) /\ Len(q) \in Nat /\ Len(r) \in Nat
         /\ \A i \in 1..Len(q) : (q \o r)[i] = q[i]
         /\ \A i \in 1..Len(r) : (q \o r)[Len(q) + i] = r[i]
         /\ \A i \in 1..(Len(q) + Len(r)) : i \notin 1..Len(q) =>
              i - Len(q) \in 1..Len(r) /\ (q \o r)[i] = r[i - Len(q)]
OBVIOUS

\* A sequence without its first element.
LEMMA TailIs ==
  ASSUME NEW T, NEW q \in Seq(T), Len(q) >= 1
  PROVE  /\ Len(Tail(q)) = Len(q) - 1 /\ DOMAIN Tail(q) = 1..(Len(q) - 1) /\ Tail(q) \in Seq(T)
         /\ \A i \in 1..(Len(q) - 1) : Tail(q)[i] = q[i + 1] /\ i + 1 \in 1..Len(q)
OBVIOUS
===============================================================================
