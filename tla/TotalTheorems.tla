--------------------------- MODULE TotalTheorems ----------------------------
(***************************************************************************)
(* What the proofs need of sums, and of the sizes and orders of finite     *)
(* sets.  Written as a cardinality, a sum changes by what one entry        *)
(* changes (TotalChange), which follows from the theorems on cardinalities *)
(* without induction.                                                      *)
(***************************************************************************)
EXTENDS Totals, Sequences, FiniteSetTheorems, TLAPS

\* The units of one account are as many as its balance.
LEMMA UnitsOfOne ==
  ASSUME NEW a, NEW n \in Nat
  PROVE  /\ IsFiniteSet({a} \X (1..n))
         /\ Cardinality({a} \X (1..n)) = n
<1>1. IsFiniteSet({a}) /\ Cardinality({a}) = 1
  BY FS_Singleton
<1>2. IsFiniteSet(1..n) /\ Cardinality(1..n) = n
  BY FS_Interval
<1>3. /\ IsFiniteSet({a} \X (1..n))
      /\ Cardinality({a} \X (1..n)) = Cardinality({a}) * Cardinality(1..n)
  BY <1>1, <1>2, FS_Product, Zenon
<1>4. QED
  BY <1>1, <1>2, <1>3, SMT

\* Taking one account out of the sum takes out exactly its units.
LEMMA UnitsInsert ==
  ASSUME NEW S, NEW a \in S, NEW f
  PROVE  /\ Units(f, S) = Units(f, S \ {a}) \cup ({a} \X (1..f[a]))
         /\ Units(f, S \ {a}) \cap ({a} \X (1..f[a])) = {}
BY DEF Units

\* Units depend only on the balances of the accounts summed over.
LEMMA UnitsSame ==
  ASSUME NEW S, NEW f, NEW g, \A a \in S : f[a] = g[a]
  PROVE  Units(f, S) = Units(g, S)
BY DEF Units

\* Over a finite set of accounts with natural balances the units are finite.
LEMMA UnitsFinite ==
  ASSUME NEW S, IsFiniteSet(S), NEW f, \A a \in S : f[a] \in Nat
  PROVE  IsFiniteSet(Units(f, S))
<1> DEFINE per == [a \in S |-> {a} \X (1..f[a])]
           image == {per[a] : a \in S}
<1>1. IsFiniteSet(image)
  <2>1. per \in Surjection(S, image)
    BY DEF Surjection
  <2>2. QED
    BY <2>1, FS_Surjection
<1>2. \A T \in image : IsFiniteSet(T)
  <2>1. TAKE T \in image
  <2>2. PICK a \in S : T = {a} \X (1..f[a])
    OBVIOUS
  <2>3. QED
    BY <2>2, UnitsOfOne, Zenon
<1>3. Units(f, S) = UNION image
  BY DEF Units
<1>4. QED
  BY <1>1, <1>2, <1>3, FS_UNION, Zenon

\* A sum is a natural number.
LEMMA TotalNat ==
  ASSUME NEW S, IsFiniteSet(S), NEW f, \A a \in S : f[a] \in Nat
  PROVE  Total(f, S) \in Nat
BY UnitsFinite, FS_CardinalityType DEF Total

\* The sum of an everywhere zero function is zero.
LEMMA TotalZero ==
  ASSUME NEW S, NEW f, \A a \in S : f[a] = 0
  PROVE  Total(f, S) = 0
<1>1. Units(f, S) = {}
  BY DEF Units
<1>2. QED
  BY <1>1, FS_EmptySet DEF Total

\* One account can be split off a sum.
LEMMA TotalSplit ==
  ASSUME NEW S, IsFiniteSet(S), NEW f, \A x \in S : f[x] \in Nat, NEW a \in S
  PROVE  /\ Total(f, S) = Total(f, S \ {a}) + f[a]
         /\ Total(f, S \ {a}) \in Nat
<1> DEFINE rest == Units(f, S \ {a})
           own  == {a} \X (1..f[a])
<1>1. IsFiniteSet(S \ {a})
  BY FS_RemoveElement
<1>2. IsFiniteSet(rest) /\ Cardinality(rest) \in Nat
  BY <1>1, UnitsFinite, TotalNat DEF Total
<1>3. IsFiniteSet(own) /\ Cardinality(own) = f[a]
  BY UnitsOfOne
<1>4. Cardinality(rest \cup own)
         = Cardinality(rest) + Cardinality(own) - Cardinality(rest \cap own)
  BY <1>2, <1>3, FS_Union, Zenon
<1>5. Cardinality(rest \cap own) = 0
  BY UnitsInsert, FS_EmptySet
<1>6. Total(f, S) = Cardinality(rest \cup own)
  BY UnitsInsert, Zenon DEF Total
<1> HIDE DEF own
<1>7. QED
  BY <1>2, <1>3, <1>4, <1>5, <1>6 DEF Total

\* No account holds more than the sum.
LEMMA TotalBoundsEach ==
  ASSUME NEW S, IsFiniteSet(S), NEW f, \A x \in S : f[x] \in Nat, NEW a \in S
  PROVE  f[a] <= Total(f, S)
<1>1. Total(f, S) = Total(f, S \ {a}) + f[a] /\ Total(f, S \ {a}) \in Nat
  BY TotalSplit
<1>2. f[a] \in Nat
  OBVIOUS
<1>3. QED
  BY <1>1, <1>2, SMT

\* Changing one balance changes the sum by the difference.
LEMMA TotalChange ==
  ASSUME NEW S, IsFiniteSet(S), NEW f, \A x \in S : f[x] \in Nat,
         NEW g, \A x \in S : g[x] \in Nat,
         NEW a \in S, \A x \in S \ {a} : g[x] = f[x]
  PROVE  Total(g, S) = Total(f, S) - f[a] + g[a]
<1>1. Total(g, S \ {a}) = Total(f, S \ {a})
  BY UnitsSame DEF Total
<1>2. Total(g, S) = Total(g, S \ {a}) + g[a] /\ Total(g, S \ {a}) \in Nat
  BY TotalSplit
<1>3. Total(f, S) = Total(f, S \ {a}) + f[a]
  BY TotalSplit
<1>4. f[a] \in Nat /\ g[a] \in Nat
  OBVIOUS
<1>5. QED
  BY <1>1, <1>2, <1>3, <1>4

\* Moving n from one balance to another leaves the sum as it was.
LEMMA TotalMove ==
  ASSUME NEW S, IsFiniteSet(S), NEW f, \A x \in S : f[x] \in Nat,
         NEW h, \A x \in S : h[x] \in Nat,
         NEW a \in S, NEW b \in S, a # b, NEW n \in Nat,
         h[a] = f[a] - n, h[b] = f[b] + n, \A x \in S \ {a, b} : h[x] = f[x]
  PROVE  Total(h, S) = Total(f, S)
<1> DEFINE g == [x \in S |-> IF x = a THEN h[a] ELSE f[x]]
<1>1. /\ \A x \in S : g[x] \in Nat
      /\ \A x \in S \ {a} : g[x] = f[x]
      /\ \A x \in S \ {b} : h[x] = g[x]
      /\ g[a] = h[a] /\ g[b] = f[b]
  OBVIOUS
<1> HIDE DEF g
<1>2. Total(g, S) = Total(f, S) - f[a] + g[a]
  BY <1>1, TotalChange
<1>3. Total(h, S) = Total(g, S) - g[b] + h[b]
  BY <1>1, TotalChange
<1>4. Total(f, S) \in Nat /\ f[a] \in Nat /\ f[b] \in Nat
  BY TotalNat
<1>5. QED
  BY <1>1, <1>2, <1>3, <1>4

\* A sum depends only on the balances of the accounts summed over.
LEMMA TotalSame ==
  ASSUME NEW S, NEW f, NEW g, \A a \in S : f[a] = g[a]
  PROVE  Total(f, S) = Total(g, S)
BY UnitsSame DEF Total

\* An account that is not summed over yet adds its balance.
LEMMA TotalInsert ==
  ASSUME NEW S, IsFiniteSet(S), NEW a, a \notin S, NEW f, \A x \in S \cup {a} : f[x] \in Nat
  PROVE  /\ IsFiniteSet(S \cup {a})
         /\ Total(f, S \cup {a}) = Total(f, S) + f[a]
<1>1. IsFiniteSet(S \cup {a}) /\ (S \cup {a}) \ {a} = S
  BY FS_AddElement
<1>2. Total(f, S \cup {a}) = Total(f, (S \cup {a}) \ {a}) + f[a]
  BY <1>1, TotalSplit
<1>3. QED
  BY <1>1, <1>2

\* Fewer accounts hold no more, and two sets of accounts together hold no more
\* than both.
LEMMA TotalBounds ==
  ASSUME NEW S, IsFiniteSet(S), NEW T, IsFiniteSet(T), NEW f, \A x \in S \cup T : f[x] \in Nat
  PROVE  /\ S \subseteq T => Total(f, S) <= Total(f, T)
         /\ Total(f, S \cup T) <= Total(f, S) + Total(f, T)
<1> DEFINE US == Units(f, S)  UT == Units(f, T)
<1>1. IsFiniteSet(US) /\ IsFiniteSet(UT) /\ Units(f, S \cup T) = US \cup UT
  BY UnitsFinite DEF Units
<1>2. S \subseteq T => US \subseteq UT
  BY DEF Units
<1> HIDE DEF US, UT
<1>3. /\ Cardinality(US) \in Nat /\ Cardinality(UT) \in Nat
      /\ Cardinality(US \cap UT) \in Nat
      /\ Cardinality(US \cup UT) = Cardinality(US) + Cardinality(UT) - Cardinality(US \cap UT)
  <2>1. IsFiniteSet(US \cap UT)
    BY <1>1, FS_Intersection
  <2>2. QED
    BY <1>1, <2>1, FS_Union, FS_CardinalityType
<1>4. US \subseteq UT => Cardinality(US) <= Cardinality(UT)
  BY <1>1, FS_Subset
<1>5. Cardinality(US \cup UT) <= Cardinality(US) + Cardinality(UT)
  BY <1>3
<1>6. /\ Total(f, S) = Cardinality(US) /\ Total(f, T) = Cardinality(UT)
      /\ Total(f, S \cup T) = Cardinality(US \cup UT)
  BY <1>1 DEF Total, US, UT
<1>7. QED
  BY <1>2, <1>4, <1>5, <1>6

-----------------------------------------------------------------------------
(* Finite sets *)

\* The size of a part of a finite set.
LEMMA PartCounted ==
  ASSUME NEW R, IsFiniteSet(R), NEW S, S \subseteq R
  PROVE  /\ Cardinality(S) \in Nat /\ Cardinality(S) <= Cardinality(R)
         /\ Cardinality(R) \in Nat
         /\ \A s \in R \ S : Cardinality(S \cup {s}) = Cardinality(S) + 1
         /\ \A s \in S : Cardinality(S) = Cardinality(S \ {s}) + 1
<1>1. IsFiniteSet(R) /\ IsFiniteSet(S)
  BY FS_Subset
<1>2. Cardinality(S) \in Nat /\ Cardinality(S) <= Cardinality(R) /\ Cardinality(R) \in Nat
  BY <1>1, FS_Subset, FS_CardinalityType
<1>3. \A s \in R \ S : Cardinality(S \cup {s}) = Cardinality(S) + 1
  BY <1>1, FS_AddElement
<1>4. ASSUME NEW s \in S PROVE Cardinality(S) = Cardinality(S \ {s}) + 1
  <2>1. IsFiniteSet(S \ {s}) /\ s \notin S \ {s} /\ (S \ {s}) \cup {s} = S
    BY <1>1, FS_Subset
  <2>2. Cardinality((S \ {s}) \cup {s}) = Cardinality(S \ {s}) + 1
    BY <2>1, FS_AddElement
  <2>3. QED
    BY <2>1, <2>2
<1>5. QED
  BY <1>2, <1>3, <1>4

\* A finite set to which an element may be added has one more at most.
LEMMA OneMoreAtMost ==
  ASSUME NEW S, IsFiniteSet(S), NEW s, NEW T, T = S \/ T = S \cup {s}
  PROVE  Cardinality(T) \in Nat /\ Cardinality(T) <= Cardinality(S) + 1 /\ Cardinality(S) \in Nat
<1>1. Cardinality(S) \in Nat
  BY FS_CardinalityType
<1>2. Cardinality(S \cup {s}) = IF s \in S THEN Cardinality(S) ELSE Cardinality(S) + 1
  BY FS_AddElement, Zenon
<1>3. CASE T = S
  BY <1>1, <1>3
<1>4. CASE T = S \cup {s}
  BY <1>1, <1>2, <1>4
<1>5. QED
  BY <1>3, <1>4

\* A set of numbers has a smallest one, and a largest one if they are bounded.
LEMMA HasSmallest ==
  ASSUME NEW S, S \subseteq Nat, S # {}
  PROVE  \E m \in S : \A n \in S : m <= n
<1>1. PICK m \in S : \A n \in S : <<n, m>> \notin OpToRel(<, Nat)
  BY NatLessThanWellFounded, WFMin
<1>2. ASSUME NEW n \in S PROVE ~(n < m)
  <2>1. n \in Nat /\ m \in Nat
    OBVIOUS
  <2>2. n < m => <<n, m>> \in OpToRel(<, Nat)
    BY <2>1, Zenon DEF OpToRel
  <2>3. QED
    BY <1>1, <2>2
<1>3. QED
  BY <1>2

LEMMA HasLargest ==
  ASSUME NEW N \in Nat, NEW S, S \subseteq 0..N, S # {}
  PROVE  \E m \in S : \A n \in S : n <= m
<1> DEFINE above == {k \in Nat : \A n \in S : n <= k}
<1>1. N \in above
  OBVIOUS
<1>2. PICK k \in above : \A j \in above : k <= j
  BY <1>1, HasSmallest
<1>3. k \in S
  <2>1. SUFFICES ASSUME k \notin S PROVE FALSE
    OBVIOUS
  <2>2. \A n \in S : n <= k - 1 /\ n \in Nat
    BY <1>2, <2>1
  <2>3. PICK x \in S : x \in Nat /\ x <= k - 1
    BY <2>2
  <2>4. k - 1 \in Nat
    BY <1>2, <2>3
  <2>5. k - 1 \in above
    BY <2>2, <2>4
  <2>6. QED
    BY <1>2, <2>5
<1>4. QED
  BY <1>2, <1>3

\* A set of which any two members are the same has one at most.
LEMMA AtMostOne ==
  ASSUME NEW S, \A x, y \in S : x = y
  PROVE  Cardinality(S) \in Nat /\ Cardinality(S) <= 1
<1>1. CASE S = {}
  BY <1>1, FS_EmptySet
<1>2. CASE S # {}
  <2>1. PICK x \in S : TRUE
    BY <1>2
  <2>2. S = {x}
    BY <2>1
  <2>3. Cardinality({x}) = 1
    BY FS_Singleton
  <2>4. QED
    BY <2>2, <2>3
<1>3. QED
  BY <1>1, <1>2

\* How many of a set of numbers are at least i.
Rank(S, i) == Cardinality({j \in S : j >= i})

\* Ranks count down from the size of the set, each once.
LEMMA RankBounds ==
  ASSUME NEW S, S \subseteq Nat, IsFiniteSet(S)
  PROVE  /\ Cardinality(S) \in Nat
         /\ \A i \in S : Rank(S, i) \in 1..Cardinality(S)
         /\ \A i, j \in S : i < j => Rank(S, j) < Rank(S, i)
<1>1. \A T : T \subseteq S => /\ IsFiniteSet(T) /\ Cardinality(T) \in Nat
                              /\ Cardinality(T) <= Cardinality(S) /\ Cardinality(S) \in Nat
  BY FS_Subset, FS_CardinalityType
<1>2. ASSUME NEW i \in S PROVE Rank(S, i) \in 1..Cardinality(S)
  <2> DEFINE T == {j \in S : j >= i}
  <2>1. T \subseteq S /\ i \in T
    OBVIOUS
  <2>2. Rank(S, i) = Cardinality(T)
    BY DEF Rank
  <2> HIDE DEF T
  <2>3. IsFiniteSet(T) /\ T # {}
    BY <1>1, <2>1
  <2>4. Cardinality(T) # 0
    BY <2>3, FS_EmptySet
  <2>5. Cardinality(T) \in Nat /\ Cardinality(S) \in Nat /\ Cardinality(T) <= Cardinality(S)
    BY <1>1, <2>1
  <2>6. QED
    BY <2>2, <2>4, <2>5
<1>3. ASSUME NEW i \in S, NEW j \in S, i < j PROVE Rank(S, j) < Rank(S, i)
  <2> DEFINE T == {k \in S : k >= i}
             U == {k \in S : k >= j}
  <2>1. T \subseteq S /\ U \subseteq T /\ i \in T /\ i \notin U
    <3>1. i \in Nat /\ j \in Nat /\ \A k \in S : k \in Nat
      OBVIOUS
    <3>2. (\A k \in S : k >= j => k >= i) /\ i >= i /\ ~(i >= j)
      BY <1>3, <3>1
    <3>3. T \subseteq S /\ \A k \in U : k \in S /\ k >= j
      OBVIOUS
    <3>4. U \subseteq T
      BY <3>2, <3>3
    <3>5. QED
      BY <3>2, <3>3, <3>4
  <2>2. Rank(S, i) = Cardinality(T) /\ Rank(S, j) = Cardinality(U)
    BY DEF Rank
  <2> HIDE DEF T, U
  <2>3. IsFiniteSet(T) /\ U # T
    BY <1>1, <2>1
  <2>4. /\ Cardinality(U) <= Cardinality(T)
        /\ Cardinality(U) = Cardinality(T) => U = T
    BY <2>1, <2>3, FS_Subset
  <2>5. Cardinality(T) \in Nat /\ Cardinality(U) \in Nat
    BY <1>1, <2>1
  <2>6. QED
    BY <2>2, <2>3, <2>4, <2>5
<1>4. QED
  BY <1>1, <1>2, <1>3

LEMMA RankTaken ==
  ASSUME NEW S, S \subseteq Nat, IsFiniteSet(S), NEW k \in 1..Cardinality(S)
  PROVE  \E i \in S : Rank(S, i) = k
<1> DEFINE n == Cardinality(S)
           f == [i \in S |-> Rank(S, i)]
<1>1. n \in Nat /\ (\A i \in S : f[i] \in 1..n) /\ \A i, j \in S : i < j => f[j] < f[i]
  BY RankBounds
<1>2. f \in Injection(S, 1..n)
  <2>1. \A i, j \in S : i = j \/ i < j \/ j < i
    OBVIOUS
  <2>2. \A i, j \in S : f[i] = f[j] => i = j
    BY <1>1, <2>1
  <2>3. f \in [S -> 1..n]
    BY <1>1
  <2> HIDE DEF f
  <2>4. QED
    BY <2>2, <2>3 DEF Injection, IsInjective
<1>3. IsFiniteSet(1..n) /\ Cardinality(1..n) = n
  BY <1>1, FS_Interval
<1>4. f \in Surjection(S, 1..n)
  BY <1>2, <1>3, FS_Injection
<1>5. QED
  BY <1>4 DEF Surjection

\* A set of numbers as a sequence, in the order of their ranks.
Descending(P) ==
  [k \in 1..Cardinality(P) |-> CHOOSE i \in P : Cardinality({j \in P : j >= i}) = k]

LEMMA DescendingByRank ==
  ASSUME NEW P, P \subseteq Nat, IsFiniteSet(P)
  PROVE  /\ Descending(P) \in [1..Cardinality(P) -> P]
         /\ \A k \in 1..Cardinality(P) : Rank(P, Descending(P)[k]) = k
<1> DEFINE f(k) == CHOOSE i \in P : Cardinality({j \in P : j >= i}) = k
           n == Cardinality(P)
<1>1. ASSUME NEW k \in 1..n PROVE f(k) \in P /\ Rank(P, f(k)) = k
  <2>1. \E i \in P : Cardinality({j \in P : j >= i}) = k
    BY RankTaken DEF Rank
  <2>2. f(k) \in P /\ Cardinality({j \in P : j >= f(k)}) = k
    BY <2>1
  <2>3. QED
    BY <2>2 DEF Rank
<1>2. Descending(P) = [k \in 1..n |-> f(k)]
  BY DEF Descending
<1> HIDE DEF f
<1>3. [k \in 1..n |-> f(k)] \in [1..n -> P]
  BY <1>1
<1>4. \A k \in 1..n : [j \in 1..n |-> f(j)][k] = f(k)
  OBVIOUS
<1>5. \A k \in 1..n : Rank(P, [j \in 1..n |-> f(j)][k]) = k
  BY <1>1, <1>4
<1>6. QED
  BY <1>2, <1>3, <1>5

LEMMA DescendingIsSequence ==
  ASSUME NEW P, P \subseteq Nat, IsFiniteSet(P)
  PROVE  \E q \in Seq(Nat) :
           /\ q = Descending(P) /\ Len(q) \in Nat /\ Len(q) = Cardinality(P)
           /\ \A k \in 1..Len(q) : q[k] \in P /\ Rank(P, q[k]) = k
           /\ \A k, l \in 1..Len(q) : k < l => q[l] < q[k]
           /\ \A i \in P : \E k \in 1..Len(q) : q[k] = i
<1>1. PICK n : n = Cardinality(P)
  OBVIOUS
<1>2. PICK q \in [1..n -> P] : q = Descending(P) /\ \A k \in 1..n : Rank(P, q[k]) = k
  BY <1>1, DescendingByRank
<1>3. q \in [1..n -> P] /\ \A k \in 1..n : Rank(P, q[k]) = k
  BY <1>2
<1>4. n \in Nat
  BY <1>1, RankBounds
<1>5. q \in Seq(Nat) /\ Len(q) = n
  <2>1. q \in [1..n -> Nat]
    BY <1>3
  <2>2. QED
    BY <1>3, <1>4, <2>1
<1>6. ASSUME NEW k \in 1..n, NEW l \in 1..n, k < l PROVE q[l] < q[k]
  <2>1. q[k] \in P /\ q[l] \in P /\ Rank(P, q[k]) = k /\ Rank(P, q[l]) = l
    BY <1>3
  <2>2. q[k] < q[l] => Rank(P, q[l]) < Rank(P, q[k])
    BY <2>1, RankBounds
  <2>3. ~(q[k] < q[l]) /\ q[k] # q[l]
    BY <1>4, <1>6, <2>1, <2>2
  <2>4. q[k] \in Nat /\ q[l] \in Nat
    BY <2>1
  <2>5. QED
    BY <2>3, <2>4
<1>7. ASSUME NEW i \in P PROVE \E k \in 1..n : q[k] = i
  <2>1. PICK k \in 1..n : Rank(P, i) = k
    BY <1>1, RankBounds
  <2>2. q[k] \in P /\ Rank(P, q[k]) = k
    BY <1>3
  <2>3. (i < q[k] => Rank(P, q[k]) < Rank(P, i)) /\ (q[k] < i => Rank(P, i) < Rank(P, q[k]))
    BY <2>2, RankBounds
  <2>4. ~(i < q[k]) /\ ~(q[k] < i)
    BY <1>4, <2>1, <2>2, <2>3
  <2>5. i \in Nat /\ q[k] \in Nat
    BY <2>2
  <2>6. i = q[k]
    BY <2>4, <2>5
  <2>7. QED
    BY <2>6
<1>8. QED
  BY <1>1, <1>2, <1>3, <1>4, <1>5, <1>6, <1>7, SMTT(30)

-----------------------------------------------------------------------------
(* Sequences and multiples *)

\* A sequence with one element more, and with one replaced.
LEMMA OneMore ==
  ASSUME NEW S, NEW s \in Seq(S), NEW x \in S
  PROVE  /\ Append(s, x) \in Seq(S) /\ Len(Append(s, x)) = Len(s) + 1
         /\ \A i \in 1..Len(s) : Append(s, x)[i] = s[i]
         /\ Append(s, x)[Len(s) + 1] = x
         /\ DOMAIN Append(s, x) = 1..Len(s) + 1
OBVIOUS

LEMMA OneReplaced ==
  ASSUME NEW S, NEW s \in Seq(S), NEW x \in S, NEW i \in 1..Len(s)
  PROVE  /\ [s EXCEPT ![i] = x] \in Seq(S) /\ Len([s EXCEPT ![i] = x]) = Len(s)
         /\ DOMAIN [s EXCEPT ![i] = x] = DOMAIN s /\ [s EXCEPT ![i] = x][i] = x
         /\ \A j \in DOMAIN s : j # i => [s EXCEPT ![i] = x][j] = s[j]
OBVIOUS

\* A multiple and one time more is a multiple.
LEMMA WholePages ==
  ASSUME NEW n \in Nat, NEW d \in Nat \ {0}, n % d = 0
  PROVE  (n + d) % d = 0
<1>1. PICK q \in Nat : n = d * q
  <2>1. n = d * (n \div d) + (n % d) /\ n \div d \in Nat
    OBVIOUS
  <2>2. n = d * (n \div d)
    BY <2>1
  <2>3. QED
    BY <2>1, <2>2
<1>2. n + d = d * (q + 1) + 0
  BY <1>1
<1>3. (d * (q + 1) + 0) % d = 0
  OBVIOUS
<1>4. QED
  BY <1>2, <1>3

\* What lies between a number rounded down and that number is rounded down like it.
LEMMA RoundedDown ==
  ASSUME NEW d \in Nat \ {0}, NEW t \in Nat, NEW u \in Nat
  PROVE  /\ (u - (u % d)) \in Nat /\ (u - (u % d)) <= u
         /\ t <= u /\ ~(t < (u - (u % d))) => (t - (t % d)) = (u - (u % d))
<1>1. d \in Nat \ {0}
  OBVIOUS
<1>2. /\ t = d * (t \div d) + (t % d) /\ t \div d \in Nat /\ t % d \in 0..d - 1
      /\ u = d * (u \div d) + (u % d) /\ u \div d \in Nat /\ u % d \in 0..d - 1
  BY <1>1
<1>3. PICK p \in Nat, q \in Nat, r \in 0..d - 1, s \in 0..d - 1 :
        /\ t = d * p + r /\ (t - (t % d)) = d * p
        /\ u = d * q + s /\ (u - (u % d)) = d * q
  <2>1. d * (t \div d) \in Nat /\ d * (u \div d) \in Nat
    BY <1>1, <1>2
  <2>2. t - (t % d) = d * (t \div d) /\ u - (u % d) = d * (u \div d)
    BY <1>1, <1>2, <2>1
  <2>3. QED
    BY <1>2, <2>2
<1>4. \A x, y \in Nat : x < y => d * x + d <= d * y
  <2>1. SUFFICES ASSUME NEW x \in Nat, NEW y \in Nat, x < y PROVE d * x + d <= d * y
    OBVIOUS
  <2>2. PICK k \in Nat : y = x + 1 + k
    <3>1. y - x - 1 \in Nat /\ y = x + 1 + (y - x - 1)
      BY <2>1
    <3>2. QED
      BY <3>1
  <2>3. d * y = d * x + d + d * k /\ d * k \in Nat /\ d * x \in Nat
    BY <1>1, <2>2
  <2>4. QED
    BY <1>1, <2>3
<1>5. d * p \in Nat /\ d * q \in Nat
  BY <1>1
<1>6. ASSUME t <= u, ~(t < (u - (u % d))) PROVE p = q
  <2>1. d * q <= d * p + r /\ d * p + r <= d * q + s
    BY <1>1, <1>3, <1>5, <1>6
  <2>2. ~(p < q)
    <3>1. SUFFICES ASSUME p < q PROVE FALSE
      OBVIOUS
    <3>2. d * p + d <= d * q
      BY <1>4, <3>1
    <3>3. QED
      BY <1>1, <1>5, <2>1, <3>2
  <2>3. ~(q < p)
    <3>1. SUFFICES ASSUME q < p PROVE FALSE
      OBVIOUS
    <3>2. d * q + d <= d * p
      BY <1>4, <3>1
    <3>3. QED
      BY <1>1, <1>5, <2>1, <3>2
  <2>4. QED
    BY <2>2, <2>3
<1>7. QED
  BY <1>1, <1>3, <1>5, <1>6

=============================================================================
