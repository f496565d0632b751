----------------------------- MODULE DataLemmas ------------------------------
(***************************************************************************)
(* Induction over data for the proofs: least elements, functions defined   *)
(* by recursion on a number, and sums over finite sets; and what removing  *)
(* an element does to a sequence.  They are stated with sets and functions *)
(* so that they can be cited for a given one.                              *)
(***************************************************************************)
EXTENDS Integers, Sequences, FiniteSets, SequencesExt, FiniteSetTheorems, SequenceTheorems,
        WellFoundedInduction, TLAPS

\* A set of numbers has a least one.  (A property that fails for some number fails
\* for a least one: the form in which induction is used.)
LEMMA LeastNat ==
  ASSUME NEW T, T \subseteq Nat, T # {}
  PROVE  \E x \in T : \A y \in T : x <= y
<1> DEFINE R == OpToRel(<, Nat)
<1>1. IsWellFoundedOn(R, Nat)
  BY NatLessThanWellFounded
<1>2. \A x, y \in Nat : y < x => <<y, x>> \in R
  BY DEF OpToRel
<1> HIDE DEF R
<1>3. PICK x \in T : \A y \in T : ~(<<y, x>> \in R)
  BY <1>1, WFMin
<1>4. ASSUME NEW y \in T PROVE x <= y
  <2>1. x \in Nat /\ y \in Nat /\ ~(<<y, x>> \in R) BY <1>3
  <2>2. ~(y < x) BY <2>1, <1>2
  <2> QED BY <2>1, <2>2
<1> QED BY <1>4

\* A set of numbers that holds 0, and the next of each of its members, holds them all.
LEMMA AllNat ==
  ASSUME NEW G, 0 \in G, \A n \in Nat : n \in G => n + 1 \in G
  PROVE  Nat \subseteq G
<1> SUFFICES ASSUME Nat \ G # {} PROVE FALSE
  OBVIOUS
<1>1. PICK x \in Nat \ G : \A y \in Nat \ G : x <= y
  <2> DEFINE T == Nat \ G
  <2>1. T \subseteq Nat /\ T # {} OBVIOUS
  <2> HIDE DEF T
  <2>2. \E x \in T : \A y \in T : x <= y BY <2>1, LeastNat
  <2> QED BY <2>2 DEF T
<1>2. x # 0 /\ x - 1 \in Nat
  BY <1>1
<1>3. x - 1 \in G
  BY <1>1, <1>2
<1> QED BY <1>1, <1>2, <1>3

\* The first values of a function defined by recursion.
Begins(g, n, S, base, op) ==
  /\ g \in [0..n -> S]
  /\ g[0] = base
  /\ \A m \in 0..(n - 1) : g[m + 1] = op[<<g[m], m + 1>>]

LEMMA BeginsExists ==
  ASSUME NEW S, NEW base \in S, NEW op \in [S \X Nat -> S], NEW n \in Nat
  PROVE  \E g : Begins(g, n, S, base, op)
<1> DEFINE G == {k \in Nat : \E g : Begins(g, k, S, base, op)}
<1>1. 0 \in G
  <2> DEFINE g == [k \in 0..0 |-> base]
  <2>1. Begins(g, 0, S, base, op) BY DEF Begins
  <2> QED BY <2>1
<1>2. ASSUME NEW k \in Nat, k \in G PROVE k + 1 \in G
  <2>1. PICK g : Begins(g, k, S, base, op) BY <1>2
  <2> DEFINE h == [m \in 0..(k + 1) |-> IF m = k + 1 THEN op[<<g[k], k + 1>>] ELSE g[m]]
  <2>2. g \in [0..k -> S] /\ g[0] = base /\ \A m \in 0..(k - 1) : g[m + 1] = op[<<g[m], m + 1>>]
    BY <2>1 DEF Begins
  <2>3. op[<<g[k], k + 1>>] \in S
    BY <2>2
  <2>4. h \in [0..(k + 1) -> S]
    BY <2>2, <2>3
  <2>5. h[0] = base
    BY <2>2
  <2>6. ASSUME NEW m \in 0..k PROVE h[m + 1] = op[<<h[m], m + 1>>]
    <3>1. CASE m = k
      <4>1. h[m + 1] = op[<<g[k], k + 1>>] /\ h[m] = g[k] BY <3>1
      <4> QED BY <4>1, <3>1
    <3>2. CASE m # k
      <4>1. h[m + 1] = g[m + 1] /\ h[m] = g[m] /\ m \in 0..(k - 1) BY <3>2
      <4> QED BY <4>1, <2>2
    <3> QED BY <3>1, <3>2
  <2> HIDE DEF h
  <2>7. Begins(h, k + 1, S, base, op)
    <3>1. (k + 1) - 1 = k OBVIOUS
    <3> QED BY <2>4, <2>5, <2>6, <3>1 DEF Begins
  <2> QED BY <2>7
<1> HIDE DEF G
<1>3. Nat \subseteq G
  BY <1>1, <1>2, AllNat
<1> QED BY <1>3 DEF G

LEMMA BeginsAgree ==
  ASSUME NEW S, NEW base, NEW op, NEW n \in Nat, NEW k \in 0..n, NEW g, NEW h,
         Begins(g, k, S, base, op), Begins(h, n, S, base, op)
  PROVE  \A m \in 0..k : g[m] = h[m]
<1> DEFINE G == {m \in Nat : m <= k => g[m] = h[m]}
<1>1. 0 \in G
  BY DEF Begins
<1>2. ASSUME NEW m \in Nat, m \in G PROVE m + 1 \in G
  <2>1. CASE m + 1 <= k
    <3>1. g[m] = h[m] BY <1>2, <2>1
    <3>2. m \in 0..(k - 1) /\ m \in 0..(n - 1) BY <2>1
    <3>3. g[m + 1] = op[<<g[m], m + 1>>] /\ h[m + 1] = op[<<h[m], m + 1>>]
      BY <3>2 DEF Begins
    <3> QED BY <3>1, <3>3
  <2> QED BY <2>1
<1> HIDE DEF G
<1>3. Nat \subseteq G
  BY <1>1, <1>2, AllNat
<1> QED BY <1>3 DEF G

\* A function can be defined by its first value and the step from one to the next.
Recurs(f, S, base, op) ==
  /\ f \in [Nat -> S]
  /\ f[0] = base
  /\ \A n \in Nat : f[n + 1] = op[<<f[n], n + 1>>]

LEMMA DefinedByRecursion ==
  ASSUME NEW S, NEW base \in S, NEW op \in [S \X Nat -> S]
  PROVE  \E f : Recurs(f, S, base, op)
<1> DEFINE upTo == [n \in Nat |-> CHOOSE g : Begins(g, n, S, base, op)]
           f == [n \in Nat |-> upTo[n][n]]
<1>1. \A n \in Nat : Begins(upTo[n], n, S, base, op)
  BY BeginsExists
<1> HIDE DEF upTo
<1>2. f \in [Nat -> S] /\ f[0] = base
  BY <1>1 DEF Begins
<1>3. ASSUME NEW n \in Nat PROVE f[n + 1] = op[<<f[n], n + 1>>]
  <2>1. Begins(upTo[n], n, S, base, op) /\ Begins(upTo[n + 1], n + 1, S, base, op)
    BY <1>1
  <2>2. upTo[n][n] = upTo[n + 1][n]
    <3>1. n + 1 \in Nat /\ n \in 0..(n + 1) /\ n \in 0..n OBVIOUS
    <3>2. \A m \in 0..n : upTo[n][m] = upTo[n + 1][m]
      <4> DEFINE g == upTo[n]
                 h == upTo[n + 1]
                 k == n + 1
      <4>1. Begins(g, n, S, base, op) /\ Begins(h, k, S, base, op) /\ k \in Nat /\ n \in 0..k
        BY <2>1, <3>1
      <4> HIDE DEF g, h, k
      <4>2. \A m \in 0..n : g[m] = h[m]
        BY <4>1, BeginsAgree
      <4> QED BY <4>2 DEF g, h
    <3> QED BY <3>1, <3>2
  <2>3. upTo[n + 1][n + 1] = op[<<upTo[n + 1][n], n + 1>>]
    BY <2>1 DEF Begins
  <2> QED BY <2>2, <2>3
<1> HIDE DEF f
<1>4. Recurs(f, S, base, op)
  BY <1>2, <1>3 DEF Recurs
<1> QED BY <1>4

\* A sum over the subsets of a finite set, taking out one element after the other.
Sums(g, R, val, pick) ==
  g = [s \in SUBSET R |-> IF s = {} THEN 0 ELSE val[pick[s]] + g[s \ {pick[s]}]]

LEMMA SumsExist ==
  ASSUME NEW R, IsFiniteSet(R), NEW val \in [R -> Int], NEW pick,
         \A s \in SUBSET R : s # {} => pick[s] \in s
  PROVE  \E g : Sums(g, R, val, pick)
<1> DEFINE S == [SUBSET R -> Int]
           zero == [s \in SUBSET R |-> 0]
           more(h) == [s \in SUBSET R |->
                         IF s = {} THEN 0 ELSE val[pick[s]] + h[s \ {pick[s]}]]
           op == [x \in S \X Nat |-> more(x[1])]
<1>1. zero \in S
  OBVIOUS
<1>2. ASSUME NEW h \in S PROVE more(h) \in S
  <2>1. ASSUME NEW s \in SUBSET R, s # {}
        PROVE  val[pick[s]] + h[s \ {pick[s]}] \in Int
    <3>1. val[pick[s]] \in Int BY <2>1
    <3>2. h[s \ {pick[s]}] \in Int BY <2>1
    <3> QED BY <3>1, <3>2
  <2> QED BY <2>1
<1>3. op \in [S \X Nat -> S]
  BY <1>2
<1>4. PICK f : Recurs(f, S, zero, op)
  <2> HIDE DEF op, S, zero
  <2> QED BY <1>1, <1>3, DefinedByRecursion
<1>5. ASSUME NEW n \in Nat PROVE f[n] \in S /\ f[n + 1] = more(f[n])
  <2>1. f[n] \in S /\ f[n + 1] = op[<<f[n], n + 1>>]
    <3> HIDE DEF op, S
    <3> QED BY <1>4 DEF Recurs
  <2> HIDE DEF more
  <2>2. <<f[n], n + 1>> \in S \X Nat
    <3> HIDE DEF S
    <3> QED BY <2>1
  <2>3. op[<<f[n], n + 1>>] = more(f[n])
    <3> HIDE DEF S
    <3> QED BY <2>2
  <2> QED BY <2>1, <2>3
<1> DEFINE g == [s \in SUBSET R |-> f[Cardinality(s)][s]]
<1>6. ASSUME NEW s \in SUBSET R, s # {}
      PROVE  g[s] = val[pick[s]] + g[s \ {pick[s]}]
  <2> DEFINE r == s \ {pick[s]}
             n == Cardinality(r)
  <2>1. pick[s] \in s /\ IsFiniteSet(s) /\ r \in SUBSET R
    BY <1>6, FS_Subset
  <2>2. n \in Nat /\ Cardinality(s) = n + 1
    <3>1. Cardinality(r) = Cardinality(s) - 1 /\ IsFiniteSet(r) BY <2>1, FS_RemoveElement
    <3>2. Cardinality(s) \in Nat BY <2>1, FS_CardinalityType
    <3>3. Cardinality(r) \in Nat BY <3>1, FS_CardinalityType
    <3> HIDE DEF r
    <3> QED BY <3>1, <3>2, <3>3
  <2> HIDE DEF r, n, more, op
  <2>3. g[s] = f[n + 1][s] /\ g[r] = f[n][r]
    BY <2>1, <2>2 DEF n
  <2>4. f[n + 1] = more(f[n])
    BY <1>5, <2>2
  <2>5. more(f[n])[s] = val[pick[s]] + f[n][r]
    BY <1>6 DEF more, r
  <2> QED BY <2>3, <2>4, <2>5 DEF r
<1>7. g[{}] = 0
  <2>1. Cardinality({}) = 0 BY FS_EmptySet
  <2>2. f[0] = zero BY <1>4 DEF Recurs
  <2> QED BY <2>1, <2>2
<1> HIDE DEF g
<1>8. g = [s \in SUBSET R |-> g[s]]
  BY DEF g
<1>9. Sums(g, R, val, pick)
  BY <1>6, <1>7, <1>8 DEF Sums
<1> QED BY <1>9

LEMMA SumsAreInt ==
  ASSUME NEW R, IsFiniteSet(R), NEW val \in [R -> Int], NEW pick,
         \A s \in SUBSET R : s # {} => pick[s] \in s,
         NEW g, Sums(g, R, val, pick)
  PROVE  \A s \in SUBSET R : g[s] \in Int
<1> DEFINE G == {n \in Nat : \A s \in SUBSET R : Cardinality(s) = n => g[s] \in Int}
<1>1. \A s \in SUBSET R : g[s] = IF s = {} THEN 0 ELSE val[pick[s]] + g[s \ {pick[s]}]
  BY DEF Sums
<1>2. \A s \in SUBSET R : IsFiniteSet(s) /\ Cardinality(s) \in Nat
  BY FS_Subset, FS_CardinalityType
<1>3. 0 \in G
  <2>1. ASSUME NEW s \in SUBSET R, Cardinality(s) = 0 PROVE g[s] \in Int
    <3>1. s = {}
      <4>1. IsFiniteSet(s) BY <1>2
      <4> QED BY <4>1, <2>1, FS_EmptySet
    <3>2. g[s] = IF s = {} THEN 0 ELSE val[pick[s]] + g[s \ {pick[s]}] BY <1>1
    <3>3. g[s] = 0 BY <3>1, <3>2
    <3> QED BY <3>3
  <2> QED BY <2>1
<1>4. ASSUME NEW n \in Nat, n \in G PROVE n + 1 \in G
  <2>1. ASSUME NEW s \in SUBSET R, Cardinality(s) = n + 1 PROVE g[s] \in Int
    <3>1. s # {} BY <2>1, FS_EmptySet
    <3>2. pick[s] \in s /\ s \ {pick[s]} \in SUBSET R BY <3>1
    <3>3. Cardinality(s \ {pick[s]}) = n
      <4>1. IsFiniteSet(s) BY <1>2
      <4>2. Cardinality(s \ {pick[s]}) = Cardinality(s) - 1 BY <4>1, <3>2, FS_RemoveElement
      <4> QED BY <4>2, <2>1
    <3>4. g[s \ {pick[s]}] \in Int BY <1>4, <3>2, <3>3
    <3>5. val[pick[s]] \in Int BY <3>2
    <3>6. g[s] = val[pick[s]] + g[s \ {pick[s]}] BY <1>1, <3>1
    <3> QED BY <3>4, <3>5, <3>6
  <2> QED BY <2>1
<1> HIDE DEF G
<1>5. Nat \subseteq G
  BY <1>3, <1>4, AllNat
<1> QED BY <1>2, <1>5 DEF G

\* A sum is the same whichever element is taken out first.
Picks(pick, R) == \A s \in SUBSET R : s # {} => pick[s] \in s
TakesAny(g, R, val) == \A s \in SUBSET R : \A x \in s : g[s] = val[x] + g[s \ {x}]

LEMMA SumsTakeAny ==
  ASSUME NEW R, IsFiniteSet(R), NEW val \in [R -> Int], NEW pick, Picks(pick, R),
         NEW g, Sums(g, R, val, pick)
  PROVE  TakesAny(g, R, val)
<1> USE DEF Picks
<1> DEFINE Free(s) == \A x \in s : g[s] = val[x] + g[s \ {x}]
           G == {n \in Nat : \A s \in SUBSET R : Cardinality(s) = n => Free(s)}
<1>0. \A s \in SUBSET R : g[s] \in Int
  BY SumsAreInt
<1>1. \A s \in SUBSET R : g[s] = IF s = {} THEN 0 ELSE val[pick[s]] + g[s \ {pick[s]}]
  BY DEF Sums
<1>2. \A s \in SUBSET R : IsFiniteSet(s) /\ Cardinality(s) \in Nat
  BY FS_Subset, FS_CardinalityType
<1>3. 0 \in G
  <2>1. ASSUME NEW s \in SUBSET R, Cardinality(s) = 0 PROVE Free(s)
    <3>1. s = {}
      <4>1. IsFiniteSet(s) BY <1>2
      <4> QED BY <4>1, <2>1, FS_EmptySet
    <3>2. g[s] = IF s = {} THEN 0 ELSE val[pick[s]] + g[s \ {pick[s]}] BY <1>1
    <3> QED BY <3>1, <3>2
  <2> HIDE DEF Free
  <2> QED BY <2>1
<1>4. ASSUME NEW n \in Nat, n \in G PROVE n + 1 \in G
  <2>0. \A s \in SUBSET R : Cardinality(s) = n => Free(s)
    BY <1>4
  <2>1. ASSUME NEW s \in SUBSET R, Cardinality(s) = n + 1 PROVE Free(s)
    <3>1. \A x \in s : s \ {x} \in SUBSET R /\ Free(s \ {x}) /\ val[x] \in Int
      <4>1. ASSUME NEW x \in s PROVE s \ {x} \in SUBSET R /\ Cardinality(s \ {x}) = n
        <5>1. IsFiniteSet(s) BY <1>2
        <5>2. Cardinality(s \ {x}) = Cardinality(s) - 1 BY <5>1, <4>1, FS_RemoveElement
        <5> QED BY <5>2, <2>1
      <4> HIDE DEF Free
      <4> QED BY <4>1, <2>0
    <3> DEFINE c == pick[s]
    <3>2. s # {} BY <2>1, FS_EmptySet
    <3>3. c \in s /\ g[s] = val[c] + g[s \ {c}]
      BY <3>2, <1>1
    <3> HIDE DEF c
    <3>4. ASSUME NEW x \in s, x # c PROVE g[s] = val[x] + g[s \ {x}]
      <4>1. g[s \ {c}] = val[x] + g[(s \ {c}) \ {x}]
        BY <3>1, <3>3, <3>4
      <4>2. g[s \ {x}] = val[c] + g[(s \ {x}) \ {c}] /\ g[s \ {x}] \in Int
        BY <1>0, <3>1, <3>3, <3>4
      <4>3. (s \ {x}) \ {c} = (s \ {c}) \ {x}
        OBVIOUS
      <4> DEFINE a == g[s \ {c}]
                 b == g[s \ {x}]
                 d == g[(s \ {c}) \ {x}]
                 u == val[x]
                 v == val[c]
                 w == g[s]
      <4>4. a = u + d /\ b = v + d /\ w = v + a
        BY <3>3, <4>1, <4>2, <4>3
      <4>5. u \in Int /\ v \in Int /\ b \in Int /\ a \in Int
        BY <1>0, <3>1, <3>3, <3>4
      <4>7. d \in Int
        BY <1>0
      <4> HIDE DEF a, b, d, u, v, w
      <4>8. w = u + b
        BY <4>4, <4>5, <4>7
      <4> QED BY <4>8 DEF b, u, w
    <3> QED BY <3>3, <3>4
  <2> HIDE DEF Free
  <2> QED BY <2>1
<1> HIDE DEF G, Free
<1>5. Nat \subseteq G
  BY <1>3, <1>4, AllNat
<1>6. \A s \in SUBSET R : Free(s)
  BY <1>2, <1>5 DEF G
<1> QED BY <1>6 DEF Free, TakesAny

\* A smaller set sums the same by itself.
LEMMA SumsAgree ==
  ASSUME NEW R, IsFiniteSet(R), NEW T \in SUBSET R, NEW pick, Picks(pick, R),
         NEW val, NEW g, NEW h, NEW other,
         \A x \in T : val[x] = other[x],
         Sums(g, R, val, pick), Sums(h, T, other, pick)
  PROVE  g[T] = h[T]
<1> USE DEF Picks
<1> DEFINE G == {n \in Nat : \A s \in SUBSET T : Cardinality(s) = n => g[s] = h[s]}
<1>1. \A s \in SUBSET R : g[s] = IF s = {} THEN 0 ELSE val[pick[s]] + g[s \ {pick[s]}]
  BY DEF Sums
<1>2. \A s \in SUBSET T : h[s] = IF s = {} THEN 0 ELSE other[pick[s]] + h[s \ {pick[s]}]
  BY DEF Sums
<1>3. \A s \in SUBSET T : IsFiniteSet(s) /\ Cardinality(s) \in Nat /\ s \in SUBSET R
  BY FS_Subset, FS_CardinalityType
<1>4. 0 \in G
  <2>1. ASSUME NEW s \in SUBSET T, Cardinality(s) = 0 PROVE g[s] = h[s]
    <3>1. s = {}
      <4>1. IsFiniteSet(s) BY <1>3
      <4> QED BY <4>1, <2>1, FS_EmptySet
    <3>2. g[s] = 0 /\ h[s] = 0 BY <1>1, <1>2, <1>3, <3>1
    <3> QED BY <3>2
  <2> QED BY <2>1
<1>5. ASSUME NEW n \in Nat, n \in G PROVE n + 1 \in G
  <2>1. ASSUME NEW s \in SUBSET T, Cardinality(s) = n + 1 PROVE g[s] = h[s]
    <3>1. s # {} BY <2>1, FS_EmptySet
    <3>2. pick[s] \in s /\ s \in SUBSET R /\ s \ {pick[s]} \in SUBSET T BY <3>1, <1>3
    <3>3. Cardinality(s \ {pick[s]}) = n
      <4>1. IsFiniteSet(s) BY <1>3
      <4>2. Cardinality(s \ {pick[s]}) = Cardinality(s) - 1 BY <4>1, <3>2, FS_RemoveElement
      <4> QED BY <4>2, <2>1
    <3>4. g[s \ {pick[s]}] = h[s \ {pick[s]}] BY <1>5, <3>2, <3>3
    <3>5. val[pick[s]] = other[pick[s]] BY <3>2
    <3>6. g[s] = val[pick[s]] + g[s \ {pick[s]}] BY <1>1, <3>1, <3>2
    <3>7. h[s] = other[pick[s]] + h[s \ {pick[s]}] BY <1>2, <3>1
    <3> QED BY <3>4, <3>5, <3>6, <3>7
  <2> QED BY <2>1
<1> HIDE DEF G
<1>6. Nat \subseteq G
  BY <1>4, <1>5, AllNat
<1> QED BY <1>3, <1>6 DEF G

-----------------------------------------------------------------------------
(* Sequences.                                                              *)

\* What is left when the element at k is removed.
LEMMA RemovedAt ==
  ASSUME NEW S, NEW s \in Seq(S), NEW k \in 1 .. Len(s)
  PROVE  /\ RemoveAt(s, k) \in Seq(S) /\ Len(RemoveAt(s, k)) = Len(s) - 1
         /\ \A i \in 1 .. Len(s) - 1 : RemoveAt(s, k)[i] = IF i < k THEN s[i] ELSE s[i + 1]
<1> DEFINE a == SubSeq(s, 1, k - 1)
           b == SubSeq(s, k + 1, Len(s))
<1>1. a \in Seq(S) /\ Len(a) = k - 1 /\ \A i \in 1 .. k - 1 : a[i] = s[i]
  OBVIOUS
<1>2. b \in Seq(S) /\ Len(b) = Len(s) - k /\ \A i \in 1 .. Len(s) - k : b[i] = s[k + i]
  OBVIOUS
<1>3. RemoveAt(s, k) = a \o b
  BY DEF RemoveAt
<1> HIDE DEF a, b
<1>4. a \o b \in Seq(S) /\ Len(a \o b) = Len(s) - 1
  <2>1. a \o b \in Seq(S) /\ Len(a \o b) = Len(a) + Len(b)
    BY <1>1, <1>2, ConcatProperties
  <2>2. (k - 1) + (Len(s) - k) = Len(s) - 1
    OBVIOUS
  <2> QED BY <1>1, <1>2, <2>1, <2>2
<1>5. ASSUME NEW i \in 1 .. Len(s) - 1 PROVE (a \o b)[i] = IF i < k THEN s[i] ELSE s[i + 1]
  <2>1. CASE i < k
    BY <1>1, <1>2, <2>1
  <2>2. CASE ~(i < k)
    <3>1. i - (k - 1) \in 1 .. Len(s) - k /\ k + (i - (k - 1)) = i + 1
      BY <2>2
    <3>2. (a \o b)[i] = b[i - Len(a)]
      BY <1>1, <1>2, <2>2
    <3> QED BY <1>1, <1>2, <2>2, <3>1, <3>2
  <2> QED BY <2>1, <2>2
<1> QED BY <1>3, <1>4, <1>5

=============================================================================
