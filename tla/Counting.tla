------------------------------ MODULE Counting ------------------------------
(* Sums of natural numbers, for proofs: Held(f, S) is the sum of f over the  *)
(* finite set S, told by the cardinality of a set that has f[b] elements for *)
(* each b of S, so that what is known of finite sets applies.                *)
EXTENDS Integers, FiniteSets, TLAPS, FiniteSetTheorems, WellFoundedInduction

Cells(f, S) == UNION {{b} \X (1..f[b]) : b \in S}
Held(f, S) == Cardinality(Cells(f, S))

\* f has a number for each element of S.
Part(f, S) == IsFiniteSet(S) /\ S \subseteq DOMAIN f /\ \A b \in S : f[b] \in Nat

-----------------------------------------------------------------------------

\* A set of natural numbers that is not empty has a least element.
LEMMA Least ==
    ASSUME NEW T \in SUBSET Nat, T # {}
    PROVE  \E n \in T : \A m \in T : n <= m
<1> DEFINE R == {ss \in Nat \X Nat : ss[1] < ss[2]}
<1>1. IsWellFoundedOn(R, Nat)
  BY NatLessThanWellFounded DEF OpToRel
<1>2. \A m, n \in Nat : m < n => <<m, n>> \in R
  OBVIOUS
<1> HIDE DEF R
<1>3. PICK n \in T : \A m \in T : ~(<<m, n>> \in R)
  BY <1>1, WFMin
<1>4. \A m \in T : n <= m
  <2>1. SUFFICES ASSUME NEW m \in T, m < n PROVE FALSE
    OBVIOUS
  <2>2. <<m, n>> \in R
    BY <1>2, <2>1
  <2> QED
    BY <1>3, <2>2
<1> QED
  BY <1>4

-----------------------------------------------------------------------------

LEMMA RowLemma ==
    ASSUME NEW b, NEW k \in Nat
    PROVE  IsFiniteSet({b} \X (1..k)) /\ Cardinality({b} \X (1..k)) = k
<1>1. IsFiniteSet({b}) /\ Cardinality({b}) = 1
  BY FS_Singleton
<1>2. IsFiniteSet(1..k) /\ Cardinality(1..k) = IF 1 > k THEN 0 ELSE k - 1 + 1
  BY FS_Interval
<1>3. Cardinality(1..k) = k
  BY <1>2
<1>4. /\ IsFiniteSet({b} \X (1..k))
      /\ Cardinality({b} \X (1..k)) = Cardinality({b}) * Cardinality(1..k)
  <2> DEFINE row == {b}
             counts == 1..k
  <2>1. IsFiniteSet(row) /\ IsFiniteSet(counts)
    BY <1>1, <1>2
  <2> HIDE DEF row, counts
  <2>2. /\ IsFiniteSet(row \X counts)
        /\ Cardinality(row \X counts) = Cardinality(row) * Cardinality(counts)
    BY <2>1, FS_Product, Zenon
  <2> QED
    BY <2>2 DEF row, counts
<1>5. 1 * k = k
  OBVIOUS
<1> QED
  BY <1>1, <1>3, <1>4, <1>5

LEMMA HeldTyped ==
    ASSUME NEW f, NEW S, Part(f, S)
    PROVE  /\ IsFiniteSet(Cells(f, S))
           /\ Held(f, S) \in Nat
<1> DEFINE rows == {{b} \X (1..f[b]) : b \in S}
           g == [b \in S |-> {b} \X (1..f[b])]
<1>1. IsFiniteSet(S)
  BY DEF Part
<1>2. g \in Surjection(S, rows)
  <2>1. g \in [S -> rows]
    OBVIOUS
  <2>2. \A t \in rows : \E b \in S : g[b] = t
    OBVIOUS
  <2> QED
    BY <2>1, <2>2 DEF Surjection
<1>3. IsFiniteSet(rows)
  BY <1>1, <1>2, FS_Surjection
<1>4. ASSUME NEW b \in S PROVE IsFiniteSet({b} \X (1..f[b]))
  <2>1. f[b] \in Nat
    BY DEF Part
  <2> QED
    BY <2>1, RowLemma
<1>5. \A T \in rows : IsFiniteSet(T)
  BY <1>4
<1>6. IsFiniteSet(Cells(f, S))
  BY <1>3, <1>5, FS_UNION DEF Cells
<1> QED
  BY <1>6, FS_CardinalityType DEF Held

\* A smaller set, and another function that agrees there.
LEMMA PartSubset ==
    ASSUME NEW f, NEW S, Part(f, S), NEW T, T \subseteq S
    PROVE  Part(f, T)
<1>1. T \in SUBSET S /\ IsFiniteSet(S)
  BY DEF Part
<1>2. IsFiniteSet(T)
  BY <1>1, FS_Subset
<1> QED
  BY <1>2 DEF Part

LEMMA HeldSame ==
    ASSUME NEW f, NEW g, NEW S, \A b \in S : g[b] = f[b]
    PROVE  Held(g, S) = Held(f, S)
<1>1. Cells(g, S) = Cells(f, S)
  BY DEF Cells
<1> QED
  BY <1>1 DEF Held

LEMMA HeldNone == ASSUME NEW f PROVE Held(f, {}) = 0
<1>1. Cells(f, {}) = {}
  BY DEF Cells
<1> QED
  BY <1>1, FS_EmptySet DEF Held

LEMMA HeldOne ==
    ASSUME NEW f, NEW b, f[b] \in Nat
    PROVE  Held(f, {b}) = f[b]
<1>1. Cells(f, {b}) = {b} \X (1..f[b])
  BY DEF Cells
<1> QED
  BY <1>1, RowLemma DEF Held

\* The sum over two sets without a common element.
LEMMA HeldUnion ==
    ASSUME NEW f, NEW S, NEW T, Part(f, S), Part(f, T), S \cap T = {}
    PROVE  Held(f, S \cup T) = Held(f, S) + Held(f, T)
<1> DEFINE A == Cells(f, S)
           B == Cells(f, T)
<1>1. Cells(f, S \cup T) = A \cup B
  BY DEF Cells
<1>2. A \cap B = {}
  BY DEF Cells
<1>3. /\ IsFiniteSet(A) /\ Cardinality(A) = Held(f, S) /\ Held(f, S) \in Nat
      /\ IsFiniteSet(B) /\ Cardinality(B) = Held(f, T) /\ Held(f, T) \in Nat
  BY HeldTyped DEF Held
<1> HIDE DEF A, B
<1>4. /\ Cardinality(A \cup B) = Cardinality(A) + Cardinality(B) - Cardinality(A \cap B)
      /\ Cardinality(A \cap B) = 0
  BY <1>2, <1>3, FS_Union, FS_EmptySet
<1>5. Cardinality(A \cup B) = Held(f, S) + Held(f, T)
  BY <1>3, <1>4
<1> QED
  BY <1>1, <1>5 DEF Held, A, B

\* Taking one element out.
LEMMA HeldTake ==
    ASSUME NEW f, NEW S, Part(f, S), NEW b \in S
    PROVE  /\ f[b] \in Nat
           /\ Part(f, S \ {b})
           /\ Held(f, S) = f[b] + Held(f, S \ {b})
<1>1. f[b] \in Nat
  BY DEF Part
<1>2. Part(f, {b}) /\ Part(f, S \ {b})
  BY PartSubset
<1>3. Held(f, {b} \cup (S \ {b})) = Held(f, {b}) + Held(f, S \ {b})
  <2>1. {b} \cap (S \ {b}) = {}
    OBVIOUS
  <2> QED
    BY <1>2, <2>1, HeldUnion
<1>4. {b} \cup (S \ {b}) = S
  OBVIOUS
<1> QED
  BY <1>1, <1>2, <1>3, <1>4, HeldOne

\* Changing one number changes the sum as much.
LEMMA HeldChange ==
    ASSUME NEW f, NEW S, Part(f, S), NEW b \in S, NEW g, Part(g, S),
           \A c \in S : c # b => g[c] = f[c]
    PROVE  /\ f[b] \in Nat /\ g[b] \in Nat /\ Held(f, S) \in Nat /\ Held(g, S) \in Nat
           /\ Held(g, S) - g[b] = Held(f, S) - f[b]
<1>1. Held(f, S) = f[b] + Held(f, S \ {b}) /\ f[b] \in Nat
  BY HeldTake
<1>2. Held(g, S) = g[b] + Held(g, S \ {b}) /\ g[b] \in Nat
  BY HeldTake
<1>3. Held(g, S \ {b}) = Held(f, S \ {b})
  BY HeldSame
<1>4. Held(f, S) \in Nat /\ Held(g, S) \in Nat /\ Held(f, S \ {b}) \in Nat
  <2>1. Part(f, S \ {b})
    BY HeldTake
  <2> QED
    BY <2>1, HeldTyped
<1> QED
  BY <1>1, <1>2, <1>3, <1>4
=============================================================================
