---------------------------- MODULE BytesProofs ----------------------------
(* What Total, the sum of sizes of Bytes, adds up to.                      *)
EXTENDS Bytes, FiniteSetTheorems, TLAPS

\* The unit bytes of one record are as many as its size.
LEMMA UnitsOfOne ==
    ASSUME NEW k, NEW n \in Nat
    PROVE  IsFiniteSet({k} \X (1..n)) /\ Cardinality({k} \X (1..n)) = n
<1>1. IsFiniteSet(1..n) /\ Cardinality(1..n) = n
  BY FS_Interval, SMT
<1>2. IsFiniteSet({k}) /\ Cardinality({k}) = 1
  BY FS_Singleton
<1>3. QED
  BY <1>1, <1>2, FS_Product, SMT

\* The unit bytes of finitely many records are finitely many.
LEMMA UnitsFinite ==
    ASSUME NEW S, IsFiniteSet(S), NEW size, \A k \in S : size[k] \in Nat
    PROVE  IsFiniteSet(Units(S, size))
<1> DEFINE Rows == {{k} \X (1..size[k]) : k \in S}
           row == [k \in S |-> {k} \X (1..size[k])]
<1>1. row \in Surjection(S, Rows)
  BY DEF Surjection
<1>2. IsFiniteSet(Rows)
  BY <1>1, FS_Surjection
<1>3. ASSUME NEW R \in Rows PROVE IsFiniteSet(R)
  <2>1. PICK k \in S : R = {k} \X (1..size[k])
    OBVIOUS
  <2>2. size[k] \in Nat
    OBVIOUS
  <2>3. QED
    BY <2>1, <2>2, UnitsOfOne
<1> HIDE DEF Rows, row
<1>4. IsFiniteSet(UNION Rows)
  BY <1>2, <1>3, FS_UNION
<1>5. QED
  BY <1>4 DEF Units, Rows

\* A total is a natural number.
LEMMA TotalType ==
    ASSUME NEW S, IsFiniteSet(S), NEW size, \A k \in S : size[k] \in Nat
    PROVE  Total(S, size) \in Nat
BY UnitsFinite, FS_CardinalityType DEF Total

\* A total depends only on the sizes of the records in S.
LEMMA TotalCongruence ==
    ASSUME NEW S, NEW f, NEW g, \A k \in S : f[k] = g[k]
    PROVE  Total(S, f) = Total(S, g)
<1>1. Units(S, f) = Units(S, g)
  BY DEF Units
<1>2. QED
  BY <1>1 DEF Total

\* Splitting S splits its total.
LEMMA TotalSplit ==
    ASSUME NEW S, IsFiniteSet(S), NEW T, T \subseteq S,
           NEW size, \A k \in S : size[k] \in Nat
    PROVE  Total(S, size) = Total(S \ T, size) + Total(T, size)
<1>1. IsFiniteSet(T) /\ IsFiniteSet(S \ T)
  BY FS_Subset
<1>2. IsFiniteSet(Units(T, size)) /\ IsFiniteSet(Units(S \ T, size))
  BY <1>1, UnitsFinite
<1>3. Units(S, size) = Units(S \ T, size) \cup Units(T, size)
  BY DEF Units
<1>4. Units(S \ T, size) \cap Units(T, size) = {}
  BY DEF Units
<1>5. Cardinality({}) = 0
  BY FS_EmptySet
<1>6. Cardinality(Units(S \ T, size)) \in Nat /\ Cardinality(Units(T, size)) \in Nat
  BY <1>2, FS_CardinalityType
<1>7. ASSUME NEW A, NEW B, IsFiniteSet(A), IsFiniteSet(B), A \cap B = {}
      PROVE  Cardinality(A \cup B) = Cardinality(A) + Cardinality(B)
  <2>1. Cardinality(A \cup B) = Cardinality(A) + Cardinality(B) - Cardinality(A \cap B)
    BY <1>7, FS_Union
  <2>2. Cardinality(A) \in Nat /\ Cardinality(B) \in Nat
    BY <1>7, FS_CardinalityType
  <2>3. Cardinality(A \cap B) = 0
    BY <1>5, <1>7, Zenon
  <2>4. QED
    BY <2>1, <2>2, <2>3
<1>8. QED
  BY <1>2, <1>3, <1>4, <1>7 DEF Total

\* The total of one record is its size.
LEMMA TotalOfOne ==
    ASSUME NEW k, NEW size, size[k] \in Nat
    PROVE  Total({k}, size) = size[k]
<1>1. Units({k}, size) = {k} \X (1..size[k])
  BY DEF Units
<1>2. QED
  BY <1>1, UnitsOfOne DEF Total

\* The total of no records is zero.
LEMMA TotalOfNone ==
    ASSUME NEW size
    PROVE  Total({}, size) = 0
<1>1. Units({}, size) = {}
  BY DEF Units
<1>2. QED
  BY <1>1, FS_EmptySet DEF Total

=============================================================================
