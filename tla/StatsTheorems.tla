---------------------------- MODULE StatsTheorems ----------------------------
(***************************************************************************)
(* Min and Max of FiniteSetsExt on finite sets of integers, and what the   *)
(* statistics of a column chunk tell of its values: they keep the chunk    *)
(* for every clause that one of its values satisfies.                      *)
(***************************************************************************)
EXTENDS StatsPruning, FiniteSetTheorems, SequenceTheorems, WellFoundedInduction, TLAPS

(* A finite set of integers has a least and a greatest element, which Min  *)
(* and Max choose.  Of the sets of elements below (above) some element one *)
(* is minimal for inclusion.                                               *)

LEMMA MinIsLeast ==
  ASSUME NEW S \in SUBSET Int, IsFiniteSet(S), S # {}
  PROVE  Min(S) \in S /\ \A y \in S : Min(S) <= y
  <1>. DEFINE Below(x) == {y \in S : y < x}
              T == {Below(x) : x \in S}
  <1>1. T \subseteq FiniteSubsetsOf(S) /\ T # {}
    <2>1. \A t \in T : t \in SUBSET S
      OBVIOUS
    <2>2. T # {}
      OBVIOUS
    <2>. QED
      BY <2>1, <2>2, FS_FiniteSubsetsOfFinite
  <1>2. IsWellFoundedOn(StrictSubsetOrdering(S), FiniteSubsetsOf(S))
    BY FS_StrictSubsetOrderingWellFounded
  <1>3. PICK m \in T : \A t \in T : ~(<<t, m>> \in StrictSubsetOrdering(S))
    <2>. HIDE DEF T
    <2>. QED
      BY <1>1, <1>2, WFMin
  <1>4. PICK x \in S : m = Below(x)
    OBVIOUS
  <1>5. \A y \in S : x <= y
    <2>. SUFFICES ASSUME NEW y \in S, y < x PROVE FALSE
      OBVIOUS
    <2>. x \in Int /\ y \in Int /\ S \subseteq Int
      OBVIOUS
    <2>1. Below(y) \subseteq Below(x)
      <3>. SUFFICES ASSUME NEW z \in S, z < y PROVE z \in Below(x)
        OBVIOUS
      <3>. z \in Int
        OBVIOUS
      <3>. QED
        OBVIOUS
    <2>2. y \in Below(x) /\ y \notin Below(y)
      OBVIOUS
    <2>3. Below(y) \in SUBSET S /\ Below(x) \in SUBSET S /\ Below(y) # Below(x)
      BY <2>2
    <2>4. <<Below(y), Below(x)>> \in StrictSubsetOrdering(S)
      BY <2>1, <2>3 DEF StrictSubsetOrdering
    <2>. QED
      BY <1>3, <1>4, <2>4
  <1>. QED
    BY <1>5 DEF Min

LEMMA MaxIsGreatest ==
  ASSUME NEW S \in SUBSET Int, IsFiniteSet(S), S # {}
  PROVE  Max(S) \in S /\ \A y \in S : y <= Max(S)
  <1>. DEFINE Above(x) == {y \in S : x < y}
              T == {Above(x) : x \in S}
  <1>1. T \subseteq FiniteSubsetsOf(S) /\ T # {}
    <2>1. \A t \in T : t \in SUBSET S
      OBVIOUS
    <2>2. T # {}
      OBVIOUS
    <2>. QED
      BY <2>1, <2>2, FS_FiniteSubsetsOfFinite
  <1>2. IsWellFoundedOn(StrictSubsetOrdering(S), FiniteSubsetsOf(S))
    BY FS_StrictSubsetOrderingWellFounded
  <1>3. PICK m \in T : \A t \in T : ~(<<t, m>> \in StrictSubsetOrdering(S))
    <2>. HIDE DEF T
    <2>. QED
      BY <1>1, <1>2, WFMin
  <1>4. PICK x \in S : m = Above(x)
    OBVIOUS
  <1>5. \A y \in S : y <= x
    <2>. SUFFICES ASSUME NEW y \in S, x < y PROVE FALSE
      OBVIOUS
    <2>. x \in Int /\ y \in Int /\ S \subseteq Int
      OBVIOUS
    <2>1. Above(y) \subseteq Above(x)
      <3>. SUFFICES ASSUME NEW z \in S, y < z PROVE z \in Above(x)
        OBVIOUS
      <3>. z \in Int
        OBVIOUS
      <3>. QED
        OBVIOUS
    <2>2. y \in Above(x) /\ y \notin Above(y)
      OBVIOUS
    <2>3. Above(y) \in SUBSET S /\ Above(x) \in SUBSET S /\ Above(y) # Above(x)
      BY <2>2
    <2>4. <<Above(y), Above(x)>> \in StrictSubsetOrdering(S)
      BY <2>1, <2>3 DEF StrictSubsetOrdering
    <2>. QED
      BY <1>3, <1>4, <2>4
  <1>. QED
    BY <1>5 DEF Max

-----------------------------------------------------------------------------
(* The values of a chunk: the bounds enclose every plain one, and the      *)
(* counts tell whether it has nulls and non-nulls.                         *)

LEMMA PlainEnclosed ==
  ASSUME NEW k \in Nat, NEW vals \in [1..k -> Int \cup {NULL, NaN}],
         NEW i \in 1..k, vals[i] \in Int,
         NEW vs, vs = {vals[j] : j \in DOMAIN vals} \ {NULL, NaN}
  PROVE  vs # {} /\ Min(vs) \in Int /\ Max(vs) \in Int /\ Min(vs) <= vals[i] /\ vals[i] <= Max(vs)
  <1>. DEFINE all == {vals[j] : j \in DOMAIN vals}
  <1>1. vs \in SUBSET Int /\ vals[i] \in vs /\ vs \in SUBSET all
    BY MarkersAreNotValues
  <1>2. IsFiniteSet(vs)
    <2>1. vals \in Surjection(1..k, all)
      BY DEF Surjection
    <2>2. IsFiniteSet(1..k)
      BY FS_Interval
    <2>3. IsFiniteSet(all)
      BY <2>1, <2>2, FS_Surjection
    <2>. QED
      BY <1>1, <2>3, FS_Subset
  <1>3. Min(vs) \in vs /\ Min(vs) <= vals[i]
    BY <1>1, <1>2, MinIsLeast
  <1>4. Max(vs) \in vs /\ vals[i] <= Max(vs)
    BY <1>1, <1>2, MaxIsGreatest
  <1>. QED
    BY <1>1, <1>3, <1>4

LEMMA CountsTell ==
  ASSUME NEW k \in Nat, NEW S, NEW vals \in [1..k -> S], NEW i \in 1..k,
         NEW n, n = Cardinality({j \in DOMAIN vals : vals[j] = NULL})
  PROVE  /\ n \in Nat /\ Len(vals) = k
         /\ vals[i] = NULL => 0 < n
         /\ vals[i] # NULL => n < k
  <1>. DEFINE nulls == {j \in DOMAIN vals : vals[j] = NULL}
  <1>1. Len(vals) = k
    BY LenProperties, SeqDef
  <1>2. /\ nulls \in SUBSET (1..k) /\ IsFiniteSet(1..k) /\ Cardinality(1..k) = k
    BY FS_Interval
  <1>3. /\ IsFiniteSet(nulls) /\ n \in Nat /\ n <= k /\ (n = k => nulls = 1..k)
    <2>. HIDE DEF nulls
    <2>1. ASSUME NEW T, IsFiniteSet(T), nulls \in SUBSET T
          PROVE  /\ IsFiniteSet(nulls)
                 /\ Cardinality(nulls) <= Cardinality(T)
                 /\ Cardinality(T) = Cardinality(nulls) => T = nulls
      BY <2>1, FS_Subset
    <2>2. n = Cardinality(nulls)
      BY DEF nulls
    <2>3. IsFiniteSet(nulls) /\ n <= k /\ (k = n => nulls = 1..k)
      BY <1>2, <2>1, <2>2
    <2>. QED
      BY <2>2, <2>3, FS_CardinalityType
  <1>4. vals[i] = NULL => n # 0
    <2>1. vals[i] = NULL => i \in nulls
      OBVIOUS
    <2>2. n = Cardinality(nulls)
      OBVIOUS
    <2>. HIDE DEF nulls
    <2>. QED
      BY <2>1, <2>2, <1>3, FS_EmptySet
  <1>5. vals[i] # NULL => n # k
    BY <1>3
  <1>. HIDE DEF nulls
  <1>. QED
    BY <1>1, <1>3, <1>4, <1>5

(* Bounds of x keep the order to the literal when both are converted.      *)
Faithful(st, x, lit, bound) ==
    /\ x \in Int /\ lit \in Int /\ bound \in Int /\ st.min \in Int /\ st.max \in Int
    /\ \E lo, hi \in Int :
          /\ lo <= x /\ x <= hi
          /\ lo < lit => st.min < bound
          /\ lit < lo => bound < st.min
          /\ lo = lit => st.min = bound
          /\ hi < lit => st.max < bound
          /\ lit < hi => bound < st.max
          /\ hi = lit => st.max = bound

(* What the catalog holds of a chunk, for one of its values x and a clause *)
(* on it.                                                                  *)
Tells(st, x, op, lit, bound) ==
    /\ st.nullCount \in Nat /\ st.valueCount \in Nat
    /\ x = NULL => 0 < st.nullCount
    /\ x # NULL => st.nullCount < st.valueCount
    /\ x = NaN => st.containsNan = TRUE
    /\ op \in CompareOps /\ x \in Int => Faithful(st, x, lit, bound)

LEMMA BoundHolds ==
  ASSUME NEW st, NEW x, NEW lit, NEW bound, Faithful(st, x, lit, bound),
         NEW op \in CompareOps, Satisfies(op, lit, x)
  PROVE  Bound(op, st.min, st.max, st.nullCount, st.valueCount, bound)
  <1>1. PICK lo, hi \in Int :
          /\ lo <= x /\ x <= hi
          /\ lo < lit => st.min < bound
          /\ lit < lo => bound < st.min
          /\ lo = lit => st.min = bound
          /\ hi < lit => st.max < bound
          /\ lit < hi => bound < st.max
          /\ hi = lit => st.max = bound
    BY DEF Faithful
  <1>2. x \in Int /\ lit \in Int /\ bound \in Int /\ st.min \in Int /\ st.max \in Int
    BY DEF Faithful
  <1>3. st.min # NULL /\ st.max # NULL /\ bound # NULL /\ x # NaN /\ x # NULL /\ lit # NaN
    BY <1>2, MarkersAreNotValues
  <1>4. CASE op = "eq"
    <2>1. x = lit
      BY <1>4 DEF Satisfies
    <2>. QED
      BY <1>1, <1>2, <1>3, <1>4, <2>1 DEF Bound, SqlLe
  <1>5. CASE op = "ne"
    <2>1. x # lit
      BY <1>5 DEF Satisfies
    <2>. QED
      BY <1>1, <1>2, <1>3, <1>5, <2>1 DEF Bound, SqlNe
  <1>6. CASE op = "lt"
    <2>1. x < lit
      BY <1>3, <1>6 DEF Satisfies, PolarsLt
    <2>. QED
      BY <1>1, <1>2, <1>3, <1>6, <2>1 DEF Bound, SqlLt
  <1>7. CASE op = "le"
    <2>1. x <= lit
      BY <1>2, <1>3, <1>7 DEF Satisfies, PolarsLt
    <2>. QED
      BY <1>1, <1>2, <1>3, <1>7, <2>1 DEF Bound, SqlLe
  <1>8. CASE op = "gt"
    <2>1. lit < x
      BY <1>3, <1>8 DEF Satisfies, PolarsLt
    <2>. QED
      BY <1>1, <1>2, <1>3, <1>8, <2>1 DEF Bound, SqlLt
  <1>9. CASE op = "ge"
    <2>1. lit <= x
      BY <1>2, <1>3, <1>9 DEF Satisfies, PolarsLt
    <2>. QED
      BY <1>1, <1>2, <1>3, <1>9, <2>1 DEF Bound, SqlLe
  <1>. QED
    BY <1>4, <1>5, <1>6, <1>7, <1>8, <1>9 DEF CompareOps

(* translate_clause keeps a chunk that holds a value satisfying the clause. *)
LEMMA KeepsMatch ==
  ASSUME NEW st, NEW x \in Int \cup {NULL, NaN}, NEW op \in CompareOps \cup NullOps,
         NEW lit, NEW bound, Tells(st, x, op, lit, bound), Satisfies(op, lit, x)
  PROVE  KeepByStats(op, bound, st)
  <1>1. CASE op \in NullOps
    <2>1. CASE op = "is_null"
      <3>1. st.nullCount \in Nat /\ 0 < st.nullCount
        BY <2>1 DEF Satisfies, Tells
      <3>. QED
        BY <2>1, <3>1, MarkersAreNotValues DEF KeepByStats, SqlLt
    <2>2. CASE op = "is_not_null"
      <3>1. st.nullCount \in Nat /\ st.valueCount \in Nat /\ st.nullCount < st.valueCount
        BY <2>2 DEF Satisfies, Tells
      <3>. QED
        BY <2>2, <3>1, MarkersAreNotValues DEF KeepByStats, SqlLt
    <2>. QED
      BY <1>1, <2>1, <2>2 DEF NullOps
  <1>2. CASE op \in CompareOps /\ x = NULL
    BY <1>2, MarkersAreNotValues DEF Satisfies, CompareOps
  <1>3. CASE op \in CompareOps /\ x = NaN
    <2>1. NanGuard(st)
      BY <1>3, MarkersAreNotValues DEF Tells, NanGuard
    <2>. QED
      BY <1>3, <2>1 DEF KeepByStats, CompareOps
  <1>4. CASE op \in CompareOps /\ x \in Int
    <2>1. Bound(op, st.min, st.max, st.nullCount, st.valueCount, bound)
      BY <1>4, BoundHolds DEF Tells
    <2>. QED
      BY <1>4, <2>1 DEF KeepByStats, CompareOps
  <1>. QED
    BY <1>1, <1>2, <1>3, <1>4

=============================================================================
