------------------------ MODULE FileEnumerationProofs ------------------------
(***************************************************************************)
(* Proofs about FileEnumeration: for any columns, values, literals and     *)
(* file sizes, the conditions _file_query.py generates keep every file     *)
(* with a matching row, provided that the conversions are faithful.        *)
(*                                                                         *)
(* The argument goes through the statistics of one column chunk: bounds    *)
(* over its plain values, a null count and a NaN flag.                     *)
(* Partition values follow, first of one spec and then of any number of    *)
(* them, with what is lost when the spec changes.                          *)
(***************************************************************************)
EXTENDS FileEnumeration, StatsTheorems

(* Recorded values and bound literals keep the order of the values, and a  *)
(* chunk with a NaN is recorded as such.                                   *)
FaithfulConversions ==
    /\ \A v, w \in Int :
          /\ StatCast(v) \in Int /\ BindCast(w) \in Int
          /\ v < w => StatCast(v) < BindCast(w)
          /\ w < v => BindCast(w) < StatCast(v)
          /\ v = w => StatCast(v) = BindCast(w)
    /\ NanFlag(TRUE) = TRUE

-----------------------------------------------------------------------------
(* translate_clause keeps a chunk that holds a value satisfying the clause. *)
LEMMA StatsKeepMatch ==
  ASSUME FaithfulConversions,
         NEW k \in Nat, NEW vals \in [1..k -> CellValues], NEW i \in 1..k,
         NEW op \in CompareOps \cup NullOps, NEW lit, op \in CompareOps => lit \in Int,
         Satisfies(op, lit, vals[i])
  PROVE  KeepByStats(op, BindCast(lit),
                     ColumnStats(vals, NanFlag(\E j \in DOMAIN vals : vals[j] = NaN), StatCast))
  <1>a. PICK x : x = vals[i]
    OBVIOUS
  <1>b. PICK flag : flag = NanFlag(\E j \in DOMAIN vals : vals[j] = NaN)
    OBVIOUS
  <1>c. PICK st : st = ColumnStats(vals, flag, StatCast)
    OBVIOUS
  <1>d. PICK vs : vs = {vals[j] : j \in DOMAIN vals} \ {NULL, NaN}
    OBVIOUS
  <1>1. vals \in [1..k -> Int \cup {NULL, NaN}] /\ x \in Int \cup {NULL, NaN}
    BY <1>a, EnumerationAssumption
  <1>2. /\ vs # {} => st.min = StatCast(Min(vs)) /\ st.max = StatCast(Max(vs))
        /\ st.nullCount = Cardinality({j \in DOMAIN vals : vals[j] = NULL})
        /\ st.valueCount = Len(vals)
        /\ st.containsNan = flag
    BY <1>c, <1>d DEF ColumnStats
  <1>3. /\ st.nullCount \in Nat /\ st.valueCount \in Nat
        /\ x = NULL => 0 < st.nullCount
        /\ x # NULL => st.nullCount < st.valueCount
    <2>1. PICK n : n = Cardinality({j \in DOMAIN vals : vals[j] = NULL})
      OBVIOUS
    <2>2. /\ n \in Nat /\ Len(vals) = k
          /\ vals[i] = NULL => 0 < n
          /\ vals[i] # NULL => n < k
      BY <2>1, CountsTell
    <2>. QED
      BY <1>2, <1>a, <2>1, <2>2
  <1>4. x = NaN => st.containsNan = TRUE
    <2>1. ASSUME x = NaN PROVE (\E j \in DOMAIN vals : vals[j] = NaN) = TRUE
      <3>1. \E j \in DOMAIN vals : vals[j] = NaN
        BY <1>a, <2>1
      <3>. QED
        BY <3>1
    <2>. QED
      BY <1>2, <1>b, <2>1 DEF FaithfulConversions
  <1>5. ASSUME op \in CompareOps, x \in Int PROVE Faithful(st, x, lit, BindCast(lit))
    <2>1. /\ vs # {} /\ Min(vs) \in Int /\ Max(vs) \in Int /\ Min(vs) <= x /\ x <= Max(vs)
      BY <1>1, <1>5, <1>a, <1>d, PlainEnclosed
    <2>2. PICK lo, hi \in Int : /\ lo <= x /\ x <= hi
                                /\ st.min = StatCast(lo) /\ st.max = StatCast(hi)
      BY <1>2, <2>1
    <2>3. /\ StatCast(lo) \in Int /\ StatCast(hi) \in Int /\ BindCast(lit) \in Int
          /\ lo < lit => StatCast(lo) < BindCast(lit)
          /\ lit < lo => BindCast(lit) < StatCast(lo)
          /\ lo = lit => StatCast(lo) = BindCast(lit)
          /\ hi < lit => StatCast(hi) < BindCast(lit)
          /\ lit < hi => BindCast(lit) < StatCast(hi)
          /\ hi = lit => StatCast(hi) = BindCast(lit)
      BY <1>5 DEF FaithfulConversions
    <2>. QED
      BY <1>5, <2>2, <2>3 DEF Faithful
  <1>6. Tells(st, x, op, lit, BindCast(lit))
    BY <1>3, <1>4, <1>5 DEF Tells
  <1>. QED
    BY <1>1, <1>6, <1>a, <1>b, <1>c, KeepsMatch

(* _translate_partition_clause keeps a file whose key value satisfies the  *)
(* clause: the value was recorded under the identity transform.            *)
LEMMA PartitionKeepsMatch ==
  ASSUME FaithfulConversions,
         NEW v \in Int \cup {NULL},
         NEW op \in CompareOps \cup NullOps, NEW lit, op \in CompareOps => lit \in Int,
         Satisfies(op, lit, v)
  PROVE  KeepByPartition(op, BindCast(lit), PartitionValue("identity", v))
  <1>. DEFINE pv == PartitionValue("identity", v)
  <1>. SUFFICES KeepByPartition(op, BindCast(lit), pv)
    OBVIOUS
  <1>1. CASE v = NULL
    BY <1>1 DEF PartitionValue, Satisfies, KeepByPartition, CompareOps, NullOps
  <1>2. CASE v \in Int
    <2>1. pv = StatCast(v) /\ pv \in Int /\ pv # NULL /\ v # NULL
      BY <1>2, MarkersAreNotValues DEF PartitionValue, FaithfulConversions
    <2>2. CASE op \in NullOps
      BY <2>1, <2>2 DEF Satisfies, KeepByPartition, NullOps
    <2>3. CASE op \in CompareOps
      <3>1. /\ lit \in Int /\ BindCast(lit) \in Int
            /\ v < lit => pv < BindCast(lit)
            /\ lit < v => BindCast(lit) < pv
            /\ v = lit => pv = BindCast(lit)
        BY <1>2, <2>1, <2>3 DEF FaithfulConversions
      <3>2. BindCast(lit) # NULL /\ v # NaN /\ lit # NaN
        BY <1>2, <3>1, MarkersAreNotValues
      <3>. HIDE DEF pv
      <3>3. CASE op = "eq"
        <4>1. v = lit
          BY <3>3 DEF Satisfies
        <4>. QED
          BY <3>1, <3>3, <4>1 DEF KeepByPartition
      <3>4. CASE op = "ne"
        <4>1. v # lit
          BY <3>4 DEF Satisfies
        <4>2. pv # BindCast(lit)
          BY <1>2, <2>1, <3>1, <4>1
        <4>. QED
          BY <2>1, <3>2, <3>4, <4>2 DEF KeepByPartition, SqlNe
      <3>5. CASE op = "lt"
        <4>1. v < lit
          BY <3>2, <3>5 DEF Satisfies, PolarsLt
        <4>. QED
          BY <2>1, <3>1, <3>2, <3>5, <4>1 DEF KeepByPartition, SqlLt
      <3>6. CASE op = "le"
        <4>1. v < lit \/ v = lit
          BY <3>2, <3>6 DEF Satisfies, PolarsLt
        <4>. QED
          BY <2>1, <3>1, <3>2, <3>6, <4>1 DEF KeepByPartition, SqlLe
      <3>7. CASE op = "gt"
        <4>1. lit < v
          BY <3>2, <3>7 DEF Satisfies, PolarsLt
        <4>. QED
          BY <2>1, <3>1, <3>2, <3>7, <4>1 DEF KeepByPartition, SqlLt
      <3>8. CASE op = "ge"
        <4>1. lit < v \/ v = lit
          BY <3>2, <3>8 DEF Satisfies, PolarsLt
        <4>. QED
          BY <2>1, <3>1, <3>2, <3>8, <4>1 DEF KeepByPartition, SqlLe
      <3>. QED
        BY <2>3, <3>3, <3>4, <3>5, <3>6, <3>7, <3>8 DEF CompareOps
    <2>. QED
      BY <2>2, <2>3
  <1>. QED
    BY <1>1, <1>2

-----------------------------------------------------------------------------
(* What the catalog holds of a file was recorded from the file's rows.     *)
Recorded(f) ==
    /\ f = [begin |-> f.begin, end |-> f.end, rows |-> f.rows, stats |-> f.stats,
            values |-> f.values]
    /\ \E k \in 1..MaxRows : f.rows \in Rows(k)
    /\ \E m \in BOOLEAN : f.stats = StatsOf(f.rows, m)

StatsRecorded == \A f \in files : Recorded(f)

LEMMA RecordedInvariant == Spec => []StatsRecorded
  <1>1. Init => StatsRecorded
    BY DEF Init, StatsRecorded
  <1>2. StatsRecorded /\ [Next]_vars => StatsRecorded'
    <2>. SUFFICES ASSUME StatsRecorded, [Next]_vars PROVE StatsRecorded'
      OBVIOUS
    <2>1. ASSUME NEW c \in Columns, NEW tr \in Transforms, SetPartitionedBy(c, tr)
          PROVE  StatsRecorded'
      BY <2>1 DEF SetPartitionedBy, StatsRecorded
    <2>2. ASSUME NEW k \in 1..MaxRows, NEW m \in BOOLEAN, NEW u \in BOOLEAN, NEW rows \in Rows(k),
                 WriteFile(rows, m, u)
          PROVE  StatsRecorded'
      <3>1. PICK vs : files' = files \cup {[begin |-> last + 1, end |-> NULL, rows |-> rows,
                                            stats |-> StatsOf(rows, m), values |-> vs]}
        BY <2>2 DEF WriteFile
      <3>. DEFINE f == [begin |-> last + 1, end |-> NULL, rows |-> rows,
                        stats |-> StatsOf(rows, m), values |-> vs]
      <3>2. Recorded(f)
        BY DEF Recorded
      <3>. QED
        BY <3>1, <3>2 DEF StatsRecorded
    <2>3. ASSUME NEW f \in files, ExpireFile(f) PROVE StatsRecorded'
      <3>. DEFINE g == [f EXCEPT !.end = last + 1]
      <3>1. Recorded(f)
        BY DEF StatsRecorded
      <3>2. Recorded(g)
        BY <3>1 DEF Recorded
      <3>. QED
        BY <2>3, <3>2 DEF ExpireFile, StatsRecorded
    <2>4. CASE UNCHANGED vars
      BY <2>4 DEF vars, StatsRecorded
    <2>. QED
      BY <2>1, <2>2, <2>3, <2>4 DEF Next
  <1>. QED
    BY <1>1, <1>2, PTL DEF Spec

(* A file with a matching row passes the statistics CTEs.                  *)
LEMMA MatchPassesStats ==
  ASSUME FaithfulConversions, NEW f, Recorded(f),
         NEW clauses \in ClauseSets, HasMatch(f, clauses)
  PROVE  PassesStats(f, clauses)
  <1>1. PICK i \in DOMAIN f.rows :
           \A c \in clauses : Satisfies(c.op, c.lit, f.rows[i][c.col])
    BY DEF HasMatch
  <1>2. PICK k \in 1..MaxRows : f.rows \in [1..k -> [Columns -> CellValues]]
    BY DEF Recorded, Rows
  <1>3. \A c \in clauses :
           /\ c.col \in Columns
           /\ c.op \in CompareOps \cup NullOps
           /\ c.op \in CompareOps => c.lit \in Int
    <2>1. clauses \subseteq Clauses(Columns, Literals)
      BY DEF ClauseSets
    <2>2. CompareOps \cap NullOps = {}
      BY DEF CompareOps, NullOps
    <2>. QED
      BY <2>1, <2>2, EnumerationAssumption DEF Clauses
  <1>. SUFFICES ASSUME NEW col \in {cl.col : cl \in clauses}, f.stats[col] # NULL
                PROVE  \A c \in {cl \in clauses : cl.col = col} :
                          KeepByStats(c.op, BindCast(c.lit), f.stats[col])
    <2>1. ASSUME NEW col \in {cl.col : cl \in clauses},
                 \/ f.stats[col] = NULL
                 \/ \A c \in {cl \in clauses : cl.col = col} :
                       KeepByStats(c.op, BindCast(c.lit), f.stats[col])
          PROVE  StatsCte({cl \in clauses : cl.col = col}, "int", f.stats[col], BindCast)
      BY <2>1 DEF StatsCte
    <2>. QED
      BY <2>1 DEF PassesStats
  <1>. SUFFICES ASSUME NEW d \in clauses, d.col = col
                PROVE  KeepByStats(d.op, BindCast(d.lit), f.stats[col])
    OBVIOUS
  <1>. DEFINE vals == [j \in DOMAIN f.rows |-> f.rows[j][col]]
  <1>4. col \in Columns /\ k \in Nat
    <2>1. d.col \in Columns
      BY <1>3
    <2>2. k \in Nat
      BY EnumerationAssumption
    <2>. QED
      BY <2>1, <2>2
  <1>5. f.stats[col] =
           ColumnStats(vals, NanFlag(\E j \in DOMAIN vals : vals[j] = NaN), StatCast)
    <2>1. PICK m \in BOOLEAN : f.stats = StatsOf(f.rows, m)
      BY DEF Recorded
    <2>2. f.stats[col] =
             IF m THEN ColumnStats(vals, NanFlag(\E j \in DOMAIN vals : vals[j] = NaN), StatCast)
             ELSE NULL
      BY <1>4, <2>1 DEF StatsOf
    <2>. QED
      BY <2>2
  <1>6. vals \in [1..k -> CellValues] /\ i \in 1..k /\ Satisfies(d.op, d.lit, vals[i])
    BY <1>1, <1>2, <1>4
  <1>7. d.op \in CompareOps \cup NullOps /\ (d.op \in CompareOps => d.lit \in Int)
    BY <1>3
  <1>. HIDE DEF vals
  <1>8. ASSUME NEW op \in CompareOps \cup NullOps, NEW lit, op \in CompareOps => lit \in Int,
               Satisfies(op, lit, vals[i])
        PROVE  KeepByStats(op, BindCast(lit), f.stats[col])
    BY <1>4, <1>5, <1>6, <1>8, StatsKeepMatch
  <1>. QED
    BY <1>6, <1>7, <1>8

(* With faithful conversions statistics alone never drop a file that has a *)
(* matching row, nulls and NaN included (_ClauseSql).                      *)
THEOREM StatsAreConservative ==
  ASSUME FaithfulConversions
  PROVE  Spec => []UnreliableStatsAreKept
  <1>1. StatsRecorded => UnreliableStatsAreKept
    BY MatchPassesStats DEF StatsRecorded, UnreliableStatsAreKept
  <1>. QED
    BY RecordedInvariant, <1>1, PTL

-----------------------------------------------------------------------------
(* With one partition spec, whose values writers always record, a file's   *)
(* partition value is the transform of the key that all its rows share.    *)
Keyed(f, p) ==
    /\ f.values = {PartitionValue(p.transform, f.rows[1][p.column])}
    /\ \A i \in DOMAIN f.rows :
          Transformed(p.transform, f.rows[i][p.column]) =
             Transformed(p.transform, f.rows[1][p.column])

OneSpec == /\ \A p \in specs : p.column \in Columns /\ p.end = NULL
           /\ \A p, q \in specs : p = q

ValuesRecorded == \A f \in files : f.values = {} \/ \E p \in specs : Keyed(f, p)

LEMMA KeyedInvariant ==
  ASSUME Respec = FALSE, Unset = FALSE
  PROVE  Spec => [](StatsRecorded /\ OneSpec /\ ValuesRecorded)
  <1>1. Init => OneSpec /\ ValuesRecorded
    BY DEF Init, OneSpec, ValuesRecorded
  <1>2. OneSpec /\ ValuesRecorded /\ StatsRecorded /\ [Next]_vars => (OneSpec /\ ValuesRecorded)'
    <2>. SUFFICES ASSUME OneSpec, ValuesRecorded, StatsRecorded, [Next]_vars
                  PROVE  (OneSpec /\ ValuesRecorded)'
      OBVIOUS
    <2>1. ASSUME NEW c \in Columns, NEW tr \in Transforms, SetPartitionedBy(c, tr)
          PROVE  (OneSpec /\ ValuesRecorded)'
      <3>. DEFINE new == [column |-> c, transform |-> tr, begin |-> last + 1, end |-> NULL]
      <3>1. specs = {} /\ specs' = {new} /\ files' = files
        BY <2>1 DEF SetPartitionedBy
      <3>2. OneSpec'
        BY <3>1 DEF OneSpec
      <3>3. ValuesRecorded'
        BY <3>1 DEF ValuesRecorded
      <3>. QED
        BY <3>2, <3>3
    <2>2. ASSUME NEW k \in 1..MaxRows, NEW m \in BOOLEAN, NEW u \in BOOLEAN, NEW rows \in Rows(k),
                 WriteFile(rows, m, u)
          PROVE  (OneSpec /\ ValuesRecorded)'
      <3>. DEFINE vs == {PartitionValue(p.transform, rows[1][p.column]) : p \in LiveSpecs}
                  f  == [begin |-> last + 1, end |-> NULL, rows |-> rows,
                         stats |-> StatsOf(rows, m), values |-> vs]
      <3>1. /\ files' = files \cup {f} /\ specs' = specs
            /\ \A p \in LiveSpecs : \A i \in DOMAIN rows :
                  Transformed(p.transform, rows[i][p.column]) =
                     Transformed(p.transform, rows[1][p.column])
        BY <2>2 DEF WriteFile
      <3>2. LiveSpecs = specs
        BY DEF LiveSpecs, OneSpec
      <3>3. f.values = {} \/ \E p \in specs : Keyed(f, p)
        <4>1. ASSUME NEW p \in specs PROVE Keyed(f, p)
          <5>1. vs = {PartitionValue(p.transform, rows[1][p.column])}
            BY <3>2 DEF OneSpec
          <5>. QED
            BY <3>1, <3>2, <5>1 DEF Keyed
        <4>2. specs = {} => vs = {}
          BY <3>2
        <4>. QED
          BY <4>1, <4>2
      <3>. HIDE DEF f
      <3>. QED
        BY <3>1, <3>3 DEF OneSpec, ValuesRecorded
    <2>3. ASSUME NEW f \in files, ExpireFile(f) PROVE (OneSpec /\ ValuesRecorded)'
      <3>. DEFINE g == [f EXCEPT !.end = last + 1]
      <3>1. g.values = f.values /\ g.rows = f.rows
        BY DEF StatsRecorded, Recorded
      <3>2. g.values = {} \/ \E p \in specs : Keyed(g, p)
        BY <3>1 DEF ValuesRecorded, Keyed
      <3>3. files' \subseteq files \cup {g} /\ specs' = specs
        BY <2>3 DEF ExpireFile
      <3>. HIDE DEF g
      <3>. QED
        BY <3>2, <3>3 DEF OneSpec, ValuesRecorded
    <2>4. CASE UNCHANGED vars
      BY <2>4 DEF vars, OneSpec, ValuesRecorded, Keyed
    <2>. QED
      BY <2>1, <2>2, <2>3, <2>4 DEF Next
  <1>. QED
    BY <1>1, <1>2, RecordedInvariant, PTL DEF Spec

(* A file with a matching row passes the CTE of a spec whose key it tells, *)
(* or of one whose value is unset and not asked for.                       *)
AsksForKey(clauses, p) == \E c \in clauses : c.col = p.column /\ c.op = "is_not_null"

LEMMA MatchPassesSpec ==
  ASSUME FaithfulConversions, NaN \notin CellValues,
         NEW f, Recorded(f), NEW clauses \in ClauseSets, HasMatch(f, clauses),
         NEW p, p.column \in Columns, p.transform = "identity",
         \/ f.values = {}
         \/ f.values = {NULL} /\ ~AsksForKey(clauses, p)
         \/ Keyed(f, p)
  PROVE  PartitionCte({cl \in clauses : cl.col = p.column}, "int", f.values, BindCast)
  <1>1. PICK i \in DOMAIN f.rows :
           \A c \in clauses : Satisfies(c.op, c.lit, f.rows[i][c.col])
    BY DEF HasMatch
  <1>2. PICK k \in 1..MaxRows : f.rows \in [1..k -> [Columns -> CellValues]]
    BY DEF Recorded, Rows
  <1>3. ASSUME NEW c \in clauses
        PROVE  /\ c.op \in CompareOps \cup NullOps
               /\ c.op \in CompareOps => c.lit \in Int
    <2>1. clauses \subseteq Clauses(Columns, Literals)
      BY DEF ClauseSets
    <2>2. CompareOps \cap NullOps = {}
      BY DEF CompareOps, NullOps
    <2>. QED
      BY <2>1, <2>2, EnumerationAssumption DEF Clauses
  <1>4. CASE f.values = {}
    BY <1>4 DEF PartitionCte
  <1>5. CASE f.values = {NULL} /\ ~AsksForKey(clauses, p)
    <2>1. ASSUME NEW c \in clauses, c.col = p.column
          PROVE  KeepByPartition(c.op, BindCast(c.lit), NULL)
      <3>1. c.op # "is_not_null"
        BY <1>5, <2>1 DEF AsksForKey
      <3>2. c.op \in CompareOps \/ c.op = "is_null"
        BY <1>3, <3>1 DEF NullOps
      <3>. QED
        BY <3>2 DEF KeepByPartition, CompareOps
    <2>. QED
      BY <1>5, <2>1 DEF PartitionCte
  <1>6. CASE Keyed(f, p)
    <2>. DEFINE v == f.rows[1][p.column]
                pv == PartitionValue("identity", v)
    <2>1. f.values = {pv} /\ f.rows[i][p.column] = v
      BY <1>6 DEF Keyed, Transformed
    <2>2. v \in Int \cup {NULL}
      <3>1. k \in Nat /\ k >= 1
        BY EnumerationAssumption
      <3>2. f.rows[1] \in [Columns -> CellValues]
        BY <1>2, <3>1
      <3>3. v \in CellValues
        BY <3>2
      <3>. QED
        BY <3>3, EnumerationAssumption
    <2>. HIDE DEF v
    <2>3. ASSUME NEW c \in clauses, c.col = p.column
          PROVE  KeepByPartition(c.op, BindCast(c.lit), pv)
      <3>1. Satisfies(c.op, c.lit, v)
        BY <1>1, <2>1, <2>3
      <3>. QED
        BY <1>3, <2>2, <3>1, PartitionKeepsMatch
    <2>. QED
      BY <2>1, <2>3 DEF PartitionCte
  <1>. QED
    BY <1>4, <1>5, <1>6

(* "Pruning is conservative": with faithful conversions, one partition     *)
(* spec whose values writers record, and no NaN among the cells, no file   *)
(* with a matching row is dropped at any snapshot (build_files_query).     *)
THEOREM PruningIsConservative ==
  ASSUME FaithfulConversions, Respec = FALSE, Unset = FALSE, NaN \notin CellValues
  PROVE  Spec => []PruningKeepsMatches
  <1>1. StatsRecorded /\ OneSpec /\ ValuesRecorded => PruningKeepsMatches
    <2>. SUFFICES ASSUME StatsRecorded, OneSpec, ValuesRecorded,
                         NEW f \in files, NEW clauses \in ClauseSets, HasMatch(f, clauses),
                         NEW s \in 1..last, VisibleAt(f, s)
                  PROVE  f \in BuildFilesQuery(s, clauses)
      BY DEF PruningKeepsMatches
    <2>1. Recorded(f) /\ (f.values = {} \/ \E p \in specs : Keyed(f, p))
      BY DEF StatsRecorded, ValuesRecorded
    <2>2. PassesStats(f, clauses)
      BY <2>1, MatchPassesStats
    <2>3. ASSUME NEW p \in FetchPartitionSpec(s), p.transform = "identity"
          PROVE  PartitionCte({cl \in clauses : cl.col = p.column}, "int", f.values, BindCast)
      <3>1. p \in specs /\ p.column \in Columns
        BY DEF FetchPartitionSpec, OneSpec
      <3>2. f.values = {} \/ Keyed(f, p)
        BY <2>1, <3>1 DEF OneSpec
      <3>. QED
        BY <2>1, <2>3, <3>1, <3>2, MatchPassesSpec
    <2>4. PassesPartition(f, clauses, FetchPartitionSpec(s))
      BY <2>3 DEF PassesPartition
    <2>. QED
      BY <2>2, <2>4 DEF BuildFilesQuery
  <1>. QED
    BY <1>1, KeyedInvariant, PTL

-----------------------------------------------------------------------------
(* What is lost when the spec changes, and when writers leave values unset.*)

IsSpec(p) ==
    /\ p = [column |-> p.column, transform |-> p.transform, begin |-> p.begin, end |-> p.end]
    /\ p.column \in Columns /\ p.transform \in Transforms
    /\ p.begin \in 1..last /\ p.end \in (1..last) \cup {NULL}

(* One spec at a time.                                                     *)
SpecsApart ==
    /\ \A p \in specs : IsSpec(p)
    /\ \A p, q \in specs : \A s \in Nat : VisibleAt(p, s) /\ VisibleAt(q, s) => p = q

(* A file has a value under the spec it was written under, if there was    *)
(* one: that of its key, or none that was set.                             *)
WrittenUnder(f, p) ==
    VisibleAt(p, f.begin) /\ (f.values = {NULL} \/ Keyed(f, p))

FileInterval(f) == f.begin \in 1..last /\ (f.end = NULL \/ f.end \in (f.begin + 1)..last)

ValuesKnown ==
    /\ last \in 1..MaxSnapshot
    /\ \A f \in files : FileInterval(f) /\ (f.values = {} \/ \E p \in specs : WrittenUnder(f, p))

EInv == StatsRecorded /\ SpecsApart /\ ValuesKnown

LEMMA SpecChanges ==
  ASSUME EInv, NEW c \in Columns, NEW tr \in Transforms, SetPartitionedBy(c, tr)
  PROVE  SpecsApart' /\ ValuesKnown'
  <1>a. PICK new : new = [column |-> c, transform |-> tr, begin |-> last + 1, end |-> NULL]
    OBVIOUS
  <1>b. PICK closed : closed = [p \in specs |-> IF p \in LiveSpecs THEN [p EXCEPT !.end = last + 1] ELSE p]
    OBVIOUS
  <1>1. /\ specs' = {closed[p] : p \in specs} \cup {new} /\ files' = files /\ last' = last + 1
        /\ last < MaxSnapshot /\ last \in 1..MaxSnapshot /\ MaxSnapshot \in Nat
    BY <1>a, <1>b, EnumerationAssumption DEF SetPartitionedBy, Commit, EInv, ValuesKnown
  <1>2. ASSUME NEW p \in specs
        PROVE  /\ IsSpec(closed[p])'
               /\ closed[p].column = p.column /\ closed[p].transform = p.transform
               /\ \A s \in 1..last : VisibleAt(p, s) => VisibleAt(closed[p], s)
               /\ \A s \in Nat : VisibleAt(closed[p], s) => s <= last /\ VisibleAt(p, s)
    <2>1. IsSpec(p)
      BY DEF EInv, SpecsApart
    <2>2. CASE p.end = NULL
      <3>1. closed[p] = [column |-> p.column, transform |-> p.transform, begin |-> p.begin, end |-> last + 1]
        BY <1>b, <2>1, <2>2 DEF LiveSpecs, IsSpec
      <3>2. last + 1 # NULL
        BY <1>1, MarkersAreNotValues
      <3>. QED
        BY <1>1, <2>1, <2>2, <3>1, <3>2 DEF IsSpec, VisibleAt
    <2>3. CASE p.end # NULL
      <3>1. closed[p] = p
        BY <1>b, <2>3 DEF LiveSpecs
      <3>. QED
        BY <1>1, <2>1, <2>3, <3>1 DEF IsSpec, VisibleAt
    <2>. QED
      BY <2>2, <2>3
  <1>3. IsSpec(new)' /\ \A s \in Nat : VisibleAt(new, s) => ~(s <= last)
    <2>1. last' = last + 1 /\ last \in Nat /\ last' \in 1..last'
      BY <1>1
    <2>. QED
      BY <1>a, <2>1 DEF IsSpec, VisibleAt
  <1>4. SpecsApart'
    <2>1. ASSUME NEW p \in specs' PROVE IsSpec(p)'
      BY <1>1, <1>2, <1>3
    <2>2. ASSUME NEW p \in specs', NEW q \in specs', NEW s \in Nat, VisibleAt(p, s), VisibleAt(q, s)
          PROVE  p = q
      <3>1. CASE p = new /\ q = new
        BY <3>1
      <3>2. CASE \E x \in specs : p = closed[x]
        <4>1. PICK x \in specs : p = closed[x]
          BY <3>2
        <4>2. s <= last /\ VisibleAt(x, s)
          BY <1>2, <2>2, <4>1
        <4>3. PICK y \in specs : q = closed[y]
          BY <1>1, <1>3, <2>2, <4>2
        <4>4. VisibleAt(y, s)
          BY <1>2, <2>2, <4>3
        <4>. QED
          BY <4>1, <4>2, <4>3, <4>4 DEF EInv, SpecsApart
      <3>3. CASE \E x \in specs : q = closed[x]
        <4>1. PICK x \in specs : q = closed[x]
          BY <3>3
        <4>2. s <= last /\ VisibleAt(x, s)
          BY <1>2, <2>2, <4>1
        <4>3. PICK y \in specs : p = closed[y]
          BY <1>1, <1>3, <2>2, <4>2
        <4>4. VisibleAt(y, s)
          BY <1>2, <2>2, <4>3
        <4>. QED
          BY <4>1, <4>2, <4>3, <4>4 DEF EInv, SpecsApart
      <3>. QED
        BY <1>1, <3>1, <3>2, <3>3
    <2>. QED
      BY <2>1, <2>2 DEF SpecsApart
  <1>5. ASSUME NEW f \in files
        PROVE  FileInterval(f)' /\ (f.values = {} \/ \E p \in specs' : WrittenUnder(f, p))
    <2>1. FileInterval(f)
      BY DEF EInv, ValuesKnown
    <2>2. FileInterval(f)'
      BY <1>1, <2>1 DEF FileInterval
    <2>3. ASSUME NEW p \in specs, WrittenUnder(f, p) PROVE WrittenUnder(f, closed[p])
      <3>1. VisibleAt(closed[p], f.begin)
        BY <1>2, <2>1, <2>3 DEF WrittenUnder, FileInterval
      <3>. QED
        BY <1>2, <2>3, <3>1 DEF WrittenUnder, Keyed
    <2>. QED
      BY <1>1, <2>2, <2>3 DEF EInv, ValuesKnown
  <1>6. last' \in 1..MaxSnapshot
    BY <1>1
  <1>. QED
    BY <1>1, <1>4, <1>5, <1>6 DEF ValuesKnown

LEMMA FilesChange ==
  ASSUME EInv, UNCHANGED specs, Commit, NEW g,
         files' \subseteq files \cup {g},
         FileInterval(g)', g.values = {} \/ \E p \in specs : WrittenUnder(g, p)
  PROVE  SpecsApart' /\ ValuesKnown'
  <1>1. last' = last + 1 /\ last' \in 1..MaxSnapshot /\ last \in Nat
    BY EnumerationAssumption DEF Commit, EInv, ValuesKnown
  <1>2. SpecsApart'
    BY <1>1 DEF EInv, SpecsApart, IsSpec
  <1>3. ASSUME NEW f \in files PROVE FileInterval(f)'
    BY <1>1 DEF FileInterval, EInv, ValuesKnown
  <1>. QED
    BY <1>1, <1>2, <1>3 DEF EInv, ValuesKnown

LEMMA EInvariant == Spec => []EInv
  <1>1. Init => SpecsApart /\ ValuesKnown
    <2>1. ASSUME Init PROVE last \in 1..MaxSnapshot
      BY <2>1, EnumerationAssumption DEF Init
    <2>. QED
      BY <2>1 DEF Init, SpecsApart, ValuesKnown
  <1>2. EInv /\ [Next]_vars => (SpecsApart /\ ValuesKnown)'
    <2>. SUFFICES ASSUME EInv, [Next]_vars PROVE (SpecsApart /\ ValuesKnown)'
      OBVIOUS
    <2>a. last \in Nat
      BY EnumerationAssumption DEF EInv, ValuesKnown
    <2>1. ASSUME NEW c \in Columns, NEW tr \in Transforms, SetPartitionedBy(c, tr)
          PROVE  (SpecsApart /\ ValuesKnown)'
      BY <2>1, SpecChanges
    <2>2. ASSUME NEW k \in 1..MaxRows, NEW m \in BOOLEAN, NEW u \in BOOLEAN, NEW rows \in Rows(k),
                 WriteFile(rows, m, u)
          PROVE  (SpecsApart /\ ValuesKnown)'
      <3>. DEFINE all == {PartitionValue(p.transform, rows[1][p.column]) : p \in LiveSpecs}
                  vs  == IF u /\ all # {} THEN {NULL} ELSE all
      <3>a. PICK f : f = [begin |-> last + 1, end |-> NULL, rows |-> rows,
                          stats |-> StatsOf(rows, m), values |-> vs]
        OBVIOUS
      <3>1. /\ files' = files \cup {f} /\ UNCHANGED specs /\ Commit /\ last' = last + 1
            /\ \A p \in LiveSpecs : \A i \in DOMAIN rows :
                  Transformed(p.transform, rows[i][p.column]) =
                     Transformed(p.transform, rows[1][p.column])
        BY <2>2, <3>a DEF WriteFile, Commit
      <3>2. FileInterval(f)'
        <4>1. f.begin = last' /\ f.end = NULL /\ last' \in 1..last'
          BY <2>a, <3>1, <3>a
        <4>. QED
          BY <4>1 DEF FileInterval
      <3>3. ASSUME NEW p \in LiveSpecs
            PROVE  p \in specs /\ VisibleAt(p, last + 1) /\ all = {PartitionValue(p.transform, rows[1][p.column])}
        <4>1. \A q \in LiveSpecs : q \in specs /\ VisibleAt(q, last + 1)
          BY <2>a DEF LiveSpecs, EInv, SpecsApart, IsSpec, VisibleAt
        <4>2. \A q \in LiveSpecs : q = p
          BY <2>a, <4>1 DEF EInv, SpecsApart
        <4>. QED
          BY <4>1, <4>2
      <3>4. f.values = {} \/ \E p \in specs : WrittenUnder(f, p)
        <4>1. ASSUME NEW p \in LiveSpecs PROVE WrittenUnder(f, p)
          <5>1. f.values = {NULL} \/ f.values = {PartitionValue(p.transform, rows[1][p.column])}
            BY <3>3, <3>a
          <5>2. f.begin = last + 1 /\ f.rows = rows
            BY <3>a
          <5>. QED
            BY <3>1, <3>3, <5>1, <5>2 DEF WrittenUnder, Keyed
        <4>2. LiveSpecs = {} => f.values = {}
          BY <3>a
        <4>. QED
          BY <4>1, <4>2, <3>3
      <3>. QED
        BY <3>1, <3>2, <3>4, FilesChange
    <2>3. ASSUME NEW f \in files, ExpireFile(f) PROVE (SpecsApart /\ ValuesKnown)'
      <3>a. PICK g : g = [f EXCEPT !.end = last + 1]
        OBVIOUS
      <3>1. g.values = f.values /\ g.rows = f.rows /\ g.begin = f.begin /\ g.end = last + 1
        BY <3>a DEF EInv, StatsRecorded, Recorded
      <3>2. FileInterval(f) /\ (f.values = {} \/ \E p \in specs : WrittenUnder(f, p))
        BY DEF EInv, ValuesKnown
      <3>3. files' \subseteq files \cup {g} /\ UNCHANGED specs /\ Commit /\ last' = last + 1
        BY <2>3, <3>a DEF ExpireFile, Commit
      <3>4. FileInterval(g)'
        <4>1. g.begin \in 1..last /\ g.end = last' /\ last' = last + 1
          BY <3>1, <3>2, <3>3 DEF FileInterval
        <4>2. g.begin \in 1..last' /\ g.end \in (g.begin + 1)..last'
          BY <2>a, <4>1
        <4>. QED
          BY <4>2 DEF FileInterval
      <3>5. g.values = {} \/ \E p \in specs : WrittenUnder(g, p)
        BY <3>1, <3>2 DEF WrittenUnder, Keyed
      <3>. QED
        BY <3>3, <3>4, <3>5, FilesChange
    <2>4. CASE UNCHANGED vars
      BY <2>4 DEF vars, EInv, SpecsApart, IsSpec, ValuesKnown, FileInterval
    <2>. QED
      BY <2>1, <2>2, <2>3, <2>4 DEF Next
  <1>. QED
    BY <1>1, <1>2, RecordedInvariant, PTL DEF Spec, EInv

(* Rows and intervals of the catalog are of their types, and a file ends   *)
(* after it begins (begin_snapshot < end_snapshot).                        *)
THEOREM EnumerationTypes == Spec => []TypeOK
  <1>1. EInv => TypeOK
    <2>. SUFFICES ASSUME EInv PROVE TypeOK
      OBVIOUS
    <2>1. last \in 1..MaxSnapshot
      BY DEF EInv, ValuesKnown
    <2>2. \A p \in specs : /\ p.column \in Columns /\ p.transform \in Transforms
                           /\ p.begin \in 1..last /\ p.end \in (1..last) \cup {NULL}
      BY DEF EInv, SpecsApart, IsSpec
    <2>3. \A f \in files : /\ f.begin \in 1..last
                           /\ f.end = NULL \/ f.end \in (f.begin + 1)..last
      BY DEF EInv, ValuesKnown, FileInterval
    <2>4. \A f \in files : f.rows \in UNION {Rows(k) : k \in 1..MaxRows}
      BY DEF EInv, StatsRecorded, Recorded
    <2>. QED
      BY <2>1, <2>2, <2>3, <2>4 DEF TypeOK
  <1>. QED
    BY <1>1, EInvariant, PTL

(* The two ways a spec can lose a file with a matching row.  Foreign: the  *)
(* spec of the target snapshot partitions by another column or transform   *)
(* than the one the file's values were written under; they are found by    *)
(* key index alone.  Untold: the writer left partition_value NULL and a    *)
(* clause asks for a key that is not null.                                 *)
Foreign(f, s) ==
    \E p \in FetchPartitionSpec(s) :
       /\ p.transform = "identity" /\ f.values # {}
       /\ \A q \in FetchPartitionSpec(f.begin) : q.column # p.column \/ q.transform # p.transform

Untold(f, clauses, s) ==
    f.values = {NULL} /\ \E p \in FetchPartitionSpec(s) : p.transform = "identity" /\ AsksForKey(clauses, p)

LossesAreKnown ==
    \A f \in files, clauses \in ClauseSets : \A s \in 1..last :
       HasMatch(f, clauses) /\ VisibleAt(f, s) =>
          f \in BuildFilesQuery(s, clauses) \/ Foreign(f, s) \/ Untold(f, clauses, s)

(* Through any changes of the spec and with values left unset, the query   *)
(* drops a file with a matching row only in these two ways.                *)
THEOREM OnlyKnownLosses ==
  ASSUME FaithfulConversions, NaN \notin CellValues
  PROVE  Spec => []LossesAreKnown
  <1>1. EInv => LossesAreKnown
    <2>. SUFFICES ASSUME EInv, NEW f \in files, NEW clauses \in ClauseSets, NEW s \in 1..last,
                         HasMatch(f, clauses), VisibleAt(f, s), ~Foreign(f, s), ~Untold(f, clauses, s)
                  PROVE  f \in BuildFilesQuery(s, clauses)
      BY DEF LossesAreKnown
    <2>1. Recorded(f) /\ FileInterval(f) /\ last \in Nat
      BY EnumerationAssumption DEF EInv, StatsRecorded, ValuesKnown
    <2>2. PassesStats(f, clauses)
      BY <2>1, MatchPassesStats
    <2>3. ASSUME NEW p \in FetchPartitionSpec(s), p.transform = "identity"
          PROVE  PartitionCte({cl \in clauses : cl.col = p.column}, "int", f.values, BindCast)
      <3>1. p \in specs /\ p.column \in Columns
        BY DEF FetchPartitionSpec, EInv, SpecsApart, IsSpec
      <3>2. CASE f.values = {}
        BY <2>1, <2>3, <3>1, <3>2, MatchPassesSpec
      <3>3. CASE f.values # {}
        <4>1. PICK q \in specs : WrittenUnder(f, q)
          BY <3>3 DEF EInv, ValuesKnown
        <4>2. PICK r \in FetchPartitionSpec(f.begin) : r.column = p.column /\ r.transform = p.transform
          BY <2>3, <3>3 DEF Foreign
        <4>3. q = r
          BY <2>1, <4>1, <4>2 DEF EInv, SpecsApart, WrittenUnder, FetchPartitionSpec, FileInterval
        <4>4. f.values = {NULL} \/ Keyed(f, p)
          BY <4>1, <4>2, <4>3 DEF WrittenUnder, Keyed
        <4>5. f.values = {NULL} => ~AsksForKey(clauses, p)
          BY <2>3 DEF Untold
        <4>. QED
          BY <2>1, <2>3, <3>1, <4>4, <4>5, MatchPassesSpec
      <3>. QED
        BY <3>2, <3>3
    <2>4. PassesPartition(f, clauses, FetchPartitionSpec(s))
      BY <2>3 DEF PassesPartition
    <2>. QED
      BY <2>2, <2>4 DEF BuildFilesQuery
  <1>. QED
    BY <1>1, EInvariant, PTL

-----------------------------------------------------------------------------
(* A chunk that was measured, of integers that all lie on one side of v,   *)
(* is not kept for v = literal.                                            *)
LEMMA DisjointIsDropped ==
  ASSUME FaithfulConversions, NEW k \in Nat, k # 0, NEW vals \in [1..k -> Int], NEW v \in Int,
         (\A i \in 1..k : vals[i] < v) \/ (\A i \in 1..k : v < vals[i]),
         NEW flag, flag # TRUE
  PROVE  ~KeepByStats("eq", BindCast(v), ColumnStats(vals, flag, StatCast))
  <1>a. PICK st : st = ColumnStats(vals, flag, StatCast)
    OBVIOUS
  <1>b. PICK vs : vs = {vals[j] : j \in DOMAIN vals} \ {NULL, NaN}
    OBVIOUS
  <1>1. vals \in [1..k -> Int \cup {NULL, NaN}] /\ 1 \in 1..k
    OBVIOUS
  <1>2. vs # {} /\ vs \in SUBSET {vals[j] : j \in 1..k} /\ vs \in SUBSET Int
    BY <1>1, <1>b, PlainEnclosed
  <1>3. st.min = StatCast(Min(vs)) /\ st.max = StatCast(Max(vs)) /\ st.containsNan = flag
    BY <1>a, <1>b, <1>2 DEF ColumnStats
  <1>4. Min(vs) \in vs /\ Max(vs) \in vs
    <2>1. IsFiniteSet({vals[j] : j \in 1..k})
      <3>. DEFINE all == {vals[j] : j \in 1..k}
      <3>1. vals \in Surjection(1..k, all)
        BY DEF Surjection
      <3>2. IsFiniteSet(1..k)
        BY FS_Interval
      <3>. QED
        BY <3>1, <3>2, FS_Surjection
    <2>2. IsFiniteSet(vs)
      BY <1>2, <2>1, FS_Subset
    <2>. QED
      BY <1>2, <2>2, MinIsLeast, MaxIsGreatest
  <1>5. PICK lo \in Int, hi \in Int : /\ st.min = StatCast(lo) /\ st.max = StatCast(hi)
                                     /\ lo \in vs /\ hi \in vs
    BY <1>2, <1>3, <1>4
  <1>6. (lo < v /\ hi < v) \/ (v < lo /\ v < hi)
    BY <1>2, <1>5
  <1>7. /\ st.min \in Int /\ st.max \in Int /\ BindCast(v) \in Int
        /\ st.max < BindCast(v) \/ BindCast(v) < st.min
    <2>1. /\ StatCast(lo) \in Int /\ StatCast(hi) \in Int /\ BindCast(v) \in Int
          /\ hi < v => StatCast(hi) < BindCast(v)
          /\ v < lo => BindCast(v) < StatCast(lo)
      BY DEF FaithfulConversions
    <2>. QED
      BY <1>5, <1>6, <2>1
  <1>8. ~NanGuard(st) /\ ~NullGuard(st) /\ ~Bound("eq", st.min, st.max, st.nullCount, st.valueCount, BindCast(v))
    <2>1. ~NanGuard(st)
      BY <1>3 DEF NanGuard
    <2>2. ~NullGuard(st)
      BY <1>7, MarkersAreNotValues DEF NullGuard
    <2>3. ~SqlLe(st.min, BindCast(v)) \/ ~SqlLe(BindCast(v), st.max)
      BY <1>7 DEF SqlLe
    <2>. QED
      BY <2>1, <2>2, <2>3 DEF Bound
  <1>. QED
    BY <1>8, <1>a DEF KeepByStats

(* Pruning earns its query, for any columns, values and file sizes, when   *)
(* no chunk without a NaN is flagged: equality with a literal outside the  *)
(* range of a measured file drops it (_build_stats_cte).                   *)
THEOREM DisjointIsPruned ==
  ASSUME FaithfulConversions, NanFlag(FALSE) # TRUE
  PROVE  Spec => []DisjointFilesArePruned
  <1>1. StatsRecorded => DisjointFilesArePruned
    <2>. SUFFICES ASSUME StatsRecorded, NEW f \in files, NEW c \in Columns, NEW v \in Literals,
                         NEW all, all = {f.rows[i][c] : i \in DOMAIN f.rows},
                         f.stats[c] # NULL, all \subseteq Int,
                         (\A x \in all : x < v) \/ (\A x \in all : v < x)
                  PROVE  f \notin BuildFilesQuery(f.begin, {[col |-> c, op |-> "eq", lit |-> v]})
      BY DEF DisjointFilesArePruned
    <2>. DEFINE vals == [j \in DOMAIN f.rows |-> f.rows[j][c]]
                cl   == [col |-> c, op |-> "eq", lit |-> v]
    <2>1. PICK k \in 1..MaxRows : f.rows \in Rows(k)
      BY DEF StatsRecorded, Recorded
    <2>2. PICK m \in BOOLEAN : f.stats = StatsOf(f.rows, m)
      BY DEF StatsRecorded, Recorded
    <2>3. k \in Nat /\ k # 0 /\ v \in Int
      BY EnumerationAssumption
    <2>4. vals \in [1..k -> Int] /\ \A i \in 1..k : vals[i] \in all
      BY <2>1 DEF Rows
    <2>5. f.stats[c] = ColumnStats(vals, NanFlag(\E j \in DOMAIN vals : vals[j] = NaN), StatCast)
      BY <2>2 DEF StatsOf
    <2>. HIDE DEF vals
    <2>6. ~(\E j \in DOMAIN vals : vals[j] = NaN)
      BY <2>4, MarkersAreNotValues
    <2>7. NanFlag(\E j \in DOMAIN vals : vals[j] = NaN) # TRUE
      <3>1. (\E j \in DOMAIN vals : vals[j] = NaN) = FALSE
        BY <2>6
      <3>. QED
        BY <3>1
    <2>8. ~KeepByStats("eq", BindCast(v), f.stats[c])
      <3>1. PICK flag : flag = NanFlag(\E j \in DOMAIN vals : vals[j] = NaN)
        OBVIOUS
      <3>. QED
        BY <2>3, <2>4, <2>5, <2>7, <3>1, DisjointIsDropped
    <2>9. ~StatsCte({d \in {cl} : d.col = c}, "int", f.stats[c], BindCast)
      <3>1. {d \in {cl} : d.col = c} = {cl} /\ cl.op = "eq" /\ cl.lit = v
        OBVIOUS
      <3>2. v # NULL
        BY <2>3, MarkersAreNotValues
      <3>. HIDE DEF cl
      <3>3. Translates(cl, "int")
        BY <3>1, <3>2, MarkersAreNotValues DEF Translates
      <3>. QED
        BY <2>8, <3>1, <3>3 DEF StatsCte
    <2>10. ~PassesStats(f, {cl})
      BY <2>9 DEF PassesStats
    <2>. QED
      BY <2>10 DEF BuildFilesQuery
  <1>. QED
    BY <1>1, RecordedInvariant, PTL

=============================================================================
