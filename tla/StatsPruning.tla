---------------------------- MODULE StatsPruning ----------------------------
(***************************************************************************)
(* The file-pruning conditions that _file_query.py generates as SQL: which *)
(* data files may be dropped before any Parquet I/O, given the atomic      *)
(* clauses of the pushed predicate, the per-column min/max statistics and  *)
(* the identity-partition values the catalog holds for each file.          *)
(*                                                                         *)
(* The generated conditions are built from comparisons, IS [NOT] NULL, AND *)
(* and OR only.  A WHERE clause keeps a row when its condition is TRUE, so *)
(* each operator below says when a condition IS TRUE: a comparison with    *)
(* NULL is not, and AND and OR distribute over being TRUE.                 *)
(*                                                                         *)
(* Values are integers in the order of the side that compares them; how a  *)
(* value travels to the catalog (stat strings, casts, bound parameters) is *)
(* the subject of StatConversions.                                         *)
(***************************************************************************)
EXTENDS Integers, Sequences, FiniteSets, FiniteSetsExt

CONSTANT NULL    \* SQL NULL, Python None, a Polars null
CONSTANT NaN     \* the floating-point not-a-number

ASSUME MarkersAreNotValues ==
    /\ NULL \notin Int \cup BOOLEAN
    /\ NULL # "int"   \* a column family
    /\ NaN \notin Int
    /\ NULL # NaN

CompareOps == {"eq", "ne", "lt", "le", "gt", "ge"}
NullOps    == {"is_null", "is_not_null"}

(***************************************************************************)
(* One leaf of the predicate, as _predicate.py extracts it.  lit is NULL   *)
(* for the null checks, and for a literal that _bind_value_for refuses.    *)
(***************************************************************************)
Clauses(cols, lits) ==
    [col: cols, op: CompareOps, lit: lits] \cup [col: cols, op: NullOps, lit: {NULL}]

-----------------------------------------------------------------------------
(* SQL comparison, as the catalog database evaluates it.                   *)

SqlLt(x, y) == x # NULL /\ y # NULL /\ x < y
SqlLe(x, y) == x # NULL /\ y # NULL /\ x <= y
SqlNe(x, y) == x # NULL /\ y # NULL /\ x # y

Bound(op, min, max, nullCount, valueCount, v) ==
    CASE op = "eq" -> SqlLe(min, v) /\ SqlLe(v, max)
      [] op = "ne" -> \/ SqlNe(min, v)
                      \/ SqlNe(max, v)
                      \/ nullCount = NULL
                      \/ valueCount = NULL
                      \/ SqlLe(valueCount, nullCount)
      [] op = "lt" -> SqlLt(min, v)
      [] op = "le" -> SqlLe(min, v)
      [] op = "gt" -> SqlLt(v, max)
      [] op = "ge" -> SqlLe(v, max)

(* Mutant of NanGuard: a recorded flag is enough.                          *)
NanGuardIfKnown(st) == st.containsNan # NULL

NanGuard(st)  == st.containsNan # NULL /\ st.containsNan = TRUE
NullGuard(st) == st.min = NULL \/ st.max = NULL

(* translate_clause: the keep-condition of one clause over one row of      *)
(* ducklake_file_column_stats; v is the literal as it is bound.            *)
KeepByStats(op, v, st) ==
    CASE op = "is_null"     -> st.nullCount = NULL \/ SqlLt(0, st.nullCount)
      [] op = "is_not_null" -> \/ st.nullCount = NULL
                               \/ st.valueCount = NULL
                               \/ SqlLt(st.nullCount, st.valueCount)
      [] OTHER -> \/ NanGuard(st)
                  \/ NullGuard(st)
                  \/ Bound(op, st.min, st.max, st.nullCount, st.valueCount, v)

(* A clause is dropped, which keeps every file, unless it is a null check, *)
(* or the column's type has a cast family and the literal can be bound.    *)
Translates(c, family) == c.op \in NullOps \/ (family # NULL /\ c.lit # NULL)

(* _build_stats_cte: every translated clause holds of the file's stats     *)
(* row, or the file has none.  With no translated clause there is no CTE.  *)
StatsCte(cs, family, st, Bind(_)) ==
    LET translated == {c \in cs : Translates(c, family)}
    IN \/ translated = {}
       \/ st = NULL
       \/ \A c \in translated : KeepByStats(c.op, Bind(c.lit), st)

-----------------------------------------------------------------------------
(* Identity partitions: pv is the partition_value of the file for the key, *)
(* NULL when the row holds NULL.                                           *)

KeepByPartition(op, v, pv) ==
    CASE op = "is_null"     -> pv = NULL
      [] op = "is_not_null" -> pv # NULL
      [] op = "eq" -> pv = NULL \/ pv = v
      [] op = "ne" -> pv = NULL \/ SqlNe(pv, v)
      [] op = "lt" -> pv = NULL \/ SqlLt(pv, v)
      [] op = "le" -> pv = NULL \/ SqlLe(pv, v)
      [] op = "gt" -> pv = NULL \/ SqlLt(v, pv)
      [] op = "ge" -> pv = NULL \/ SqlLe(v, pv)

(* _build_partition_cte: pvs is the set of partition_value entries the     *)
(* file has for this key index; a file without any is kept.                *)
PartitionCte(cs, family, pvs, Bind(_)) ==
    LET translated == {c \in cs : Translates(c, family)}
    IN \/ translated = {}
       \/ pvs = {}
       \/ \E pv \in pvs :
             \A c \in translated : KeepByPartition(c.op, Bind(c.lit), pv)

-----------------------------------------------------------------------------
(* The other side: the rows Polars keeps when it re-applies the predicate  *)
(* to what was read.  A null satisfies no comparison; NaN equals itself    *)
(* and is greater than every number.                                       *)

PolarsLt(x, y) == IF x = NaN THEN FALSE ELSE y = NaN \/ x < y

Satisfies(op, lit, v) ==
    CASE op = "is_null"     -> v = NULL
      [] op = "is_not_null" -> v # NULL
      [] op = "eq" -> v # NULL /\ v = lit
      [] op = "ne" -> v # NULL /\ v # lit
      [] op = "lt" -> v # NULL /\ PolarsLt(v, lit)
      [] op = "le" -> v # NULL /\ (PolarsLt(v, lit) \/ v = lit)
      [] op = "gt" -> v # NULL /\ PolarsLt(lit, v)
      [] op = "ge" -> v # NULL /\ (PolarsLt(lit, v) \/ v = lit)

(* What a writer records for a column chunk: bounds over the values that   *)
(* are neither null nor NaN, NULL when there are none.  Cast is the value  *)
(* the catalog sees for a recorded bound.                                  *)
ColumnStats(vals, nanFlag, Cast(_)) ==
    LET vs == {vals[i] : i \in DOMAIN vals} \ {NULL, NaN}
    IN [min         |-> IF vs = {} THEN NULL ELSE Cast(Min(vs)),
        max         |-> IF vs = {} THEN NULL ELSE Cast(Max(vs)),
        nullCount   |-> Cardinality({i \in DOMAIN vals : vals[i] = NULL}),
        valueCount  |-> Len(vals),
        containsNan |-> nanFlag]

=============================================================================
