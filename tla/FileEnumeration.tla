--------------------------- MODULE FileEnumeration ---------------------------
(***************************************************************************)
(* The candidate-file query of one partitioned table (_file_query.py,      *)
(* build_files_query): the statistics CTE of every clause's column, and    *)
(* the partition CTE of the column the active spec partitions by, both     *)
(* against what the writer recorded when it wrote each file.               *)
(*                                                                         *)
(* Statistics and partition values reach the catalog as strings and are    *)
(* compared there, after the dialect's cast, with a bound literal.         *)
(* StatCast and BindCast give the place of a recorded value and of a bound *)
(* literal in the catalog's order; StatConversions defines the ones the    *)
(* dialects have.                                                          *)
(***************************************************************************)
EXTENDS StatsPruning, Functions

CONSTANTS
    Columns,        \* the table's columns
    CellValues,     \* what a cell can hold
    Literals,       \* integers a predicate compares with
    StatCast(_),    \* recorded value -> its place in the catalog's order
    BindCast(_),    \* bound literal -> its place in the catalog's order
    NanFlag(_),     \* does the chunk hold a NaN? -> contains_nan as recorded
    Transforms,     \* partition transforms writers use
    Respec,         \* may the spec of a partitioned table change?
    Unset,          \* may a writer leave partition_value NULL?
    MaxSnapshot,    \* bound: snapshots
    MaxRows         \* bound: rows of one file

ASSUME EnumerationAssumption ==
    /\ CellValues \subseteq Int \cup {NULL, NaN}
    /\ Literals \subseteq Int
    /\ Transforms \subseteq {"identity", "bucket"}
    /\ Respec \in BOOLEAN /\ Unset \in BOOLEAN
    /\ MaxSnapshot \in Nat \ {0} /\ MaxRows \in Nat

VARIABLES
    last,     \* newest snapshot
    specs,    \* ducklake_partition_info with its one partition_column
    files     \* data files: begin, rows, stats by column, partition_value rows

vars == <<last, specs, files>>

Init ==
    /\ last = 1
    /\ specs = {}
    /\ files = {}

-----------------------------------------------------------------------------
(* Writers.                                                                *)

VisibleAt(row, s) == s >= row.begin /\ (row.end = NULL \/ s < row.end)

LiveSpecs == {p \in specs : p.end = NULL}

Commit == last < MaxSnapshot /\ last' = last + 1

(* ALTER TABLE SET PARTITIONED BY: rows written before keep their files.   *)
SetPartitionedBy(column, transform) ==
    /\ Respec \/ specs = {}
    /\ Commit
    /\ specs' = {IF p \in LiveSpecs THEN [p EXCEPT !.end = last + 1] ELSE p : p \in specs} \cup
          {[column |-> column, transform |-> transform, begin |-> last + 1, end |-> NULL]}
    /\ UNCHANGED files

(* bucket: a hash of the value into two buckets, not the value itself.     *)
Transformed(transform, v) ==
    IF transform = "identity" \/ v = NULL THEN v ELSE (v + 1) % 2

(* The partition_value entry of a file whose rows all have key value v.    *)
PartitionValue(transform, v) ==
    IF v = NULL THEN NULL
    ELSE IF transform = "identity" THEN StatCast(v) ELSE Transformed(transform, v)

StatsOf(rows, measured) ==
    [c \in Columns |->
        LET vals == [i \in DOMAIN rows |-> rows[i][c]]
        IN IF measured
           THEN ColumnStats(vals, NanFlag(\E i \in DOMAIN vals : vals[i] = NaN), StatCast)
           ELSE NULL]

(* write_data_file: all rows of one file agree on the partition key.       *)
WriteFile(rows, measured, unset) ==
    LET Key(p, i) == Transformed(p.transform, rows[i][p.column])
        values == {PartitionValue(p.transform, rows[1][p.column]) : p \in LiveSpecs}
    IN /\ Commit
       /\ \A p \in LiveSpecs : \A i \in DOMAIN rows : Key(p, i) = Key(p, 1)
       /\ unset => Unset
       /\ files' = files \cup
             {[begin |-> last + 1, end |-> NULL, rows |-> rows, stats |-> StatsOf(rows, measured),
               values |-> IF unset /\ values # {} THEN {NULL} ELSE values]}
       /\ UNCHANGED specs

(* Mutant of ExpireFile: closed at the snapshot before the commit.         *)
ExpireEarly(f) ==
    /\ f.end = NULL
    /\ Commit
    /\ files' = (files \ {f}) \cup {[f EXCEPT !.end = last]}
    /\ UNCHANGED specs

(* expire_data_file                                                        *)
ExpireFile(f) ==
    /\ f.end = NULL
    /\ Commit
    /\ files' = (files \ {f}) \cup {[f EXCEPT !.end = last + 1]}
    /\ UNCHANGED specs

Rows(k) == [1..k -> [Columns -> CellValues]]

Next ==
    \/ \E c \in Columns, tr \in Transforms : SetPartitionedBy(c, tr)
    \/ \E k \in 1..MaxRows, m, u \in BOOLEAN : \E rows \in Rows(k) : WriteFile(rows, m, u)
    \/ \E f \in files : ExpireFile(f)

Spec == Init /\ [][Next]_vars

-----------------------------------------------------------------------------
(* The query at snapshot s, for a set of clauses.                          *)

(* fetch_partition_spec: the spec active at the target snapshot.           *)
FetchPartitionSpec(s) == {p \in specs : VisibleAt(p, s)}

PassesStats(f, clauses) ==
    \A c \in {cl.col : cl \in clauses} :
       StatsCte({cl \in clauses : cl.col = c}, "int", f.stats[c], BindCast)

(* Mutant of PassesPartition: whatever the transform.                      *)
PassesAnyPartition(f, clauses, spec) ==
    \A p \in spec :
       LET onKey == {cl \in clauses : cl.col = p.column}
       IN onKey # {} => PartitionCte(onKey, "int", f.values, BindCast)

(* Identity transforms alone produce a CTE; its rows are found by key      *)
(* index, which is 0 for every one-column spec.                            *)
PassesPartition(f, clauses, spec) ==
    \A p \in spec :
       LET onKey == {cl \in clauses : cl.col = p.column}
       IN p.transform = "identity" /\ onKey # {}
             => PartitionCte(onKey, "int", f.values, BindCast)

BuildFilesQuery(s, clauses) ==
    {f \in files : /\ VisibleAt(f, s)
                   /\ PassesStats(f, clauses)
                   /\ PassesPartition(f, clauses, FetchPartitionSpec(s))}

-----------------------------------------------------------------------------
(* Rows of their types; a file is visible at one snapshot at least.        *)
TypeOK ==
    /\ last \in 1..MaxSnapshot
    /\ \A p \in specs : /\ p.column \in Columns /\ p.transform \in Transforms
                        /\ p.begin \in 1..last /\ p.end \in (1..last) \cup {NULL}
    /\ \A f \in files : /\ f.begin \in 1..last
                        /\ f.end = NULL \/ f.end \in (f.begin + 1)..last
                        /\ f.rows \in UNION {Rows(k) : k \in 1..MaxRows}

ClauseSets ==
    LET all == Clauses(Columns, Literals)
    IN {{c} : c \in all} \cup {{c, d} : c \in all, d \in all}

HasMatch(f, clauses) ==
    \E i \in DOMAIN f.rows : \A c \in clauses : Satisfies(c.op, c.lit, f.rows[i][c.col])

(* "Pruning is conservative" (README.md, What works): a file that holds a  *)
(* row satisfying the predicate is among the candidates, at every snapshot *)
(* and under the partition spec that was active there.                     *)
PruningKeepsMatches ==
    \A f \in files, clauses \in ClauseSets :
       HasMatch(f, clauses) =>
          \A s \in 1..last : VisibleAt(f, s) => f \in BuildFilesQuery(s, clauses)

(* "Files with NULL partition_value are kept conservatively (the writer    *)
(* may have left it unset)" (_translate_partition_clause): no partition    *)
(* clause, the null checks included, drops such a file when it has a       *)
(* matching row.                                                           *)
NullPartitionValuesAreKept ==
    \A f \in files, clauses \in ClauseSets :
       f.values = {NULL} /\ HasMatch(f, clauses) =>
          \A s \in 1..last :
             VisibleAt(f, s) => PassesPartition(f, clauses, FetchPartitionSpec(s))

(* "a row is kept whenever stats are incomplete or unreliable" (_ClauseSql *)
(* in _file_query.py): the statistics alone never drop a file that has a   *)
(* matching row.                                                           *)
UnreliableStatsAreKept ==
    \A clauses \in ClauseSets :
       \A f \in files : HasMatch(f, clauses) => PassesStats(f, clauses)

(* Pruning earns its query: a measured file without NaN or nulls whose     *)
(* range excludes every literal an equality asks for is not opened.        *)
DisjointFilesArePruned ==
    \A f \in files, c \in Columns, v \in Literals :
       LET vals == {f.rows[i][c] : i \in DOMAIN f.rows}
       IN /\ f.stats[c] # NULL
          /\ vals \subseteq Int
          /\ (\A x \in vals : x < v) \/ (\A x \in vals : v < x)
          => f \notin BuildFilesQuery(f.begin, {[col |-> c, op |-> "eq", lit |-> v]})

=============================================================================
