------------------------------ MODULE TimeTravel ------------------------------
(***************************************************************************)
(* What one undisturbed read returns, at every snapshot the lake has ever  *)
(* had, while writers append, delete, alter, compact and flush.  The       *)
(* scan's own steps, and commits that land between them, are in            *)
(* DuckLakeScan.                                                           *)
(***************************************************************************)
EXTENDS CatalogReader

CONSTANT Predicates   \* the predicates a read is tried with

ASSUME PredicatesAreExpressions == \A p \in Predicates : p = NULL \/ WellFormed(p)

Init == CatalogInit

Next == CatalogNext

Spec == Init /\ [][Next]_catalogVars

-----------------------------------------------------------------------------
Ids       == 1..(nextId - 1)
Snapshots == 1..last
Ends      == Snapshots \cup {NULL}

(* The catalog's tables hold rows of their columns' types, and every       *)
(* interval lies within the snapshots committed so far.                    *)
TypeOK ==
    /\ last \in 0..MaxSnapshot
    /\ tables \subseteq [id: Ids, name: TableNames, begin: Snapshots, end: Ends]
    /\ columns \subseteq
          [table: Ids, id: Nat, name: ColumnNames, begin: Snapshots, end: Ends]
    /\ \A f \in files :
          /\ f.id \in Ids /\ f.table \in Ids
          /\ f.begin \in Snapshots /\ f.end \in Ends /\ f.partialMax \in Ends
    /\ deletes \subseteq [id: Ids, table: Ids, file: Ids, begin: Snapshots, end: Ends]
    /\ \A tr \in DOMAIN inlined :
          tr.table \in Ids /\ \A r \in inlined[tr] : r.origin \in Snapshots
    /\ {f.id : f \in files} \subseteq DOMAIN parquet
    /\ DOMAIN posfiles = {d.id : d \in deletes}
    /\ nextId \in Nat \ {0}
    /\ DOMAIN history = Snapshots

(* Tables that can be read at s: the name is resolved and no refusal.      *)
Readable(n, s) ==
    LET t == ResolveTable(n, s) IN t # NULL /\ ~HasInlinedData(t)

Expected(n, s, predicate) == {r \in history[s][n] : Matches(r, predicate)}

Returned(n, s, predicate) ==
    ReadPlans(PlansAt(ResolveTable(n, s), s, predicate), predicate)

(* A read pinned to any snapshot returns exactly the rows the table held   *)
(* there, each once and under the column names it had there, whatever was  *)
(* altered, deleted, merged or flushed since (scan.py: the per-file plan,  *)
(* the anti-join and the partial-file filter).                             *)
ReadsMatchHistory ==
    \A s \in SnapshotIds, n \in TableNames :
       Readable(n, s) =>
          LET rows == Returned(n, s, NULL)
          IN /\ {Bare(r) : r \in rows} = history[s][n]
             /\ Cardinality(rows) = Cardinality(history[s][n])

(* Pushdown is conservative: with what the walk extracts of a predicate    *)
(* pushed into the catalog query, a read still returns every row for which *)
(* the whole predicate is true, whatever ANDs, ORs, negations, arithmetic  *)
(* and null literals it is made of (_predicate.py, _walk; _file_query.py,  *)
(* translate_clause and _build_stats_cte).                                 *)
PrunedReadsMatchHistory ==
    \A s \in SnapshotIds, n \in TableNames :
       Readable(n, s) =>
          \A p \in Predicates :
             Names(p) \subseteq {x.name : x \in Layout(ResolveTable(n, s), s)} =>
                {Bare(r) : r \in Returned(n, s, p)} = Expected(n, s, p)

(* The collapsed multi-file scan, which projects nothing, is taken only    *)
(* when it reads what the per-file plans would (scan.py, is_pure and       *)
(* fast_path_eligible).                                                    *)
FastPathIsThePlannedRead ==
    \A s \in SnapshotIds, n \in TableNames :
       Readable(n, s) =>
          LET plans == PlansAt(ResolveTable(n, s), s, NULL)
          IN FastPathEligible(plans) =>
                \A i \in DOMAIN plans : BuildPlan(plans[i]) = ScanParquet(plans[i].file)

(* A table name is found at a snapshot exactly when the lake had a table   *)
(* of that name there, also when it was dropped and created anew           *)
(* (resolve_table), and at most one row answers the query that takes       *)
(* .first() of its result.                                                 *)
NamesResolveInHistory ==
    \A s \in SnapshotIds, n \in TableNames :
       Cardinality(TablesNamed(n, s)) = (IF n \in DOMAIN history[s] THEN 1 ELSE 0)

(* While inlined rows that belong to a snapshot are still in the catalog,  *)
(* a read there is refused, and once it is not refused every row of the    *)
(* snapshot is in some visible data file (has_inlined_data).               *)
NothingLeftInTheCatalog ==
    \A s \in SnapshotIds, n \in TableNames :
       Readable(n, s) =>
          LET t == ResolveTable(n, s)
          IN Keys(history[s][n]) \subseteq
                UNION {{parquet[f.id][i].key : i \in DOMAIN parquet[f.id]} : f \in VisibleFiles(t, s)}

(* No commit changes which columns a table had at a snapshot that already  *)
(* exists: a rename closes one row and opens another, an add or a drop     *)
(* touches one, and the past still shows the same ids and names.           *)
PastLayoutsAreStable ==
    [][\A s \in SnapshotIds, t \in Ids : Layout(t, s)' = Layout(t, s)]_catalogVars

=============================================================================
