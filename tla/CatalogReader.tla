---------------------------- MODULE CatalogReader ----------------------------
(***************************************************************************)
(* The queries of CatalogReader (_catalog.py) and the per-file read plan   *)
(* of scan.py, as operators of one state of the lake.  Each query is one   *)
(* SQL statement, so it sees one state; what can happen between two        *)
(* statements is the subject of DuckLakeScan.                              *)
(***************************************************************************)
EXTENDS DuckLakeCatalog, PredicateExtraction

-----------------------------------------------------------------------------
(* Identity: snapshot, table.  NULL stands for the LookupError.            *)

MaxOrNull(S) == IF S = {} THEN NULL ELSE Max(S)

SnapshotIds == DOMAIN history

(* Mutant of ResolveSnapshotId: an id is taken as given.                   *)
TrustSnapshotId(req) ==
    IF req.by = "id" THEN req.value ELSE MaxOrNull(SnapshotIds)

(* A request names the snapshot by id, by time, or asks for the newest.    *)
(* Snapshot s is committed at time s.                                      *)
ResolveSnapshotId(req) ==
    CASE req.by = "id"     -> IF req.value \in SnapshotIds THEN req.value ELSE NULL
      [] req.by = "as_of"  -> MaxOrNull({s \in SnapshotIds : s <= req.value})
      [] req.by = "latest" -> MaxOrNull(SnapshotIds)

TablesNamed(n, s) == {t \in tables : t.name = n /\ VisibleAt(t, s)}

(* .first() of a result without ORDER BY.                                  *)
ResolveTable(n, s) ==
    IF TablesNamed(n, s) = {} THEN NULL ELSE (CHOOSE t \in TablesNamed(n, s) : TRUE).id

(* Mutant of Trackers: only the one of the schema as it is now.            *)
NewestTracker(t) == {tr \in DOMAIN inlined : tr = Tracker(t, last)}

Trackers(t) == {tr \in DOMAIN inlined : tr.table = t}

HasInlinedData(t) == \E tr \in Trackers(t) : inlined[tr] # {}

-----------------------------------------------------------------------------
(* fetch_candidate_files: the files visible at s that the pushed clauses   *)
(* do not rule out, in file_order, each with the delete files visible at   *)
(* s.  A clause is on a target column, by the name the table has at s.     *)

FileMayMatch(f, cols, clauses) ==
    \A c \in cols :
       LET onColumn == {cl \in clauses : cl.col = c.name}
           st == IF f.stats # NULL /\ c.id \in DOMAIN f.stats THEN f.stats[c.id] ELSE NULL
       IN onColumn # {} => StatsCte(onColumn, "int", st, LAMBDA v : v)

VisibleFiles(t, s) == {f \in files : f.table = t /\ VisibleAt(f, s)}

VisibleDeletes(t, s) == {d \in deletes : d.table = t /\ VisibleAt(d, s)}

(* ORDER BY file_order: a file's place is one more than the files before.  *)
InFileOrder(S) ==
    [i \in 1..Cardinality(S) |-> CHOOSE f \in S : Cardinality({g \in S : g.id <= f.id}) = i]

FetchCandidateFiles(t, s, cols, clauses) ==
    LET order == InFileOrder({f \in VisibleFiles(t, s) : FileMayMatch(f, cols, clauses)})
    IN [i \in DOMAIN order |->
          [id |-> order[i].id, begin |-> order[i].begin, partialMax |-> order[i].partialMax,
           deleteFiles |-> {d.id : d \in {e \in VisibleDeletes(t, s) : e.file = order[i].id}}]]

-----------------------------------------------------------------------------
(* _plan_file: what to read of one file, given the columns the table had   *)
(* at the file's begin_snapshot.  The projection sends each target name to *)
(* a physical name, or to NULL for a column the file predates.             *)

SourceName(tc, fileColumns) ==
    LET historical == {h \in fileColumns : h.id = tc.id}
    IN IF historical = {} THEN NULL ELSE (CHOOSE h \in historical : TRUE).name

(* Mutants of IsPure: a renamed column passes; a partial file passes once  *)
(* its rows need no filter.                                                *)
PureIfPresent(file, fileColumns, targetColumns) ==
    /\ file.deleteFiles = {}
    /\ file.partialMax = NULL
    /\ \A tc \in targetColumns : SourceName(tc, fileColumns) # NULL

PureIfPartial(file, fileColumns, targetColumns) ==
    /\ file.deleteFiles = {}
    /\ Cardinality(fileColumns) = Cardinality(targetColumns)
    /\ \A tc \in targetColumns : SourceName(tc, fileColumns) = tc.name

IsPure(file, fileColumns, targetColumns) ==
    /\ file.deleteFiles = {}
    /\ file.partialMax = NULL
    /\ Cardinality(fileColumns) = Cardinality(targetColumns)
    /\ \A tc \in targetColumns : SourceName(tc, fileColumns) = tc.name

PlanFile(file, fileColumns, target, targetColumns) ==
    LET column(name) == CHOOSE tc \in targetColumns : tc.name = name
    IN [file |-> file.id,
        deleteFiles |-> file.deleteFiles,
        projection |-> [name \in {tc.name : tc \in targetColumns} |->
                           SourceName(column(name), fileColumns)],
        isPure |-> IsPure(file, fileColumns, targetColumns),
        partialFilterAt |-> IF file.partialMax # NULL /\ target < file.partialMax
                            THEN target ELSE NULL]

FastPathEligible(plans) ==
    /\ plans # <<>>
    /\ \A i \in DOMAIN plans : /\ plans[i].deleteFiles = {}
                               /\ plans[i].isPure
                               /\ plans[i].partialFilterAt = NULL

-----------------------------------------------------------------------------
(* _FilePlan.build: anti-join on row position, then the partial-file row   *)
(* filter on the physical column, then the projection.  A frame is a set:  *)
(* Polars promises no order, and a row is told from others by the file and *)
(* the place in the file that it was read from.                            *)

(* Mutant of ScanParquet: positions count from one.                        *)
ScanParquetFromOne(id) ==
    {[file |-> id, pos |-> i, key |-> parquet[id][i].key, cells |-> parquet[id][i].cells]
        : i \in DOMAIN parquet[id]}

ScanParquet(id) ==
    {[file |-> id, pos |-> i - 1, key |-> parquet[id][i].key, cells |-> parquet[id][i].cells]
        : i \in DOMAIN parquet[id]}

ScanWithDeletes(rows, deleteFiles) ==
    {r \in rows : \A d \in deleteFiles : r.pos \notin posfiles[d]}

(* Mutant of PartialFilter: rows of the target snapshot itself go too.     *)
PartialFilterBefore(rows, at) ==
    IF at = NULL THEN rows ELSE {r \in rows : r.cells[PARTIAL_SNAPSHOT_COL] < at}

PartialFilter(rows, at) ==
    IF at = NULL THEN rows ELSE {r \in rows : r.cells[PARTIAL_SNAPSHOT_COL] <= at}

ProjectCells(cells, projection) ==
    [name \in DOMAIN projection |->
        IF projection[name] = NULL THEN NULL ELSE cells[projection[name]]]

Project(rows, projection) ==
    {[r EXCEPT !.cells = ProjectCells(@, projection)] : r \in rows}

BuildPlan(plan) ==
    Project(PartialFilter(ScanWithDeletes(ScanParquet(plan.file), plan.deleteFiles),
                          plan.partialFilterAt),
            plan.projection)

(* The columns Polars wants; NULL stands for all of them.                  *)
Selected(row, cols) ==
    IF cols = NULL THEN row ELSE [row EXCEPT !.cells = Restrict(@, cols)]

(* The frames head(n) may return of these rows.                            *)
Heads(rows, n) ==
    IF n = NULL \/ Cardinality(rows) <= n THEN {rows}
    ELSE {some \in SUBSET rows : Cardinality(some) = n}

(* What the generator does with the rows of a plan, or of all of them on   *)
(* the fast path: filter, then select, then head.                          *)
Filter(rows, predicate) == {r \in rows : Matches(r, predicate)}

Yields(rows, q, n) ==
    Heads({Selected(r, q.columns) : r \in Filter(rows, q.predicate)}, n)

-----------------------------------------------------------------------------
(* A whole read at snapshot s in one state: eager phase, plans, and either *)
(* path.  The fast path reads the files' own columns, with no projection.  *)

PlansAt(t, s, predicate) ==
    LET cols == Layout(t, s)
        cands == FetchCandidateFiles(t, s, cols, ExtractClauses(predicate))
    IN [i \in DOMAIN cands |-> PlanFile(cands[i], Layout(t, cands[i].begin), s, cols)]

ReadPlans(plans, predicate) ==
    Filter(UNION {IF FastPathEligible(plans) THEN ScanParquet(plans[i].file)
                                             ELSE BuildPlan(plans[i]) : i \in DOMAIN plans},
           predicate)

(* A row without the place it was read from.                               *)
Bare(row) == [key |-> row.key, cells |-> row.cells]

=============================================================================
