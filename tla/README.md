# polars-ducklake in TLA+

`polars-ducklake` reads DuckLake tables into Polars without DuckDB: it queries
the lake's metadata catalog (a SQL database) through SQLAlchemy, decides which
Parquet files belong to a snapshot and how each must be read, and hands Polars
a generator that reads them. This directory models that reader, the catalog
state it depends on and the writers that change it, checks the models with TLC
and proves the main results with TLAPS. Paths below are relative to the
repository; `scan.py` and the like are in `src/polars_ducklake/`.

## 1. The system

| part | state | operations | talks to |
|---|---|---|---|
| connection strings (`_catalog.py` 152-266) | none | `ducklake:` forms to SQLAlchemy URLs, refusals | engine cache, whose keys the URLs are |
| engine cache (`_catalog.py` 280-341) | `_ENGINE_CACHE`, its lock | get or build an engine for a URL; the benchmark (`bench/runners/duckdb_runner.py` 42-52) evicts | every `scan_ducklake` call, from any thread |
| connection lifecycle (`_catalog.py` 388-422, `scan.py` 184-218 and 499) | one connection per reader, lent by the engine's pool | a reader per call, one per evaluated source, held across yields | pool (SQLAlchemy), Polars |
| catalog reader (`_catalog.py`) | its connection | resolve snapshot, schema, table; inlined-data probe; columns at a snapshot, nested ones too; partition spec; candidate files | the catalog database |
| scan (`scan.py`) | `_PlanContext`: pinned snapshot, table, cached columns | the eager call; one generator run per evaluation | reader, plan, Polars |
| per-file plan (`scan.py`) | `_FilePlan` | projection by column id, positional deletes, partial-file filter, fast-path test | Parquet files |
| predicate extraction (`_predicate.py`) | none | expression tree to a flat list of clauses | file enumeration |
| file enumeration (`_file_query.py`) | none | one SQL query: visible files, their delete files, statistics and partition CTEs | reader |
| type mapping (`types.py`) | none | scalar names, nested types from their rows | scan |
| path resolution (`paths.py`) | none | data path, schema, table and file segments to one path | plan |
| the lake | catalog rows with `[begin_snapshot, end_snapshot)` intervals; Parquet and delete files | commits by writers: `tests/conftest.py` (lake builder), DuckDB (integration tests) | everything above |
| benchmarks (`bench/`) | `state.json`, a catalog and a bucket per backend | seed (reset, fill, register), look up, read | the lake, the library |

What is hard about it:

* **Staleness across time.** The call pins a snapshot id and caches the
  columns; evaluations come later, any number of them, on new connections.
  Between call and evaluation, and between any two statements of an
  evaluation, writers alter columns, delete rows, merge files, flush inlined
  rows, drop tables, and clean up storage. No database transaction spans it:
  only the snapshot id and the interval columns hold the read together.
* **Schema evolution.** A file is read with the columns it was written with,
  matched by column id to those of the target; names move between ids.
* **Merged files.** A file merged from several snapshots answers for all of
  them and needs a row filter for the older ones, and carries one physical
  column more.
* **Pruning.** Statistics go through strings, casts and SQL's three-valued
  logic in one of four databases; a file wrongly dropped is silent data loss.
* **Threads and connections.** Concurrent calls race on the engine cache; a
  connection stays out while a generator is suspended, a query holds one per
  source, and every way out of a call or an evaluation must give it back.
* **Names and types.** Schemas, tables and struct fields come and go under the
  same names, each with an interval of its own.
* **Unguarded shared files.** The benchmark's seeds reset storage in steps and
  update one registry without a lock; any may be killed between two steps.

What would make it correct: a frame reads exactly the rows of one snapshot,
each once, under the columns the table had there, however the commits fall;
pruning and the row limit change nothing but the work done; calls and
evaluations end; one open pool per catalog and none leaked; a connection is
lent only to a reader that is open; a name finds what it denoted at the
snapshot; a seed that returned has left its whole lake.

`PROJECT.json` lists the components, the hazards at their lines and the
properties that cover them; a hazard without a property says why.

## 2. The modules

```
StatsPruning        SQL keep-conditions, Polars comparisons, chunk statistics
|-- PredicateExtraction     the walk over an expression, and what it means
|   `-- DuckLakeCatalog         catalog rows, files, and every kind of commit
|       `-- CatalogReader           the reader's queries and the read plan
|           |-- TimeTravel              one undisturbed read at every snapshot
|           `-- DuckLakeScan            the scan statement by statement,
|                 commits between; implements SnapshotRead (the promise)
`-- FileEnumeration     the candidate query on one partitioned table
      uses the conversions of StatConversions
PathResolution, NestedTypes     operators: paths, nested column types
`-- LakeNames           what a name finds at every snapshot: schema, table,
                        types, paths
EngineCache             the cache and its lock
`-- CatalogSessions     readers, the pool's limit, generators and their consumer
ConnectionStrings       operators: catalog strings to URLs, the cache's keys
BenchLakes              seeds, resets, crashes, the registry

StatsTheorems, CatalogProofs, TimeTravelProofs, ScanProofs,
FileEnumerationProofs, CatalogSessionsProofs,
BenchLakesProofs, LakeNamesProofs             theorems and their proofs
MC*.tla, MC*.cfg                              instances for TLC
```

**StatsPruning.** `KeepByStats` is `translate_clause`, one CASE per operator,
saying when the generated condition IS TRUE; `StatsCte` and `PartitionCte` are
the two CTE builders including their "no row for this file" branches.
`Satisfies` is what Polars does with the same predicate afterwards. NULL and
NaN are model values, all other values integers.

**PredicateExtraction.** An expression is the sequence of its nodes, operands
first. `ExtractClauses` is the walk of `_predicate.py` as a recursive function
over node places: conjunctions are split, comparisons of a column with a
literal and null checks become clauses, everything else is dropped. `Evaluate`
is Polars on one row, in three-valued logic. A read pushes the clauses and
filters with the whole expression, so dropping too little shows as lost rows.

**DuckLakeCatalog.** The tables of the catalog as sets of records with `begin`
and `end`, Parquet contents as sequences of rows, delete files as sets of
0-based positions. One action per writer operation: the lake builder's
(`CreateTable`, `AppendRows`, `DeleteRows`, `DropFile`, `AddColumn`,
`DropColumn`, `RenameColumn`) and, external to the repository, the DuckDB
writer's (`Compact`, `InlineRow`, `FlushInlined`, `DropTable`, `Cleanup`),
modelled from what the reader and the integration tests expect of them
(`partial_max`, `_ducklake_internal_snapshot_id`, inlined trackers). The ghost
`history` records the contents of every table at every snapshot, with no use
of intervals, files or column ids: the properties compare reads with it.

**CatalogReader.** Each query method is an operator: `ResolveSnapshotId`,
`ResolveTable`, `Trackers` and `RowsIn` (the two kinds of statement of
`has_inlined_data`), `FetchCandidateFiles` (files in
`file_order` with their delete files), `Layout` for `fetch_columns`. Then
`PlanFile` (`_plan_file`), `BuildPlan` (`_FilePlan.build`: index, anti-join,
partial filter, projection), `ScanParquet` (a file as it is, the fast path),
`FastPathEligible`, and `Yields`: filter, select, head, in the order the
generator applies them on either path. A frame is a set of rows, each with the
file and the position it was read from: Polars promises no order, so `Yields`
holds every frame that `head(n)` may return.

**DuckLakeScan.** `pc` names the next statement. The call:
`ResolveSnapshot`, `ResolveTableInfo`, `ListTrackers`, then `ProbeTracker` or
`RefuseInlined` per tracker and `NothingInlined`, `CacheTargetColumns`. An
evaluation: `Collect`, `Enumerate`, `PlanNext` once per candidate, `Planned`,
then `MultiScan` or `ReadNext` per file, `Return`, or `ReadError` when a file
is gone. `Commits` may happen between any two. Two simplifications: the
statement of `resolve_schema` is left to LakeNames (here there is one schema),
and the fast path needs all its files on storage.

**SnapshotRead.** The promise, without rows, files or statements: a call pins
one snapshot that its request denoted at one moment, or is refused; each
evaluation yields distinct rows of that snapshot that satisfy the predicate,
and when it completes it has yielded all of them, or as many as the limit
asks for; it may fail instead. `DuckLakeScan!ReadsOneSnapshot` states the
refinement, with `phase` and `pin` mapped from `pc` and `target`.

**FileEnumeration.** One table with a partition spec, files with the
statistics and partition values their writer recorded, and the query at any
snapshot. The conversions are parameters: `StatCast` and `BindCast` give the
place of a recorded value and of a bound literal in the order the catalog
compares in, `NanFlag` what is recorded in `contains_nan`. StatConversions
defines those of the dialects (integers, floats and dates compare exactly;
SQLite timestamps are text).

**EngineCache.** One action per lock region and per step outside it; a lookup
that misses, a build that may fail, `setdefault` won or lost, the loser's
`dispose`, and the eviction as pop and dispose. `UrlOf` stands for the
translation of connection strings, several spellings to one URL.

**ConnectionStrings.** A catalog string is its backend with a path, tokens or
a URL; `CacheKey` is the URL the cache is asked for, or the `ValueError`.
MCSessions uses it for `UrlOf`, so that the cache is filled under the keys the
translation makes.

**CatalogSessions.** Extends EngineCache by what happens with the engine. A
thread's scan goes through `connect`, `reading` (the eager phase), `framed`,
and for an evaluation `opening`, `running`, `yielded`, `exhausted`. `out`
counts what each engine's pool has lent; `Enter` takes a connection when the
pool has one, `Exit` gives back those of readers that are open, once.
`Collect` evaluates several frames in one query; Polars resumes a source when
every source has delivered, the hardest schedule for a limited pool. A wait
for a connection ends with one or with `TimesOut`. `DisposeVictim` is the
benchmark's `dispose()` under the feet of open readers: the new pool starts
from zero, and connections of the old one (`orphans`) return to nobody.

**PathResolution, NestedTypes.** Operators. A path is a sequence of names and
separators; `ResolvePath` applies the levels. `BuildTargetColumns` assembles
Polars types from one row per node of a nested type, or is a `ValueError`: the
recursion of `_resolve` is a recursive function over the rows, and the first
child that cannot be mapped refuses its parent before the parent is looked at.

**LakeNames.** Schemas, tables and struct fields are created and dropped, each
commit one snapshot. A catalog row is `info`, what the row says, with `begin`
and `end`; `At` is what `_MVCC_CLAUSE` leaves of a table of them. The ghost
`history` keeps what was declared, without rows or intervals: a table's types
as a set of nodes, each the names down to it, a type and a place
(`IsForest`). Nodes of the declaration become rows with a parent id
(`ColumnRow`), and `Targets` has to find them again: identifier, schema, table,
`fetch_columns_with_nested`, types. `DropField` and `AddField` are `ALTER
TABLE` on a field of plain type of a top-level struct, and leave it at least
one field. Cells are left to DuckLakeCatalog.

**BenchLakes.** One seeder per backend, statement by statement: reset (catalog
file first, or bucket first for Postgres; the bucket object by object), chunks
and the mid snapshot, the evolved table, then load, truncate and write of the
registry. `Killed` may end it anywhere and may leave an object no catalog
names. A benchmark holds the entry it loaded while lakes are seeded anew.

## 3. What is checked

Passing runs (2 workers, each within two minutes):

| run | bounds | shows |
|---|---|---|
| `time_travel` | 2 table names, 3 column names, 5 snapshots, 1-row files, every kind of commit | every snapshot of every history reads back exactly (`ReadsMatchHistory`), through ADD/DROP/RENAME, deletes, compaction, inlining, flush, dropped files and tables, clean-up; the fast path is taken only when it equals the plans; names resolve as in history; nothing readable is still inlined; past layouts never change |
| `pruning` | 2-row files over {0, 1, NULL, NaN}, with and without statistics; every comparison, pairs, disjunctions, negations, what the walk does not understand, two levels deep | pushing what the walk extracts into the catalog loses no row |
| `scan` | 5 snapshots, 3 kinds of request, 4 queries (predicate, columns, row limit), 2 evaluations | a scan refines `SnapshotRead`; cached columns stay right; what is left to read is in the plans |
| `scan_inlined` | the same without merges, with inlining, flushes, dropped tables, added columns, the probe tracker by tracker; 2 requests, 3 queries, one selecting a column other than the one it filters on | refinement again, and every call and evaluation ends |
| `sessions` | 2 threads, 1 lake in 5 spellings, 3 engines, a pool of 1, 1 batch | the cache: one open engine per URL, none leaked, cached ones open, calls return; the pool: what is lent is held, one limit per lake however it is spelt, timeouts only when others hold everything, every call and evaluation settles |
| `partitions` | 2 columns, 2-row files, identity and bucket transforms, 3 snapshots | the whole query keeps every file with a match, and does drop files it should |
| `names` | 4 snapshots, names with and without dots, 5 declarations, absolute and relative paths at every level | announced types are those declared at the snapshot; every table can be asked for, and no name finds two; the nearest absolute level wins; joining makes no two separators in a row |
| `bench` | 2 backends, 2 shapes, 2 seeds each | an entry's mid snapshot is the mid chunk or nothing; a seed that returned left its whole lake and is in the registry unless updates overlapped; where the catalog is removed first it never names a missing object |

Why these bounds: for a name to be taken over by another id with a file
written before, a table of two columns needs create, append, a rename or drop
and a rename or add: five snapshots with the lake's first. A partial file needs
two appends, a merge, and a read at either origin; a flush that outruns a probe
needs rows inlined into two trackers. A file that mixes a null or a NaN with a
value needs two rows; a conjunction needs two clauses. With a pool of one, two
sources of one query already wait for each other; a lost race with an eviction
between needs two threads and three engines. A struct field dropped and added
again needs create, drop, add; a schema that comes back, create, drop, create.
A re-seed over what a killed seed left needs two seeds per backend, and two
backends make two updates of one registry overlap. Bounds are constants
(`MaxSnapshot`, `MaxRows`, `MaxCollects`, `MaxBatches`, `MaxSeeds`, the set
`Engines`), and `Kinds` chooses the commits of a run. Runs stop at their
bounds, so deadlock is not checked.

**Fairness.** `DuckLakeScan!FairSpec` has weak fairness on the scan's own
steps: Python runs the call to its end, and Polars drives a generator it
started until it is exhausted or raises. Nothing makes writers commit or
callers call. `EngineCache!FairSpec` has weak fairness per thread: a thread
waits only for a lock that is held for one dictionary operation. The run
bounds the engines ever built; a build that finds none left fails, which the
code also allows. `CatalogSessions!SessionFairSpec` has weak fairness per
thread on `Runs`: a call runs on, Polars drives the sources of a query it
started, and a wait for the pool ends, since SQLAlchemy's does after its
timeout. Early stops, errors, evictions and new calls are never owed. BenchLakes
has no liveness: a seed may always be killed.

Each property of a passing run has a mutant in the modules (an operator with a
comment "Mutant of ..."), a plausible bug that makes TLC find it violated:
matching columns by name, merging a file under its own commit, counting
positions from one, `get` for `pop` in the eviction, probing the newest tracker
alone, a reader not closed when its call raises, and so on.

### Disagreements found

Four runs are expected to be violated: the code does something other than what
the repository says.

1. `partition_evolution`: partition values are matched by key index against
   the spec of the target snapshot, whatever spec they were written under. A
   re-partitioned table loses files. ("Pruning is conservative", README.md:141.)
2. `unset_partition`: `is_not_null` drops files with a NULL partition value,
   which the docstring says are kept (`_file_query.py` 466-467).
3. `nan_unknown`: `contains_nan` NULL counts as no NaN; a file whose NaN is
   above the recorded maximum is dropped (`_file_query.py` 105-106).
4. `sqlite_timestamps`: the literal's text has no fraction when the
   microseconds are zero, the recorded text has; equality on that instant
   drops the file (README.md:141).

## 4. What is proved

TLAPS proves these for every value of the constants, under the modules' named
assumptions (`MarkersAreNotValues`: NULL and NaN are not values;
`CatalogAssumption`, `ScanAssumption`, `EnumerationAssumption`,
`EngineAssumption`, `SessionAssumption`, `BenchAssumption`, `NamesAssumption`,
`TypesAssumption`: the types of the
constants, that there are finitely many threads, that a shape's mid chunk is
neither before the first nor its last, and that the markers for a missing or
torn registry are no registries). `CatalogAssumption` also says that the
columns of a new table have different names, and that no column is named like
the compactor's internal one. `PredicatesAreExpressions` and a conjunct of
`ScanAssumption` say that predicates are expressions as Polars serialises them
(`WellFormed`): operands come before the node that uses them, each node has the
operands of its kind, and the logical operators have boolean ones. TLC
evaluates all of them in the runs.

* **CatalogSessionsProofs**, on the engine cache (`TypeCorrect`,
  `OneEnginePerUrl`, `CachedOpen`, `NoLeaks`, `LoserDisposesItsOwn`). None of
  the properties is inductive alone. The invariant `IInv` adds ownership: an
  engine in a thread's hands is private to it, a cached one is open and sits
  under one URL, the popped one is open, and a pair handed out is still cached
  unless evicted or disposed. One step per action preserves it.
  On the sessions (`SessionTypesCorrect`, `ConnectionsComeBack`,
  `NoIdleTimeouts`, `OneLimitPerLake`): a session's step is a step of the cache
  or leaves it alone, so `IInv` carries over. `SInv` adds where a scan can be
  while its call is inside the cache (`CallsArePlaced`: without it a reader's
  engine could change under it), that queries are disjoint sets of scans under
  evaluation (`QueriesArePlaced`: without it closing one query could end a scan
  of another), that only readers of disposed engines are orphans, and the count
  itself. Three lemmas about cardinalities carry it: `EnterTakes`,
  `ExitGivesBack`, `OthersKeep`. `OneLimitPerLake` assumes that the URLs of one
  lake are one URL; the run derives that for its spellings from
  ConnectionStrings.
* **FileEnumerationProofs**. `StatsAreConservative`: for any columns, cell
  values, literals and file sizes, no statistics condition drops a file with a
  matching row. `PruningIsConservative`: the whole candidate query keeps such
  a file at every snapshot. Both assume `FaithfulConversions` (casts keep the
  order of values and literals; a chunk with a NaN is flagged), which `Exact`
  and `Truthful` satisfy; the second also that the spec does not change,
  partition values are recorded, and no cell is NaN. Findings 1 to 4 each
  violate exactly one of these hypotheses, so the theorems say how far "pruning
  is conservative" holds. `OnlyKnownLosses` drops the hypotheses about the spec:
  through any changes of it, and with values left unset, a file with a matching
  row is dropped only when its value was written under another column or
  transform than the target's spec has (`Foreign`, finding 1) or is NULL where
  a clause asks for a key (`Untold`, finding 2). Its invariant `EInv` knows one
  spec at a time (`SpecsApart`) and, of each file, the spec it was written under
  (`ValuesKnown`); `EnumerationTypes` follows from it too. `DisjointIsPruned` is
  the other side, that pruning does drop files: it needs faithful conversions
  and that a chunk without a NaN is not flagged. The argument: Min and Max of a
  finite set of integers are its least and greatest elements (StatsTheorems,
  through well-foundedness of strict inclusion), so recorded bounds enclose
  every plain value; counts tell nulls from non-nulls; then a case per operator;
  and invariants `StatsRecorded` and `ValuesRecorded` tie the catalog's rows to
  the files' contents.
* **CatalogProofs**, first part, carries what the catalog is for. `PastIsFixed`: no commit
  changes the columns of a table at an existing snapshot; `CommitShape` reduces
  the commits to one form, "columns R end and columns N begin at the new
  snapshot". The invariant `HInv` then says that rows, files and trackers
  together tell the lake's history: ids and names are unambiguous at every
  snapshot (`TablesKnown`, `NamesKnown`, `ColumnsKnown`); every file and every
  tracker holds rows of one layout, that of the snapshots they were inserted
  at, and a partial file says at which (`RowsKnown`, `TrackersKnown`); a row is
  in one place (`KeysOnce`); delete files are of the table of their file
  (`DeletesKnown`); and the rows of a table at a snapshot, kept by no delete
  file visible there and seen under the layout of that snapshot, are its
  history (`HistoriesKnown`). `ReadsMatchHistory` alone is not inductive: a
  commit can merge or flush rows that no read would have shown yet. One lemma
  per commit preserves `HInv`; `HColumnCommit`, `HRowsCommit` and `HSameRows`
  share what the commits of one kind have in common.
* **CatalogProofs**, second part: facts of one state where `HInv` holds, on the
  reader's side of it. `file_order` is an order of exactly the candidate files, the plan
  of a file reads the rows the snapshot keeps of it (`PlannedRead`), a pure
  file is its own frame (`PureFile`: equal cardinality and equal names by id
  make the layouts equal). Pushdown needs two facts more. Extraction is
  conservative (`ClausesAreImplied`): where an expression evaluates to TRUE, so
  does every clause the walk took from it, for any expression; the walk and the
  value are recursive over node places, so the argument takes the least place
  where it would fail. And `Measured`, an invariant of the catalog: statistics
  that are there describe their chunk, through appends, merges and flushes.
  With StatsTheorems they give `MatchingFileStays` and `RowsKept`: the
  candidates that are left hold every row the predicate matches.
* **TimeTravelProofs** put them together: `CatalogKnowsHistory` (`HInv` in every
  state), `TimeTravelTypes`, `PastLayouts`, `NamesResolve`, `ReadsAreExact`,
  `PrunedReads`, `FastPathIsSound`, `NothingIsLeftBehind`, for any tables,
  columns, values, file sizes, predicates and numbers of commits of every kind.
* **ScanProofs**: `CachedColumns`, `ScanTypes`, `BatchSchema`, `RestIsPlanned`,
  and `ScanReadsOneSnapshot`, the refinement of SnapshotRead, for any number of
  commits between any two statements. Its invariant is `ScanInv`: the catalog's
  `HInv` and `Measured`; `Pinned`, the resolved snapshot exists and the schema
  cached with it is its layout; `Located`, what each statement of the call has
  made sure of, the probe tracker by tracker among them; and `Evaluating`.
  `ReadsOneSnapshot` is far from inductive, since the catalog an evaluation
  plans from moves under it. What does not move is the answer to its candidate
  query: there is a function `content` from the candidate files to rows such
  that the files together are the table at the snapshot
  (`Contents`), the candidates and plans that are left read their files to
  those rows (`Ahead`), and what was delivered is what the query picks of the
  files that are done, or enough of it for the limit (`Behind`). A commit keeps
  `content` because contents on storage, delete files and layouts at a past
  snapshot do not change (`CatalogKeeps`); a file that is cleaned up can no
  longer be read, and only then does an evaluation fail. The steps of
  SnapshotRead follow, one lemma per group of statements (`MappedCommit`,
  `MappedPin`, `MappedEager`, `MappedFrame`, `MappedLazy`). Since `content` is
  quantified over functions, TLC cannot evaluate `ScanInv`; the runs check what
  follows from it.
* **BenchLakesProofs** (`MidIsMid`, `LakesAreWhole`, `LakesAreFound`,
  `CatalogsAreReadable`), for any backends, shapes and numbers of seeds, any of
  them killed anywhere. The properties speak of lakes that were seeded, killed,
  half reset and seeded again; the invariant `BInv` replaces that past by a
  function: a catalog is always `LakeOf(shape, n)`, the first n snapshots that
  materialize_lake makes for that shape, and the step the seeder has reached
  says what n is and what is in the bucket (`Underway`, `Made`). The mid
  snapshot of a shape is then one number, `mid + 2`, whoever recorded it, so
  `MidIsMid` holds between any entry and any lake of the shape, which no
  property of one seed would give. `UpdatesApart` says of the registry that the
  one update under way knows everything the file held before it was truncated.
  Each step of one backend keeps `Backed` for it and leaves the others alone
  (`OthersBacked`); the steps away from the registry share `QuietStep`, the
  committing statements share `GoodCommit`.

* **LakeNamesProofs** (`NamesInvariant`, `AnnouncedAsDeclared`,
  `TablesCanBeNamed`, `FilesBelowNearestAnchor`, `SeparatedByOne`), for any
  names, paths, types and numbers of commits. None of the four properties is
  inductive: they speak of what a call makes of the catalog, and the next
  commit is free to use everything the catalog has. `NamesInv` says what it
  has: at every snapshot the visible rows are `Known` from the history then
  (`SchemasKnown`, `TablesKnown`, `KeysKnown`; `ColumnsKnown`: the column rows
  of a table are exactly the rows of its nodes), no interval begins or ends
  after the newest snapshot (`Dated`, without which a commit could change the past), and
  ids still to be given are above those of live rows (`Fresh`, without which a
  new row could become a child of an old one). `ChangedRows` and `CommitKeeps`
  reduce a commit to the state it leaves at its own snapshot; each action then
  only shows `Known` there. `AddLeaf` and `RemoveLeaf` do it for struct fields.
  The invariant is about rows, the properties are about recursion, over the
  rows of a table (`BuildTargetColumns`), the nodes of a declaration
  (`DeclaredColumns`) and the parts of a path (`NamesIn`). The library's
  induction theorems cannot be used here (they take an operator), so the proofs
  go by a least counterexample: a set of places where the claim fails has a
  least element (`LeastNatural`, from well-foundedness of strict inclusion),
  and there it holds. That such a function is defined where it is recursive is
  proved the same way (`WholeUnfolds`, `NamesUnfold`). With children after
  their parents, `BuiltAsDeclared` follows: what a call assembles from a
  table's rows is what was declared, and an error exactly when a type below is
  unknown, to any depth. `Places` and `PlacesCarryOver` say that the sort by
  `column_order` is the order of the declaration. For paths, `NamesOfBoth` and
  `StripKeepsNames` say that joining keeps the names on both sides
  (`JoinNames`), and `JoinSeparates` that it puts one separator between them.
  `NamesInv` was checked by TLC on the instance of `names` before it was
  proved.

  Assumed are `NamesAssumption` and `TypesAssumption`: names are not empty,
  file paths neither; what `CREATE TABLE` declares is a forest whose nested
  types have the parts DuckLake gives them (a list one child, a map key and
  value, a struct a field at least); fields added by `ALTER TABLE` have plain
  types; and a scalar type is not spelt like a nested one. That `main` is a name
  and `/` a string appear there because no installed prover knows that a
  literal is in STRING.

Only model-checked: liveness (`CallsSettle`, `CollectsSettle`, `CallsReturn`,
`ScansSettle`), since fairness and ENABLED are beyond the proof system's reach.
Every invariant and every other temporal property of a passing run is stated by
a theorem.

## 5. Not modelled, and the plan

Not modelled, and why:

* Parquet decoding and storage options: Polars' part; no state of the library
  depends on them.
* Type changes and column defaults: nothing in the repository writes them.
  Snapshot expiry: likewise; the pinned snapshot of a frame would then read
  what the interval rows still say.
* varchar collations and the rounding of timestamps and the order of large
  unsigned integers on MySQL: behaviour of a deployment that is not in the
  repository. Decimal precision and scale.
* `fetch_data_files` and `fetch_delete_files`: no scan calls them.
* The order of struct fields when rows share one `column_order` (the lake
  builder gives every nested row 999, `tests/conftest.py` 419): the order is
  then the database's; LakeNames gives rows the order of the declaration.
* The rows the benchmark generates (`bench/shapes.py` seeds them with `hash()`
  of a tuple with a string, which Python salts per process, so they are not the
  same in every process), `shape_hash`, which is recorded and never compared,
  the CI target, which is not reset before a seed, workloads, timing, reports.

Plan, most important first:

1. Literals finer than the catalog's precision in StatConversions.
2. Partitions in the composed scan, with tables whose columns share ids.
3. Nested fields below the first level in `ALTER TABLE`, and of nested types;
   struct fields whose rows share a `column_order`.
