---------------------------- MODULE DuckLakeScan ----------------------------
(***************************************************************************)
(* One scan_ducklake call and the evaluations of the LazyFrame it returns, *)
(* statement by statement, while writers commit between any two of them.   *)
(*                                                                         *)
(* The call resolves the snapshot and the table, probes the inlined-data   *)
(* trackers and caches the target columns; the connection is closed.  Each *)
(* evaluation runs the generator of _make_generator on a new connection:   *)
(* one query for the candidate files, one query per file for the columns   *)
(* it was written with, then the Parquet reads, one yield per file or one  *)
(* for all on the fast path.  Nothing ties these statements to a single    *)
(* database snapshot: the pinned snapshot id alone makes them agree.       *)
(***************************************************************************)
EXTENDS CatalogReader

CONSTANTS
    Requests,      \* what a call may ask for: [name, by, value]
    Queries,       \* what an evaluation may push: [predicate, columns, limit]
    MaxCollects    \* bound: evaluations of the one LazyFrame

ASSUME ScanAssumption ==
    /\ Requests \subseteq [name: TableNames, by: {"id", "as_of", "latest"}, value: Nat]
    /\ \A q \in Queries : /\ q.predicate = NULL \/ WellFormed(q.predicate)
                          /\ q.limit \in Nat \cup {NULL}
                          /\ q.columns = NULL \/ q.columns \in (SUBSET ColumnNames) \ {{}}
    /\ MaxCollects \in Nat

VARIABLES
    pc,             \* the next statement of the scan
    request,        \* arguments of the call
    target,         \* ctx.snapshot_id
    table,          \* ctx.table_info
    trackers,       \* registered trackers not probed yet
    targetColumns,  \* ctx.target_columns
    query,          \* predicate, with_columns and n_rows from Polars
    pending,        \* candidate files not planned yet
    plans,          \* _FilePlans not read yet
    remaining,      \* rows still wanted, NULL without a limit
    delivered,      \* frames yielded by the evaluation
    collects        \* evaluations started

ctxVars  == <<request, target, table, trackers, targetColumns>>
readVars == <<query, pending, plans, remaining, delivered, collects>>
scanVars == <<pc, request, target, table, trackers, targetColumns,
              query, pending, plans, remaining, delivered, collects>>
vars     == <<catalogVars, scanVars>>

Init ==
    /\ CatalogInit
    /\ pc = "idle"
    /\ request = NULL
    /\ target = NULL
    /\ table = NULL
    /\ trackers = {}
    /\ targetColumns = {}
    /\ query = NULL
    /\ pending = <<>>
    /\ plans = <<>>
    /\ remaining = NULL
    /\ delivered = <<>>
    /\ collects = 0

-----------------------------------------------------------------------------
(* scan_ducklake, the eager phase.                                         *)

Call ==
    /\ pc = "idle"
    /\ request' \in Requests
    /\ pc' = "snapshot"
    /\ UNCHANGED <<catalogVars, target, table, trackers, targetColumns, readVars>>

(* Mutant of ResolveSnapshot: a call waits for its snapshot to appear.     *)
AwaitSnapshot ==
    /\ pc = "snapshot"
    /\ ResolveSnapshotId(request) # NULL
    /\ target' = ResolveSnapshotId(request)
    /\ pc' = "table"
    /\ UNCHANGED <<catalogVars, request, table, trackers, targetColumns, readVars>>

ResolveSnapshot ==
    LET s == ResolveSnapshotId(request)
    IN /\ pc = "snapshot"
       /\ target' = s
       /\ pc' = IF s = NULL THEN "raised" ELSE "table"
       /\ UNCHANGED <<catalogVars, request, table, trackers, targetColumns, readVars>>

ResolveTableInfo ==
    LET t == ResolveTable(request.name, target)
    IN /\ pc = "table"
       /\ table' = t
       /\ pc' = IF t = NULL THEN "raised" ELSE "inlined"
       /\ UNCHANGED <<catalogVars, request, target, trackers, targetColumns, readVars>>

(* has_inlined_data: the registry, then one statement per tracker.         *)
ListTrackers ==
    /\ pc = "inlined"
    /\ trackers' = Trackers(table)
    /\ pc' = "probe"
    /\ UNCHANGED <<catalogVars, request, target, table, targetColumns, readVars>>

ProbeTracker(tr) ==
    /\ pc = "probe"
    /\ tr \in trackers
    /\ RowsIn(tr) = {}
    /\ trackers' = trackers \ {tr}
    /\ UNCHANGED <<catalogVars, pc, request, target, table, targetColumns, readVars>>

RefuseInlined ==
    /\ pc = "probe"
    /\ \E tr \in trackers : RowsIn(tr) # {}
    /\ pc' = "raised"
    /\ UNCHANGED <<catalogVars, ctxVars, readVars>>

NothingInlined ==
    /\ pc = "probe"
    /\ trackers = {}
    /\ pc' = "columns"
    /\ UNCHANGED <<catalogVars, ctxVars, readVars>>

(* Mutant of CacheTargetColumns: the schema as it is now.                  *)
CacheNewestColumns ==
    /\ pc = "columns"
    /\ targetColumns' = Layout(table, last)
    /\ pc' = "ready"
    /\ UNCHANGED <<catalogVars, request, target, table, trackers, readVars>>

CacheTargetColumns ==
    /\ pc = "columns"
    /\ targetColumns' = Layout(table, target)
    /\ pc' = "ready"
    /\ UNCHANGED <<catalogVars, request, target, table, trackers, readVars>>

-----------------------------------------------------------------------------
(* The generator, one evaluation.                                          *)

TargetNames == {tc.name : tc \in targetColumns}

Wanted == IF query.columns = NULL THEN TargetNames ELSE query.columns

Settled == {"ready", "exhausted", "failed"}

Collect ==
    /\ pc \in Settled
    /\ collects < MaxCollects
    /\ query' \in {q \in Queries : /\ Names(q.predicate) \subseteq TargetNames
                                   /\ q.columns = NULL \/ q.columns \subseteq TargetNames}
    /\ remaining' = query'.limit
    /\ pending' = <<>>
    /\ plans' = <<>>
    /\ delivered' = <<>>
    /\ collects' = collects + 1
    /\ pc' = "enumerate"
    /\ UNCHANGED <<catalogVars, ctxVars>>

(* Mutant of Enumerate: the files as they are now.                         *)
EnumerateNewest ==
    /\ pc = "enumerate"
    /\ pending' = FetchCandidateFiles(table, last, targetColumns, ExtractClauses(query.predicate))
    /\ pc' = "plan"
    /\ UNCHANGED <<catalogVars, ctxVars, query, plans, remaining, delivered, collects>>

Enumerate ==
    /\ pc = "enumerate"
    /\ pending' = FetchCandidateFiles(table, target, targetColumns, ExtractClauses(query.predicate))
    /\ pc' = "plan"
    /\ UNCHANGED <<catalogVars, ctxVars, query, plans, remaining, delivered, collects>>

(* One fetch_columns and one _plan_file for each candidate in turn.        *)
PlanNext ==
    /\ pc = "plan"
    /\ pending # <<>>
    /\ LET file == pending[1]
       IN plans' = Append(plans, PlanFile(file, Layout(table, file.begin), target, targetColumns))
    /\ pending' = Tail(pending)
    /\ UNCHANGED <<catalogVars, ctxVars, pc, query, remaining, delivered, collects>>

Planned ==
    /\ pc = "plan"
    /\ pending = <<>>
    /\ pc' = IF FastPathEligible(plans) THEN "multiscan" ELSE "loop"
    /\ UNCHANGED <<catalogVars, ctxVars, readVars>>

OnStorage(plan) == plan.file \in DOMAIN parquet

(* An empty frame is not yielded.                                          *)
Delivered(frame) == IF frame = {} THEN delivered ELSE Append(delivered, frame)

(* A file the plan names is gone: collect() raises out of the generator.   *)
ReadError ==
    /\ \/ /\ pc = "multiscan"
          /\ \E i \in DOMAIN plans : ~OnStorage(plans[i])
       \/ /\ pc = "loop"
          /\ plans # <<>>
          /\ remaining # 0
          /\ ~OnStorage(plans[1])
    /\ pc' = "failed"
    /\ UNCHANGED <<catalogVars, ctxVars, readVars>>

MultiScan ==
    /\ pc = "multiscan"
    /\ \A i \in DOMAIN plans : OnStorage(plans[i])
    /\ \E frame \in Yields(UNION {ScanParquet(plans[i].file) : i \in DOMAIN plans},
                           query, remaining) :
          delivered' = Delivered(frame)
    /\ pc' = "return"
    /\ UNCHANGED <<catalogVars, ctxVars, query, pending, plans, remaining, collects>>

ReadNext ==
    /\ pc = "loop"
    /\ plans # <<>>
    /\ remaining # 0
    /\ OnStorage(plans[1])
    /\ \E frame \in Yields(BuildPlan(plans[1]), query, remaining) :
          /\ delivered' = Delivered(frame)
          /\ remaining' = IF remaining = NULL THEN NULL ELSE remaining - Cardinality(frame)
    /\ plans' = Tail(plans)
    /\ UNCHANGED <<catalogVars, ctxVars, pc, query, pending, collects>>

(* Mutant of Return: a met row limit does not end the loop.                *)
ReturnWhenRead ==
    /\ pc = "return" \/ (pc = "loop" /\ plans = <<>>)
    /\ pc' = "exhausted"
    /\ UNCHANGED <<catalogVars, ctxVars, readVars>>

Return ==
    /\ \/ pc = "return"
       \/ pc = "loop" /\ (plans = <<>> \/ remaining = 0)
    /\ pc' = "exhausted"
    /\ UNCHANGED <<catalogVars, ctxVars, readVars>>

-----------------------------------------------------------------------------
Commits == CatalogNext /\ UNCHANGED scanVars

ProbeInlined ==
    \/ ListTrackers
    \/ \E tr \in trackers : ProbeTracker(tr)
    \/ RefuseInlined
    \/ NothingInlined

ScanStep ==
    \/ ResolveSnapshot
    \/ ResolveTableInfo
    \/ ProbeInlined
    \/ CacheTargetColumns
    \/ Enumerate
    \/ PlanNext
    \/ Planned
    \/ ReadError
    \/ MultiScan
    \/ ReadNext
    \/ Return

Next == Commits \/ Call \/ Collect \/ ScanStep

Spec == Init /\ [][Next]_vars

(* The calling thread runs on, and Polars drives the generator to its end. *)
(* Nothing obliges anyone to commit, to call or to collect.                *)
FairSpec == Spec /\ WF_vars(ScanStep)

-----------------------------------------------------------------------------
PcValues ==
    {"idle", "snapshot", "table", "inlined", "probe", "columns", "raised",
     "ready", "enumerate", "plan", "multiscan", "loop", "return", "exhausted", "failed"}

HasContext == pc \in PcValues \ {"idle", "snapshot", "table", "inlined", "probe", "columns", "raised"}

(* The scan's variables hold what each statement returns.                  *)
ScanTypeOK ==
    /\ pc \in PcValues
    /\ request \in Requests \cup {NULL}
    /\ target \in (1..last) \cup {NULL}
    /\ table \in (1..(nextId - 1)) \cup {NULL}
    /\ trackers \subseteq DOMAIN inlined
    /\ targetColumns \subseteq [id: Nat, name: ColumnNames]
    /\ query \in Queries \cup {NULL}
    /\ remaining \in Nat \cup {NULL}
    /\ collects \in 0..MaxCollects
    /\ HasContext => target # NULL /\ table # NULL

(* The schema Polars is told, read once at call time and never again, is   *)
(* still the layout the table had at the pinned snapshot, whatever was     *)
(* altered between the call and this moment (scan.py, _PlanContext).       *)
CachedColumnsArePinned ==
    HasContext => targetColumns = Layout(table, target)

(* Every row of every frame has exactly the columns asked for: those of    *)
(* the announced schema, or the ones Polars selects of it.                 *)
BatchesHaveTheSchema ==
    HasContext =>
       \A i \in DOMAIN delivered :
          \A r \in delivered[i] : DOMAIN r.cells = Wanted

(* A candidate list and the plans made from it stay true to the snapshot   *)
(* while files are merged away and new ones take over: whatever is left to *)
(* deliver is still in the files planned, unless storage was cleaned.      *)
PlansCoverTheRest ==
    LET read == UNION {BuildPlan(plans[i]) : i \in {j \in DOMAIN plans : OnStorage(plans[j])}}
        left == {Bare(Selected(r, query.columns)) : r \in Filter(read, query.predicate)}
        had  == {Bare(r) : r \in UNION ToSet(delivered)}
        want == {Selected(r, query.columns) : r \in Filter(history[target][request.name], query.predicate)}
    IN (pc = "loop" /\ \A i \in DOMAIN plans : OnStorage(plans[i]))
          => \/ want \ had = left
             \/ remaining = 0

(* An eager call comes to an answer, and an evaluation Polars started      *)
(* comes to its end or to an error.                                        *)
CallsSettle    == (pc = "snapshot") ~> (pc \in Settled \cup {"raised"})
CollectsSettle == (pc = "enumerate") ~> (pc \in {"exhausted", "failed"})

-----------------------------------------------------------------------------
(* The scan implements SnapshotRead.                                       *)

Phase ==
    CASE pc \in {"idle", "snapshot"} -> "new"
      [] pc = "raised"               -> "refused"
      [] pc \in {"table", "inlined", "probe", "columns", "ready"} -> "pinned"
      [] pc \in {"enumerate", "plan", "multiscan", "loop", "return"} -> "reading"
      [] pc = "exhausted"            -> "complete"
      [] pc = "failed"               -> "failed"

Promise == INSTANCE SnapshotRead WITH phase <- Phase, pin <- target

(* Whatever commits land between its statements, a scan behaves as a read  *)
(* of one snapshot (scan.py, _PlanContext: "pinning the snapshot at call   *)
(* time").                                                                 *)
ReadsOneSnapshot == Promise!Spec

=============================================================================
