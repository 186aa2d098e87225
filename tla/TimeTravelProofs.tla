-------------------------- MODULE TimeTravelProofs --------------------------
(***************************************************************************)
(* Proofs about TimeTravel, from the lemmas on the catalog's snapshots and *)
(* the invariant that ties the catalog to the lake's history.              *)
(***************************************************************************)
EXTENDS TimeTravel, CatalogProofs

LEMMA AlwaysDated == Spec => []Dated
  <1>1. Init => Dated
    BY DatedInit DEF Init
  <1>2. Dated /\ [Next]_catalogVars => Dated'
    BY DatedStep DEF Next
  <1>. QED
    BY <1>1, <1>2, PTL DEF Spec

(* However many commits follow, of whatever kinds and sizes, a snapshot    *)
(* keeps the columns every table had there (ducklake_column's intervals).  *)
THEOREM PastLayouts == Spec => PastLayoutsAreStable
  <1>1. Dated /\ [Next]_catalogVars =>
           [\A s \in SnapshotIds, t \in Ids : Layout(t, s)' = Layout(t, s)]_catalogVars
    <2>. SUFFICES ASSUME Dated, [Next]_catalogVars, NEW s \in SnapshotIds, NEW t \in Ids
                  PROVE  Layout(t, s)' = Layout(t, s)
      OBVIOUS
    <2>1. [CatalogNext]_catalogVars
      BY DEF Next
    <2>. QED
      BY <2>1, PastIsFixed
  <1>. QED
    BY <1>1, AlwaysDated, PTL DEF Spec, PastLayoutsAreStable

-----------------------------------------------------------------------------
(* The catalog's rows and the Parquet files tell of every snapshot what    *)
(* the lake held there, whatever has been committed since: the inductive   *)
(* invariant behind the theorems below.                                    *)
THEOREM CatalogKnowsHistory == Spec => []HInv
  <1>1. Init => HInv
    BY HInvInit DEF Init
  <1>2. HInv /\ [Next]_catalogVars => HInv'
    BY HInvStep DEF Next
  <1>. QED
    BY <1>1, <1>2, PTL DEF Spec

LEMMA SnapshotsKnown ==
  ASSUME HInv
  PROVE  SnapshotIds = 1..last /\ last \in Nat
  <1>1. PICK S : history \in Seq(S)
    BY DEF HInv, Numbered
  <1>2. DOMAIN history = 1..Len(history)
    BY <1>1, LenProperties
  <1>. QED
    BY <1>2 DEF HInv, Numbered, SnapshotIds

LEMMA TypesKnown ==
  ASSUME HInv
  PROVE  TypeOK
  <1>. last \in Nat /\ nextId \in Nat \ {0} /\ last <= MaxSnapshot /\ MaxSnapshot \in Nat
    BY CatalogAssumption DEF HInv, Bounded, Numbered
  <1>1. UsedIds = Ids
    BY DEF UsedIds, Ids
  <1>2. tables \subseteq [id: Ids, name: TableNames, begin: Snapshots, end: Ends]
    BY <1>1 DEF HInv, TablesKnown, TableRow, Dates, Snapshots, Ends
  <1>3. columns \subseteq [table: Ids, id: Nat, name: ColumnNames, begin: Snapshots, end: Ends]
    BY <1>1 DEF HInv, ColumnsKnown, ColumnRow, Dates, Snapshots, Ends
  <1>4. ASSUME NEW f \in files
        PROVE  /\ f.id \in Ids /\ f.table \in Ids
               /\ f.begin \in Snapshots /\ f.end \in Ends /\ f.partialMax \in Ends
               /\ f.id \in DOMAIN parquet
    <2>1. f.id \in Ids /\ f.table \in Ids /\ f.begin \in Snapshots /\ f.end \in Ends
      BY <1>1 DEF HInv, FilesKnown, Dates, Snapshots, Ends
    <2>2. FileSound(f)
      BY DEF HInv, RowsKnown
    <2>3. 1 \in DOMAIN parquet[f.id]
      BY <2>2 DEF FileSound
    <2>4. FileHolds(f, parquet[f.id][1])
      BY <2>2, <2>3 DEF FileSound
    <2>5. f.partialMax \in Ends
      BY <2>4 DEF FileHolds, Ends, Snapshots
    <2>. QED
      BY <2>1, <2>2, <2>5 DEF FileSound
  <1>5. deletes \subseteq [id: Ids, table: Ids, file: Ids, begin: Snapshots, end: Ends]
    BY <1>1 DEF HInv, DeletesKnown, DeleteRow, Dates, Snapshots, Ends
  <1>6. \A tr \in DOMAIN inlined : tr.table \in Ids /\ \A r \in inlined[tr] : r.origin \in Snapshots
    BY <1>1 DEF HInv, TrackersKnown, Snapshots
  <1>7. DOMAIN history = Snapshots
    BY SnapshotsKnown DEF SnapshotIds, Snapshots
  <1>8. last \in 0..MaxSnapshot /\ DOMAIN posfiles = {d.id : d \in deletes}
    BY DEF HInv, DeletesKnown
  <1>. QED
    BY <1>2, <1>3, <1>4, <1>5, <1>6, <1>7, <1>8 DEF TypeOK

(* Every catalog table keeps rows of its columns' types, with intervals    *)
(* within the snapshots committed so far.                                  *)
THEOREM TimeTravelTypes == Spec => []TypeOK
  BY CatalogKnowsHistory, TypesKnown, PTL

(* A name is found at a snapshot exactly when the lake had such a table    *)
(* there, and then once (resolve_table's .first()), through any sequence   *)
(* of drops and creations.                                                 *)
THEOREM NamesResolve == Spec => []NamesResolveInHistory
  <1>1. HInv => NamesResolveInHistory
    <2>. SUFFICES ASSUME HInv, NEW s \in SnapshotIds, NEW n \in TableNames
                  PROVE  Cardinality(TablesNamed(n, s)) = (IF n \in DOMAIN history[s] THEN 1 ELSE 0)
      BY DEF NamesResolveInHistory
    <2>1. s \in 1..last
      BY SnapshotsKnown
    <2>2. /\ n \in DOMAIN history[s] <=> TablesNamed(n, s) # {}
          /\ TablesNamed(n, s) # {} => \E t \in tables : TablesNamed(n, s) = {t}
      BY <2>1, NamedThen
    <2>. QED
      BY <2>2, FS_EmptySet, FS_Singleton
  <1>. QED
    BY <1>1, CatalogKnowsHistory, PTL

(* A table that can be read at s is one row of ducklake_table there.       *)
LEMMA ReadableTable ==
  ASSUME HInv, NEW s \in SnapshotIds, NEW n, Readable(n, s)
  PROVE  /\ s \in 1..last
         /\ \E t : /\ t = ResolveTable(n, s) /\ ~HasInlinedData(t)
                   /\ history[s][n] = SeenAt(t, s)
                   /\ SeenAt(t, s) = {Seen(x, Layout(t, s)) : x \in FiledAt(t, s)}
  <1>1. s \in 1..last
    BY SnapshotsKnown
  <1>2. ResolveTable(n, s) # NULL /\ ~HasInlinedData(ResolveTable(n, s))
    BY DEF Readable
  <1>3. TablesNamed(n, s) # {}
    BY <1>1, <1>2, NamedThen
  <1>4. history[s][n] = SeenAt(ResolveTable(n, s), s)
    BY <1>1, <1>3, NamedThen
  <1>. QED
    BY <1>1, <1>2, <1>4, NothingWaits

(* A read pinned to any snapshot, by plans or by the collapsed scan,       *)
(* returns exactly the rows the table held there, each once and under the  *)
(* names it had there (scan.py), however the lake went on: for any names,  *)
(* values, file sizes and number of commits.                               *)
THEOREM ReadsAreExact == Spec => []ReadsMatchHistory
  <1>1. HInv => ReadsMatchHistory
    <2>. SUFFICES ASSUME HInv, NEW s \in SnapshotIds, NEW n \in TableNames, Readable(n, s)
                  PROVE  LET rows == Returned(n, s, NULL)
                         IN /\ {Bare(r) : r \in rows} = history[s][n]
                            /\ Cardinality(rows) = Cardinality(history[s][n])
      BY DEF ReadsMatchHistory
    <2>1. PICK t : /\ t = ResolveTable(n, s) /\ history[s][n] = SeenAt(t, s)
                   /\ SeenAt(t, s) = {Seen(x, Layout(t, s)) : x \in FiledAt(t, s)}
      BY ReadableTable
    <2>2. PICK rows : rows = Returned(n, s, NULL)
      OBVIOUS
    <2>3. s \in 1..last /\ rows = ReadPlans(PlansAt(t, s, NULL), NULL)
      BY <2>1, <2>2, ReadableTable DEF Returned
    <2>4. /\ {Bare(r) : r \in rows} = {Seen(x, Layout(t, s)) : x \in FiledAt(t, s)}
          /\ IsFiniteSet(rows)
          /\ \A q, r \in rows : q.key = r.key => q = r
      BY <2>3, RowsRead
    <2>5. Cardinality({Bare(r) : r \in rows}) = Cardinality(rows)
      <3>. DEFINE bare == [r \in rows |-> Bare(r)]
                  T == {Bare(r) : r \in rows}
      <3>1. bare \in Bijection(rows, T)
        <4>1. bare \in Injection(rows, T)
          BY <2>4 DEF Bare, Injection, IsInjective
        <4>2. bare \in Surjection(rows, T)
          BY DEF Surjection
        <4>. QED
          BY <4>1, <4>2 DEF Bijection
      <3>2. ExistsBijection(rows, T)
        BY <3>1 DEF ExistsBijection
      <3>. QED
        BY <2>4, <3>2, FS_Bijection
    <2>. QED
      BY <2>1, <2>2, <2>4, <2>5
  <1>. QED
    BY <1>1, CatalogKnowsHistory, PTL

(* The collapsed multi-file scan is taken only when it reads what the      *)
(* per-file plans would (is_pure, fast_path_eligible), for any layouts.    *)
THEOREM FastPathIsSound == Spec => []FastPathIsThePlannedRead
  <1>1. HInv => FastPathIsThePlannedRead
    <2>. SUFFICES ASSUME HInv, NEW s \in SnapshotIds, NEW n \in TableNames, Readable(n, s)
                  PROVE  LET plans == PlansAt(ResolveTable(n, s), s, NULL)
                         IN FastPathEligible(plans) =>
                               \A i \in DOMAIN plans : BuildPlan(plans[i]) = ScanParquet(plans[i].file)
      BY DEF FastPathIsThePlannedRead
    <2>1. PICK t : t = ResolveTable(n, s)
      OBVIOUS
    <2>2. PICK plans : plans = PlansAt(t, s, NULL)
      OBVIOUS
    <2>3. s \in 1..last
      BY SnapshotsKnown
    <2>4. FastPathEligible(plans) =>
             \A i \in DOMAIN plans : BuildPlan(plans[i]) = ScanParquet(plans[i].file)
      BY <2>2, <2>3, FastPathRead
    <2>. QED
      BY <2>1, <2>2, <2>4
  <1>. QED
    BY <1>1, CatalogKnowsHistory, PTL

(* Once a read is not refused for inlined data, every row of the snapshot  *)
(* is in some data file visible there (has_inlined_data).                  *)
THEOREM NothingIsLeftBehind == Spec => []NothingLeftInTheCatalog
  <1>1. HInv => NothingLeftInTheCatalog
    <2>. SUFFICES ASSUME HInv, NEW s \in SnapshotIds, NEW n \in TableNames, Readable(n, s),
                         NEW t, t = ResolveTable(n, s)
                  PROVE  Keys(history[s][n]) \subseteq
                            UNION {{parquet[f.id][i].key : i \in DOMAIN parquet[f.id]}
                                     : f \in VisibleFiles(t, s)}
      BY DEF NothingLeftInTheCatalog
    <2>1. history[s][n] = {Seen(x, Layout(t, s)) : x \in FiledAt(t, s)}
      BY ReadableTable
    <2>2. ASSUME NEW r \in history[s][n]
          PROVE  \E f \in VisibleFiles(t, s) : \E i \in DOMAIN parquet[f.id] :
                    r.key = parquet[f.id][i].key
      <3>1. PICK x \in FiledAt(t, s) : r = Seen(x, Layout(t, s))
        BY <2>1
      <3>2. PICK f \in VisibleFiles(t, s) : x \in FileRows(f, s)
        BY DEF FiledAt
      <3>3. PICK i \in DOMAIN parquet[f.id] : x = StoredRow(f, i)
        BY <3>2 DEF FileRows, KeptIn
      <3>4. r.key = parquet[f.id][i].key
        BY <3>1, <3>3 DEF Seen, StoredRow
      <3>. QED
        BY <3>4
    <2>. QED
      BY <2>2 DEF Keys
  <1>. QED
    BY <1>1, CatalogKnowsHistory, PTL

-----------------------------------------------------------------------------
(* The statistics in the catalog are those of the files it names: with the *)
(* history known, an invariant too.                                        *)
LEMMA AlwaysMeasured == Spec => [](HInv /\ Measured)
  <1>1. Init => HInv /\ Measured
    BY HInvInit, MeasuredInit DEF Init
  <1>2. HInv /\ Measured /\ [Next]_catalogVars => HInv' /\ Measured'
    BY HInvStep, MeasuredStep DEF Next
  <1>. QED
    BY <1>1, <1>2, PTL DEF Spec

(* A read with a predicate returns every row of the snapshot for which it  *)
(* is true and no other, although files were ruled out in the catalog by   *)
(* the clauses the walk extracts (_predicate.py, _walk; _file_query.py,    *)
(* _build_stats_cte): for any expression, of any shape and size, and any   *)
(* values, nulls and NaN among them.                                       *)
THEOREM PrunedReads == Spec => []PrunedReadsMatchHistory
  <1>1. HInv /\ Measured => PrunedReadsMatchHistory
    <2>. SUFFICES ASSUME HInv, Measured, NEW s \in SnapshotIds, NEW n \in TableNames, Readable(n, s),
                         NEW p \in Predicates,
                         Names(p) \subseteq {x.name : x \in Layout(ResolveTable(n, s), s)}
                  PROVE  {Bare(r) : r \in Returned(n, s, p)} = Expected(n, s, p)
      BY DEF PrunedReadsMatchHistory
    <2>1. PICK t : /\ t = ResolveTable(n, s) /\ history[s][n] = SeenAt(t, s)
                   /\ SeenAt(t, s) = {Seen(x, Layout(t, s)) : x \in FiledAt(t, s)}
      BY ReadableTable
    <2>2. PICK all : all = UNION {ReadOf(f, s) : f \in VisibleFiles(t, s)}
      OBVIOUS
    <2>3. s \in 1..last
      BY SnapshotsKnown
    <2>4. {Bare(r) : r \in all} = history[s][n]
      <3>1. PICK rows : rows = ReadPlans(PlansAt(t, s, NULL), NULL)
        OBVIOUS
      <3>2. {Bare(r) : r \in rows} = {Seen(x, Layout(t, s)) : x \in FiledAt(t, s)}
        BY <2>3, <3>1, RowsRead
      <3>3. rows = UNION {ReadOf(f, s) : f \in VisibleFiles(t, s)}
        BY <2>3, <3>1, RowsRead
      <3>4. rows = all
        BY <2>2, <3>3
      <3>. QED
        BY <2>1, <3>2, <3>4
    <2>5. Returned(n, s, p) = Filter(all, p)
      <3>1. p = NULL \/ WellFormed(p)
        BY PredicatesAreExpressions
      <3>2. Names(p) \subseteq NamesOf(Layout(t, s))
        BY <2>1 DEF NamesOf
      <3>. QED
        BY <2>1, <2>2, <2>3, <3>1, <3>2, RowsKept DEF Returned
    <2>6. \A r : Matches(Bare(r), p) <=> Matches(r, p)
      BY DEF Matches, Bare
    <2>. QED
      BY <2>4, <2>5, <2>6 DEF Filter, Expected
  <1>. QED
    BY <1>1, AlwaysMeasured, PTL

=============================================================================
