---------------------------- MODULE CatalogProofs ----------------------------
(***************************************************************************)
(* Proofs about the catalog and its writers, for any names, values, kinds  *)
(* of commit and bounds.  A commit opens and closes columns at the         *)
(* snapshot it creates, so none changes the layout a table had at a        *)
(* snapshot that exists; and what the catalog's rows and the Parquet files *)
(* say of every snapshot is what the lake held there, the invariant behind *)
(* every read.  The second half is the reader's side, in any such state:   *)
(* extracted clauses are implied by the predicate, statistics describe     *)
(* their file through every commit (Measured), and then candidate files,   *)
(* the plan of a file, the collapsed scan, and what a read returns.        *)
(***************************************************************************)
EXTENDS CatalogReader, StatsTheorems

ColumnRow(c) ==
    c = [table |-> c.table, id |-> c.id, name |-> c.name, begin |-> c.begin, end |-> c.end]

(* Snapshots are numbered without gaps, and columns opened and closed at   *)
(* snapshots that exist.                                                   *)
Numbered ==
    /\ last \in Nat
    /\ \E S : history \in Seq(S)
    /\ Len(history) = last

ColumnsDated ==
    \A c \in columns : /\ ColumnRow(c)
                       /\ c.begin \in 1..last
                       /\ c.end = NULL \/ c.end \in 1..last

Dated == Numbered /\ ColumnsDated

(* A commit: one more snapshot, at which the columns R end and N begin.    *)
NewSnapshot == last' = last + 1 /\ \E contents : history' = Append(history, contents)

EditsColumns(R, N) ==
    /\ R \subseteq Live(columns)
    /\ columns' = Close(columns, R, last + 1) \cup N
    /\ \A c \in N : ColumnRow(c) /\ c.begin = last + 1 /\ c.end = NULL

ColumnCommit ==
    \/ NewSnapshot /\ \E R, N : EditsColumns(R, N)
    \/ UNCHANGED <<last, columns, history>>

-----------------------------------------------------------------------------
(* Every commit is of this form, and removing a file from storage is none. *)

LEMMA SameColumns ==
  ASSUME UNCHANGED columns
  PROVE  EditsColumns({}, {})
  BY DEF EditsColumns, Close

LEMMA CommitShape ==
  ASSUME ColumnsDated, [CatalogNext]_catalogVars
  PROVE  ColumnCommit
  <1>1. ASSUME NEW contents, Record(contents) PROVE NewSnapshot
    BY <1>1 DEF Record, NewSnapshot
  <1>2. CASE \E n \in TableNames : CreateTable(n)
    <2>1. PICK n \in TableNames : CreateTable(n)
      BY <1>2
    <2>. DEFINE N == {[table |-> nextId, id |-> i, name |-> InitialColumns[i],
                       begin |-> last + 1, end |-> NULL] : i \in DOMAIN InitialColumns}
    <2>2. columns' = columns \cup N /\ Record(Put(Now, n, {}))
      BY <2>1 DEF CreateTable
    <2>3. \A c \in N : ColumnRow(c) /\ c.begin = last + 1 /\ c.end = NULL
      BY DEF ColumnRow
    <2>. HIDE DEF N
    <2>4. EditsColumns({}, N)
      BY <2>2, <2>3 DEF EditsColumns, Close
    <2>. QED
      BY <1>1, <2>2, <2>4 DEF ColumnCommit
  <1>3. CASE \E n \in DOMAIN Now : TableCommit(n)
    <2>1. PICK n \in DOMAIN Now : TableCommit(n)
      BY <1>3
    <2>2. CASE AppendRows(n)
      <3>1. UNCHANGED columns /\ \E contents : Record(contents)
        BY <2>2 DEF AppendRows
      <3>. QED
        BY <1>1, <3>1, SameColumns DEF ColumnCommit
    <2>3. CASE DeleteRows(n)
      <3>1. UNCHANGED columns /\ \E contents : Record(contents)
        BY <2>3 DEF DeleteRows
      <3>. QED
        BY <1>1, <3>1, SameColumns DEF ColumnCommit
    <2>4. CASE DropFile(n)
      <3>1. UNCHANGED columns /\ \E contents : Record(contents)
        BY <2>4 DEF DropFile
      <3>. QED
        BY <1>1, <3>1, SameColumns DEF ColumnCommit
    <2>5. ASSUME NEW name \in ColumnNames, AddColumn(n, name) PROVE ColumnCommit
      <3>. DEFINE t  == LiveTable(n).id
                  id == 1 + Max({c.id : c \in {d \in columns : d.table = t}})
                  d  == [table |-> t, id |-> id, name |-> name, begin |-> last + 1, end |-> NULL]
      <3>1. columns' = columns \cup {d} /\ \E contents : Record(contents)
        BY <2>5 DEF AddColumn
      <3>2. ColumnRow(d) /\ d.begin = last + 1 /\ d.end = NULL
        BY DEF ColumnRow
      <3>. HIDE DEF d
      <3>3. EditsColumns({}, {d})
        BY <3>1, <3>2 DEF EditsColumns, Close
      <3>. QED
        BY <1>1, <3>1, <3>3 DEF ColumnCommit
    <2>6. ASSUME NEW c \in LiveColumns(LiveTable(n).id), DropColumn(n, c) PROVE ColumnCommit
      <3>1. columns' = Close(columns, {c}, last + 1) /\ \E contents : Record(contents)
        BY <2>6 DEF DropColumn
      <3>2. EditsColumns({c}, {})
        BY <3>1 DEF EditsColumns, LiveColumns
      <3>. QED
        BY <1>1, <3>1, <3>2 DEF ColumnCommit
    <2>7. ASSUME NEW c \in LiveColumns(LiveTable(n).id), NEW name \in ColumnNames,
                 RenameColumn(n, c, name)
          PROVE  ColumnCommit
      <3>. DEFINE d == [c EXCEPT !.name = name, !.begin = last + 1]
      <3>1. columns' = Close(columns, {c}, last + 1) \cup {d} /\ \E contents : Record(contents)
        BY <2>7 DEF RenameColumn
      <3>2. c \in Live(columns) /\ ColumnRow(c)
        BY DEF LiveColumns, Live, ColumnsDated
      <3>3. ColumnRow(d) /\ d.begin = last + 1 /\ d.end = NULL
        <4>. DEFINE renamed == [c EXCEPT !.name = name]
        <4>1. renamed = [table |-> c.table, id |-> c.id, name |-> name,
                         begin |-> c.begin, end |-> NULL]
          BY <3>2 DEF ColumnRow, Live
        <4>2. d = [renamed EXCEPT !.begin = last + 1]
          BY <3>2 DEF ColumnRow
        <4>. HIDE DEF renamed
        <4>3. d = [table |-> c.table, id |-> c.id, name |-> name,
                   begin |-> last + 1, end |-> NULL]
          BY <4>1, <4>2
        <4>. QED
          BY <4>3 DEF ColumnRow
      <3>. HIDE DEF d
      <3>4. EditsColumns({c}, {d})
        BY <3>1, <3>2, <3>3 DEF EditsColumns
      <3>. QED
        BY <1>1, <3>1, <3>4 DEF ColumnCommit
    <2>8. CASE Compact(n)
      <3>1. UNCHANGED columns /\ \E contents : Record(contents)
        BY <2>8 DEF Compact
      <3>. QED
        BY <1>1, <3>1, SameColumns DEF ColumnCommit
    <2>9. CASE InlineRow(n)
      <3>1. UNCHANGED columns /\ \E contents : Record(contents)
        BY <2>9 DEF InlineRow
      <3>. QED
        BY <1>1, <3>1, SameColumns DEF ColumnCommit
    <2>10. CASE FlushInlined(n)
      <3>1. UNCHANGED columns /\ \E contents : Record(contents)
        BY <2>10 DEF FlushInlined
      <3>. QED
        BY <1>1, <3>1, SameColumns DEF ColumnCommit
    <2>11. CASE DropTable(n)
      <3>1. PICK R \in SUBSET Live(columns) : columns' = Close(columns, R, last + 1)
        BY <2>11 DEF DropTable, LiveColumns
      <3>2. \E contents : Record(contents)
        BY <2>11 DEF DropTable
      <3>3. EditsColumns(R, {})
        BY <3>1 DEF EditsColumns
      <3>. QED
        BY <1>1, <3>2, <3>3 DEF ColumnCommit
    <2>. QED
      BY <2>1, <2>2, <2>3, <2>4, <2>5, <2>6, <2>7, <2>8, <2>9, <2>10, <2>11 DEF TableCommit
  <1>4. CASE Cleanup
    BY <1>4 DEF Cleanup, ColumnCommit
  <1>5. CASE UNCHANGED catalogVars
    BY <1>5 DEF catalogVars, ColumnCommit
  <1>. QED
    BY <1>2, <1>3, <1>4, <1>5 DEF CatalogNext

-----------------------------------------------------------------------------
(* The snapshots of a commit, and what it leaves of the past.              *)

LEMMA SnapshotsGrow ==
  ASSUME Numbered, NewSnapshot
  PROVE  Numbered' /\ SnapshotIds = 1..last /\ SnapshotIds' = 1..(last + 1)
  <1>1. PICK S : history \in Seq(S)
    BY DEF Numbered
  <1>2. PICK contents : history' = Append(history, contents)
    BY DEF NewSnapshot
  <1>3. history \in Seq(S \cup {contents})
    BY <1>1
  <1>4. /\ Append(history, contents) \in Seq(S \cup {contents})
        /\ Len(Append(history, contents)) = Len(history) + 1
    BY <1>3, AppendProperties
  <1>5. last' = last + 1 /\ Len(history) = last /\ last \in Nat
    BY DEF Numbered, NewSnapshot
  <1>6. history' \in Seq(S \cup {contents}) /\ Len(history') = last + 1
    BY <1>2, <1>4, <1>5
  <1>7. DOMAIN history = 1..last /\ DOMAIN history' = 1..(last + 1)
    BY <1>1, <1>5, <1>6, LenProperties
  <1>. QED
    BY <1>5, <1>6, <1>7 DEF Numbered, SnapshotIds

LEMMA EditedColumn ==
  ASSUME ColumnsDated, Numbered, NEW R, NEW N, EditsColumns(R, N),
         NEW s \in 1..last
  PROVE  /\ \A c \in columns : VisibleAt(c, s) =>
               \E d \in columns' : /\ VisibleAt(d, s)
                                   /\ d.table = c.table /\ d.id = c.id /\ d.name = c.name
         /\ \A d \in columns' : VisibleAt(d, s) =>
               \E c \in columns : /\ VisibleAt(c, s)
                                  /\ d.table = c.table /\ d.id = c.id /\ d.name = c.name
  <1>. DEFINE Closed(c) == [c EXCEPT !.end = last + 1]
  <1>1. columns' = (columns \ R) \cup {Closed(c) : c \in R} \cup N
    BY DEF EditsColumns, Close
  <1>2. ASSUME NEW c \in R
        PROVE  /\ c \in columns /\ Closed(c).table = c.table /\ Closed(c).id = c.id
               /\ Closed(c).name = c.name
               /\ VisibleAt(Closed(c), s) <=> VisibleAt(c, s)
    <2>1. c \in columns /\ c.end = NULL /\ ColumnRow(c)
      BY DEF EditsColumns, Live, ColumnsDated
    <2>2. /\ Closed(c).table = c.table /\ Closed(c).id = c.id /\ Closed(c).name = c.name
          /\ Closed(c).begin = c.begin /\ Closed(c).end = last + 1
      BY <2>1 DEF ColumnRow
    <2>. HIDE DEF Closed
    <2>3. s < last + 1
      BY DEF Numbered
    <2>. QED
      BY <2>1, <2>2, <2>3 DEF VisibleAt
  <1>3. \A c \in N : ~VisibleAt(c, s)
    BY DEF EditsColumns, VisibleAt, Numbered
  <1>. HIDE DEF Closed
  <1>4. ASSUME NEW c \in columns, VisibleAt(c, s)
        PROVE  \E d \in columns' : /\ VisibleAt(d, s)
                                   /\ d.table = c.table /\ d.id = c.id /\ d.name = c.name
    <2>1. CASE c \in R
      BY <1>1, <1>2, <1>4, <2>1
    <2>2. CASE c \notin R
      BY <1>1, <1>4, <2>2
    <2>. QED
      BY <2>1, <2>2
  <1>5. ASSUME NEW d \in columns', VisibleAt(d, s)
        PROVE  \E c \in columns : /\ VisibleAt(c, s)
                                  /\ d.table = c.table /\ d.id = c.id /\ d.name = c.name
    <2>1. CASE d \in columns
      BY <1>5, <2>1
    <2>2. CASE \E c \in R : d = Closed(c)
      BY <1>2, <1>5, <2>2
    <2>. QED
      BY <1>1, <1>3, <1>5, <2>1, <2>2
  <1>. QED
    BY <1>4, <1>5

(* No commit changes a layout at a snapshot that exists.                   *)
LEMMA PastIsFixed ==
  ASSUME Dated, [CatalogNext]_catalogVars, NEW s \in SnapshotIds, NEW t
  PROVE  Layout(t, s)' = Layout(t, s)
  <1>1. CASE UNCHANGED columns
    BY <1>1 DEF Layout, ColumnsOf, VisibleAt
  <1>2. CASE \E R, N : EditsColumns(R, N)
    <2>1. PICK R, N : EditsColumns(R, N)
      BY <1>2
    <2>2. s \in 1..last
      BY LenProperties DEF Dated, Numbered, SnapshotIds
    <2>. QED
      BY <2>1, <2>2, EditedColumn DEF Layout, ColumnsOf, VisibleAt, Dated
  <1>. QED
    BY <1>1, <1>2, CommitShape DEF ColumnCommit, Dated

LEMMA DatedInit == CatalogInit => Dated
  <1>1. <<>> \in Seq({}) /\ Len(<<>>) = 0
    BY EmptySeq
  <1>. QED
    BY <1>1 DEF CatalogInit, Dated, Numbered, ColumnsDated

LEMMA DatedStep ==
  ASSUME Dated, [CatalogNext]_catalogVars
  PROVE  Dated' /\ last <= last' /\ SnapshotIds = 1..last /\ SnapshotIds' = 1..last'
  <1>1. CASE UNCHANGED <<last, columns, history>>
    <2>1. Dated'
      BY <1>1 DEF Dated, Numbered, ColumnsDated
    <2>2. SnapshotIds = 1..last
      BY LenProperties DEF Dated, Numbered, SnapshotIds
    <2>. QED
      BY <1>1, <2>1, <2>2 DEF SnapshotIds, Dated, Numbered
  <1>2. CASE NewSnapshot /\ \E R, N : EditsColumns(R, N)
    <2>1. PICK R, N : EditsColumns(R, N)
      BY <1>2
    <2>2. Numbered' /\ SnapshotIds = 1..last /\ SnapshotIds' = 1..(last + 1)
      BY <1>2, SnapshotsGrow DEF Dated
    <2>3. last' = last + 1 /\ last \in Nat
      BY <1>2 DEF NewSnapshot, Dated, Numbered
    <2>4. ColumnsDated'
      <3>. SUFFICES ASSUME NEW d \in columns'
                    PROVE  /\ ColumnRow(d) /\ d.begin \in 1..(last + 1)
                           /\ d.end = NULL \/ d.end \in 1..(last + 1)
        BY <2>3 DEF ColumnsDated
      <3>1. CASE d \in columns
        BY <2>3, <3>1 DEF ColumnsDated, Dated
      <3>2. CASE d \in N
        BY <2>1, <2>3, <3>2 DEF EditsColumns
      <3>3. ASSUME NEW c \in R, d = [c EXCEPT !.end = last + 1]
            PROVE  /\ ColumnRow(d) /\ d.begin \in 1..(last + 1) /\ d.end \in 1..(last + 1)
        <4>1. ColumnRow(c) /\ c.begin \in 1..last
          BY <2>1 DEF EditsColumns, Live, ColumnsDated, Dated
        <4>. QED
          BY <2>3, <3>3, <4>1 DEF ColumnRow
      <3>. QED
        BY <2>1, <3>1, <3>2, <3>3 DEF EditsColumns, Close
    <2>. QED
      BY <2>2, <2>3, <2>4 DEF Dated
  <1>. QED
    BY <1>1, <1>2, CommitShape DEF ColumnCommit, Dated

-----------------------------------------------------------------------------
(* Ids, names and the shapes of rows.                                      *)

UsedIds == {i \in Nat : 1 <= i /\ i < nextId}

Dates(r) == r.begin \in 1..last /\ (r.end = NULL \/ r.end \in 1..last)

NamesOf(layout) == {c.name : c \in layout}

TableRow(t) == t = [id |-> t.id, name |-> t.name, begin |-> t.begin, end |-> t.end]

DataRow(f) ==
    f = [id |-> f.id, table |-> f.table, begin |-> f.begin, end |-> f.end,
         partialMax |-> f.partialMax, stats |-> f.stats]

DeleteRow(d) ==
    d = [id |-> d.id, table |-> d.table, file |-> d.file, begin |-> d.begin, end |-> d.end]

Row(r) == /\ r = [key |-> r.key, origin |-> r.origin, cells |-> r.cells]
          /\ r.cells = [x \in DOMAIN r.cells |-> r.cells[x]]

-----------------------------------------------------------------------------
(* The invariant, part by part.                                            *)

TablesKnown ==
    /\ \A t \in tables : TableRow(t) /\ Dates(t) /\ t.id \in UsedIds /\ t.name \in TableNames
    /\ \A t, u \in tables : t.id = u.id => t = u

(* The catalog's tables at a snapshot are the lake's.                      *)
NamesKnown ==
    \A s \in 1..last :
       /\ DOMAIN history[s] = {t.name : t \in {u \in tables : VisibleAt(u, s)}}
       /\ \A t, u \in tables : VisibleAt(t, s) /\ VisibleAt(u, s) /\ t.name = u.name => t = u

(* A column id and a column name are each of one column at a snapshot.     *)
ColumnsKnown ==
    /\ \A c \in columns : /\ ColumnRow(c) /\ Dates(c)
                          /\ c.table \in UsedIds /\ c.id \in Nat /\ c.name \in ColumnNames
    /\ \A s \in 1..last : \A c, d \in columns :
          VisibleAt(c, s) /\ VisibleAt(d, s) /\ c.table = d.table /\ (c.id = d.id \/ c.name = d.name)
             => c = d

(* A table has a column row at least, live or not.                         *)
TablesHaveColumns == \A t \in tables : \E c \in columns : c.table = t.id

FilesKnown ==
    /\ \A f \in files : /\ DataRow(f) /\ Dates(f)
                        /\ f.id \in UsedIds /\ f.table \in UsedIds
    /\ \A f, g \in files : f.id = g.id => f = g

(* A file's rows have the columns of its begin_snapshot and were inserted  *)
(* at snapshots with that layout; those of a partial file say at which.    *)
FileHolds(f, r) ==
    /\ Row(r)
    /\ r.key[1] \in UsedIds
    /\ r.origin \in f.begin..last
    /\ Layout(f.table, r.origin) = Layout(f.table, f.begin)
    /\ IF f.partialMax = NULL
       THEN r.origin = f.begin /\ DOMAIN r.cells = NamesOf(Layout(f.table, f.begin))
       ELSE /\ f.partialMax \in 1..last
            /\ r.origin <= f.partialMax
            /\ DOMAIN r.cells = NamesOf(Layout(f.table, f.begin)) \cup {PARTIAL_SNAPSHOT_COL}
            /\ r.cells[PARTIAL_SNAPSHOT_COL] = r.origin

FileSound(f) ==
    /\ f.id \in DOMAIN parquet
    /\ Len(parquet[f.id]) \in Nat \ {0}
    /\ DOMAIN parquet[f.id] = 1..Len(parquet[f.id])
    /\ \A r \in {parquet[f.id][i] : i \in DOMAIN parquet[f.id]} : FileHolds(f, r)

RowsKnown == \A f \in files : FileSound(f)

TrackersKnown ==
    \A tr \in DOMAIN inlined :
       /\ tr.table \in UsedIds
       /\ IsFiniteSet(inlined[tr])
       /\ \A r \in inlined[tr] : /\ Row(r) /\ r.key[1] \in UsedIds /\ r.origin \in 1..last
                                 /\ tr.layout = Layout(tr.table, r.origin)
                                 /\ DOMAIN r.cells = NamesOf(tr.layout)

(* A row is in one place: of the files, and of what waits to be flushed.   *)
KeysOnce ==
    /\ \A f, g \in files : \A i \in DOMAIN parquet[f.id], j \in DOMAIN parquet[g.id] :
          parquet[f.id][i].key = parquet[g.id][j].key => f = g /\ i = j
    /\ \A f \in files, tr \in DOMAIN inlined : \A i \in DOMAIN parquet[f.id], r \in inlined[tr] :
          parquet[f.id][i].key # r.key
    /\ \A tr, ur \in DOMAIN inlined : \A q \in inlined[tr], r \in inlined[ur] :
          q.key = r.key => tr = ur /\ q = r

DeletesKnown ==
    /\ \A d \in deletes : /\ DeleteRow(d) /\ Dates(d)
                          /\ d.file \in UsedIds /\ d.id \in UsedIds /\ d.table \in UsedIds
    /\ DOMAIN posfiles = {d.id : d \in deletes}
    /\ \A d \in deletes, f \in files : d.file = f.id => d.table = f.table

Bounded ==
    /\ nextId \in Nat \ {0}
    /\ last <= MaxSnapshot
    /\ IsFiniteSet(columns)
    /\ IsFiniteSet(files)

-----------------------------------------------------------------------------
(* The rows a table has at a snapshot, wherever they are, with the layout  *)
(* they were written under; and how one is seen under another layout.      *)

Deleted(id, p, s) == \E d \in deletes : d.file = id /\ VisibleAt(d, s) /\ p \in posfiles[d.id]

StoredRow(f, i) ==
    [key |-> parquet[f.id][i].key, cells |-> PhysicalCells(parquet[f.id][i]),
     layout |-> Layout(f.table, f.begin)]

WaitingRow(tr, r) == [key |-> r.key, cells |-> r.cells, layout |-> tr.layout]

KeptIn(f, s) ==
    {i \in DOMAIN parquet[f.id] : parquet[f.id][i].origin <= s /\ ~Deleted(f.id, i - 1, s)}

FileRows(f, s) == {StoredRow(f, i) : i \in KeptIn(f, s)}

FiledAt(t, s) == UNION {FileRows(f, s) : f \in VisibleFiles(t, s)}

WaitingAt(t, s) ==
    UNION {{WaitingRow(tr, r) : r \in {q \in inlined[tr] : q.origin <= s}} : tr \in Trackers(t)}

RowsAt(t, s) == FiledAt(t, s) \cup WaitingAt(t, s)

NameIn(layout, id) ==
    IF \E c \in layout : c.id = id THEN (CHOOSE c \in layout : c.id = id).name ELSE NULL

IdIn(layout, name) == (CHOOSE c \in layout : c.name = name).id

Recast(cells, from, to) ==
    [name \in NamesOf(to) |->
        LET source == NameIn(from, IdIn(to, name))
        IN IF source = NULL THEN NULL ELSE cells[source]]

Seen(x, layout) == [key |-> x.key, cells |-> Recast(x.cells, x.layout, layout)]

SeenAt(t, s) == {Seen(x, Layout(t, s)) : x \in RowsAt(t, s)}

HistoriesKnown ==
    \A s \in 1..last : \A t \in tables :
       VisibleAt(t, s) => history[s][t.name] = SeenAt(t.id, s)

HInv ==
    /\ Numbered
    /\ Bounded
    /\ TablesKnown
    /\ NamesKnown
    /\ ColumnsKnown
    /\ TablesHaveColumns
    /\ FilesKnown
    /\ RowsKnown
    /\ TrackersKnown
    /\ KeysOnce
    /\ DeletesKnown
    /\ HistoriesKnown

-----------------------------------------------------------------------------
(* Rows and intervals.                                                     *)

(* Between the newest snapshot and the one to come nothing is in between:  *)
(* what is visible at either is live.                                      *)
LEMMA VisibleNow ==
  ASSUME last \in Nat, NEW r, Dates(r)
  PROVE  /\ VisibleAt(r, last) <=> r.end = NULL
         /\ VisibleAt(r, last + 1) <=> r.end = NULL
  BY DEF Dates, VisibleAt

(* A row closed by the next commit shows the past as it did.               *)
LEMMA ClosedRow ==
  ASSUME last \in Nat, NEW r, NEW q, r.end = NULL,
         q.begin = r.begin, q.end = last + 1
  PROVE  /\ \A s \in 1..last : VisibleAt(q, s) <=> VisibleAt(r, s)
         /\ ~VisibleAt(q, last + 1)
  BY MarkersAreNotValues DEF VisibleAt

LEMMA EndedColumn ==
  ASSUME NEW c, ColumnRow(c), NEW s
  PROVE  LET e == [c EXCEPT !.end = s]
         IN /\ ColumnRow(e) /\ e.table = c.table /\ e.id = c.id /\ e.name = c.name
            /\ e.begin = c.begin /\ e.end = s
  BY DEF ColumnRow

LEMMA EndedTable ==
  ASSUME NEW t, TableRow(t), NEW s
  PROVE  LET e == [t EXCEPT !.end = s]
         IN TableRow(e) /\ e.id = t.id /\ e.name = t.name /\ e.begin = t.begin /\ e.end = s
  BY DEF TableRow

LEMMA EndedFile ==
  ASSUME NEW f, DataRow(f), NEW s
  PROVE  LET e == [f EXCEPT !.end = s]
         IN /\ DataRow(e) /\ e.id = f.id /\ e.table = f.table /\ e.begin = f.begin /\ e.end = s
            /\ e.partialMax = f.partialMax /\ e.stats = f.stats
  BY DEF DataRow

LEMMA EndedDelete ==
  ASSUME NEW d, DeleteRow(d), NEW s
  PROVE  LET e == [d EXCEPT !.end = s]
         IN /\ DeleteRow(e) /\ e.id = d.id /\ e.table = d.table /\ e.file = d.file
            /\ e.begin = d.begin /\ e.end = s
  BY DEF DeleteRow

(* A commit appends one snapshot and keeps those before.                   *)
LEMMA RecordKeeps ==
  ASSUME Numbered, NEW now, Record(now)
  PROVE  /\ last \in Nat /\ last' = last + 1
         /\ Numbered'
         /\ \A s \in 1..last : history'[s] = history[s]
         /\ history'[last + 1] = now
         /\ SnapshotIds = 1..last /\ SnapshotIds' = 1..(last + 1)
  <1>1. NewSnapshot
    BY DEF Record, NewSnapshot
  <1>2. PICK S : history \in Seq(S)
    BY DEF Numbered
  <1>3. history \in Seq(S \cup {now})
    BY <1>2
  <1>4. /\ history' = Append(history, now) /\ Len(history) = last
        /\ last \in Nat /\ last' = last + 1
    BY DEF Record, Numbered
  <1>5. /\ \A s \in 1..last : Append(history, now)[s] = history[s]
        /\ Append(history, now)[last + 1] = now
    BY <1>3, <1>4, AppendProperties
  <1>. QED
    BY <1>1, <1>4, <1>5, SnapshotsGrow

(* The values of a function on a finite set, with their number at most.    *)
LEMMA FiniteImage ==
  ASSUME NEW S, IsFiniteSet(S), NEW f, S = DOMAIN f
  PROVE  /\ IsFiniteSet({f[x] : x \in S})
         /\ Cardinality({f[x] : x \in S}) <= Cardinality(S)
  <1>. DEFINE g == [x \in S |-> f[x]]
              T == {f[x] : x \in S}
  <1>1. g \in Surjection(S, T)
    BY DEF Surjection
  <1>. QED
    BY <1>1, FS_Surjection

LEMMA PutValue ==
  ASSUME NEW f, NEW k, NEW v
  PROVE  /\ DOMAIN Put(f, k, v) = DOMAIN f \cup {k}
         /\ Put(f, k, v)[k] = v
         /\ \A x \in DOMAIN f : x # k => Put(f, k, v)[x] = f[x]
  BY DEF Put

-----------------------------------------------------------------------------
(* Layouts: what a row written under one is seen as under another.         *)

Unambiguous(layout) ==
    /\ \A c \in layout : c = [id |-> c.id, name |-> c.name] /\ c.name \in ColumnNames
    /\ \A c, d \in layout : c.id = d.id \/ c.name = d.name => c = d

LEMMA NamedById ==
  ASSUME NEW layout, Unambiguous(layout), NEW c \in layout
  PROVE  NameIn(layout, c.id) = c.name /\ IdIn(layout, c.name) = c.id
  <1>1. \A d \in layout : (d.id = c.id => d = c) /\ (d.name = c.name => d = c)
    BY DEF Unambiguous
  <1>2. (CHOOSE d \in layout : d.id = c.id) = c
    BY <1>1
  <1>3. (CHOOSE d \in layout : d.name = c.name) = c
    BY <1>1
  <1>. QED
    BY <1>2, <1>3 DEF NameIn, IdIn

LEMMA NameInLayout ==
  ASSUME NEW layout, Unambiguous(layout), NEW id
  PROVE  /\ NameIn(layout, id) # NULL => NameIn(layout, id) \in NamesOf(layout)
         /\ NamesOf(layout) \subseteq ColumnNames
         /\ NULL \notin NamesOf(layout) /\ PARTIAL_SNAPSHOT_COL \notin NamesOf(layout)
  <1>1. NamesOf(layout) \subseteq ColumnNames
    BY DEF Unambiguous, NamesOf
  <1>2. ASSUME NEW c \in layout, c.id = id PROVE NameIn(layout, id) \in NamesOf(layout)
    BY <1>2, NamedById DEF NamesOf
  <1>. QED
    BY <1>1, <1>2, CatalogAssumption DEF NameIn

(* Under its own layout a row is seen as it is.                            *)
LEMMA SeenAsWritten ==
  ASSUME NEW layout, Unambiguous(layout), NEW cells,
         cells = [x \in NamesOf(layout) |-> cells[x]]
  PROVE  Recast(cells, layout, layout) = cells
  <1>1. ASSUME NEW name \in NamesOf(layout)
        PROVE  /\ NameIn(layout, IdIn(layout, name)) = name
               /\ name # NULL
    <2>1. PICK c \in layout : name = c.name
      BY DEF NamesOf
    <2>. QED
      BY <2>1, NamedById, NameInLayout
  <1>. QED
    BY <1>1 DEF Recast

LEMMA RecastIsFunction ==
  ASSUME NEW cells, NEW from, NEW to
  PROVE  /\ DOMAIN Recast(cells, from, to) = NamesOf(to)
         /\ Recast(cells, from, to) = [x \in NamesOf(to) |-> Recast(cells, from, to)[x]]
  BY DEF Recast

Widened(layout, id, name) == layout \cup {[id |-> id, name |-> name]}

Narrowed(layout, c) == layout \ {c}

Renamed(layout, c, name) == Widened(Narrowed(layout, c), c.id, name)

LEMMA ColumnAddedToLayout ==
  ASSUME NEW from, NEW to, Unambiguous(to), NEW id, NEW name \in ColumnNames,
         name \notin NamesOf(to), \A c \in from \cup to : c.id # id, NEW cells,
         NEW wide, wide = Widened(to, id, name)
  PROVE  Recast(cells, from, wide) = Put(Recast(cells, from, to), name, NULL)
  <1>. DEFINE new == [id |-> id, name |-> name]
  <1>a. wide = to \cup {new}
    BY DEF Widened
  <1>0. new.name = name /\ new.id = id
    OBVIOUS
  <1>1. NamesOf(wide) = NamesOf(to) \cup {name}
    <2>1. wide = to \cup {new}
      BY <1>a
    <2>. HIDE DEF new
    <2>2. \A c \in wide : c \in to \/ c.name = name
      BY <1>0, <2>1
    <2>3. new \in wide /\ \A c \in to : c \in wide
      BY <2>1
    <2>. QED
      BY <1>0, <2>2, <2>3 DEF NamesOf
  <1>2. Unambiguous(wide)
    BY <1>a DEF Unambiguous, NamesOf
  <1>3. IdIn(wide, name) = id
    <2>1. new \in wide
      BY <1>a
    <2>. HIDE DEF new
    <2>. QED
      BY <1>0, <1>2, <2>1, NamedById
  <1>4. NameIn(from, id) = NULL
    BY DEF NameIn
  <1>5. ASSUME NEW x \in NamesOf(to) PROVE IdIn(wide, x) = IdIn(to, x) /\ x # name
    <2>1. PICK c \in to : x = c.name
      BY DEF NamesOf
    <2>2. IdIn(to, x) = c.id
      BY <2>1, NamedById
    <2>3. c \in wide
      BY <1>a
    <2>4. IdIn(wide, x) = c.id
      BY <1>2, <2>1, <2>3, NamedById
    <2>. QED
      BY <2>2, <2>4
  <1>6. \A x \in NamesOf(wide) :
           Recast(cells, from, wide)[x] = Put(Recast(cells, from, to), name, NULL)[x]
    BY <1>1, <1>3, <1>4, <1>5 DEF Recast, Put
  <1>7. /\ DOMAIN Recast(cells, from, wide) = NamesOf(wide)
        /\ DOMAIN Put(Recast(cells, from, to), name, NULL) = NamesOf(wide)
    BY <1>1 DEF Recast, Put
  <1>. QED
    BY <1>6, <1>7 DEF Recast, Put

LEMMA ColumnDroppedFromLayout ==
  ASSUME NEW from, NEW to, Unambiguous(to), NEW c \in to, NEW cells,
         NEW narrow, narrow = Narrowed(to, c), NEW seen, seen = Recast(cells, from, to)
  PROVE  Recast(cells, from, narrow) = Restrict(seen, DOMAIN seen \ {c.name})
  <1>1. NamesOf(narrow) = NamesOf(to) \ {c.name}
    BY DEF NamesOf, Unambiguous, Narrowed
  <1>2. Unambiguous(narrow)
    BY DEF Unambiguous, Narrowed
  <1>3. ASSUME NEW x \in NamesOf(narrow) PROVE IdIn(narrow, x) = IdIn(to, x)
    <2>1. PICK d \in narrow : x = d.name
      BY DEF NamesOf
    <2>2. d \in to
      BY DEF Narrowed
    <2>. QED
      BY <1>2, <2>1, <2>2, NamedById
  <1>. QED
    BY <1>1, <1>3 DEF Recast, Restrict

LEMMA ColumnRenamedInLayout ==
  ASSUME NEW from, NEW to, Unambiguous(to), NEW c \in to, NEW name \in ColumnNames,
         name \notin NamesOf(to), NEW cells,
         NEW next, next = Renamed(to, c, name),
         NEW seen, seen = Recast(cells, from, to)
  PROVE  Recast(cells, from, next) = Put(Restrict(seen, DOMAIN seen \ {c.name}), name, seen[c.name])
  <1>. DEFINE new == [id |-> c.id, name |-> name]
              rest == Restrict(seen, DOMAIN seen \ {c.name})
  <1>a. next = (to \ {c}) \cup {new}
    BY DEF Renamed, Widened, Narrowed
  <1>0. new.name = name /\ new.id = c.id
    OBVIOUS
  <1>1. NamesOf(next) = (NamesOf(to) \ {c.name}) \cup {name}
    <2>1. next = (to \ {c}) \cup {new}
      BY <1>a
    <2>. HIDE DEF new
    <2>2. \A d \in next : (d \in to /\ d.name # c.name) \/ d.name = name
      BY <1>0, <2>1 DEF Unambiguous
    <2>3. new \in next /\ \A d \in to : d.name # c.name => d \in next
      BY <2>1
    <2>. QED
      BY <1>0, <2>2, <2>3 DEF NamesOf
  <1>2. Unambiguous(next)
    BY <1>a DEF Unambiguous, NamesOf
  <1>3. IdIn(next, name) = c.id /\ IdIn(to, c.name) = c.id /\ c.name \in NamesOf(to)
    <2>1. new \in next
      BY <1>a
    <2>2. IdIn(next, new.name) = new.id
      BY <1>2, <2>1, NamedById
    <2>. QED
      BY <2>2, NamedById DEF NamesOf
  <1>4. ASSUME NEW x \in NamesOf(to) \ {c.name} PROVE IdIn(next, x) = IdIn(to, x) /\ x # name
    <2>1. PICK d \in to : x = d.name
      BY DEF NamesOf
    <2>2. d \in next
      BY <1>a, <2>1
    <2>. QED
      BY <1>2, <2>1, <2>2, NamedById
  <1>5. \A x \in NamesOf(next) : Recast(cells, from, next)[x] = Put(rest, name, seen[c.name])[x]
    BY <1>1, <1>3, <1>4 DEF Recast, Put, Restrict
  <1>6. /\ DOMAIN Recast(cells, from, next) = NamesOf(next)
        /\ DOMAIN Put(rest, name, seen[c.name]) = NamesOf(next)
    BY <1>1 DEF Recast, Put, Restrict
  <1>. QED
    BY <1>5, <1>6 DEF Recast, Put

-----------------------------------------------------------------------------
(* The newest snapshot and the one to come: what is visible at the one is  *)
(* visible at the other until a commit makes the difference.               *)

LEMMA LayoutNow ==
  ASSUME last \in Nat, ColumnsKnown, NEW t
  PROVE  /\ Layout(t, last + 1) = Layout(t, last)
         /\ Layout(t, last + 1) = {[id |-> c.id, name |-> c.name] : c \in LiveColumns(t)}
  <1>1. \A c \in columns : /\ VisibleAt(c, last) <=> c.end = NULL
                           /\ VisibleAt(c, last + 1) <=> c.end = NULL
    BY VisibleNow DEF ColumnsKnown
  <1>. QED
    BY <1>1 DEF Layout, ColumnsOf, LiveColumns, Live

LEMMA LayoutsUnambiguous ==
  ASSUME last \in Nat, ColumnsKnown, NEW t, NEW s \in 1..(last + 1)
  PROVE  Unambiguous(Layout(t, s))
  <1>1. ASSUME NEW r \in 1..last PROVE Unambiguous(Layout(t, r))
    BY DEF ColumnsKnown, Unambiguous, Layout, ColumnsOf
  <1>2. CASE last = 0
    <2>1. columns = {}
      BY <1>2 DEF ColumnsKnown, Dates
    <2>. QED
      BY <2>1 DEF Unambiguous, Layout, ColumnsOf
  <1>3. CASE last # 0
    <2>1. s \in 1..last \/ (s = last + 1 /\ last \in 1..last)
      BY <1>3
    <2>. QED
      BY <1>1, <2>1, LayoutNow
  <1>. QED
    BY <1>2, <1>3

LEMMA DeletedNow ==
  ASSUME last \in Nat, DeletesKnown, NEW id, NEW p
  PROVE  Deleted(id, p, last + 1) <=> Deleted(id, p, last)
  <1>1. \A d \in deletes : VisibleAt(d, last) <=> VisibleAt(d, last + 1)
    BY VisibleNow DEF DeletesKnown
  <1>. QED
    BY <1>1 DEF Deleted

LEMMA RowsNow ==
  ASSUME last \in Nat, FilesKnown, RowsKnown, TrackersKnown, DeletesKnown, NEW t
  PROVE  RowsAt(t, last + 1) = RowsAt(t, last)
  <1>1. VisibleFiles(t, last + 1) = VisibleFiles(t, last)
    <2>1. \A f \in files : VisibleAt(f, last) <=> VisibleAt(f, last + 1)
      BY VisibleNow DEF FilesKnown
    <2>. QED
      BY <2>1 DEF VisibleFiles
  <1>2. ASSUME NEW f \in files PROVE KeptIn(f, last + 1) = KeptIn(f, last)
    <2>1. \A i \in DOMAIN parquet[f.id] : parquet[f.id][i].origin \in f.begin..last /\ f.begin \in Nat
      BY DEF RowsKnown, FileSound, FileHolds, FilesKnown, Dates
    <2>2. \A i \in DOMAIN parquet[f.id] : /\ parquet[f.id][i].origin <= last
                                          /\ parquet[f.id][i].origin <= last + 1
      BY <2>1
    <2>. QED
      BY <2>2, DeletedNow DEF KeptIn
  <1>3. FiledAt(t, last + 1) = FiledAt(t, last)
    BY <1>1, <1>2 DEF FiledAt, FileRows, VisibleFiles
  <1>4. \A tr \in DOMAIN inlined : \A q \in inlined[tr] : q.origin <= last /\ q.origin <= last + 1
    BY DEF TrackersKnown
  <1>5. WaitingAt(t, last + 1) = WaitingAt(t, last)
    BY <1>4 DEF WaitingAt, Trackers
  <1>. QED
    BY <1>3, <1>5 DEF RowsAt

(* The lake as it is now, by its live tables.                              *)
LEMMA LakeNow ==
  ASSUME HInv
  PROVE  /\ DOMAIN Now = {t.name : t \in Live(tables)}
         /\ \A t, u \in Live(tables) : t.name = u.name => t = u
         /\ \A t \in Live(tables) : Now[t.name] = SeenAt(t.id, last + 1)
         /\ \A n \in DOMAIN Now : /\ last \in 1..last
                                  /\ LiveTable(n) \in Live(tables) /\ LiveTable(n).name = n
                                  /\ LiveTable(n).id \in UsedIds
  <1>. last \in Nat
    BY DEF HInv, Numbered
  <1>1. \A t \in tables : VisibleAt(t, last) <=> t.end = NULL
    BY VisibleNow DEF HInv, TablesKnown
  <1>2. Live(tables) = {t \in tables : VisibleAt(t, last)}
    BY <1>1 DEF Live
  <1>3. CASE last = 0
    <2>1. tables = {} /\ DOMAIN Now = {}
      BY <1>3 DEF HInv, TablesKnown, Dates, Now
    <2>. QED
      BY <2>1 DEF Live
  <1>4. CASE last # 0
    <2>1. last \in 1..last /\ Now = history[last]
      BY <1>4 DEF Now
    <2>2. /\ DOMAIN Now = {t.name : t \in Live(tables)}
          /\ \A t, u \in Live(tables) : t.name = u.name => t = u
      BY <1>2, <2>1 DEF HInv, NamesKnown
    <2>3. ASSUME NEW t \in Live(tables) PROVE Now[t.name] = SeenAt(t.id, last + 1)
      <3>1. Now[t.name] = SeenAt(t.id, last)
        BY <1>2, <2>1 DEF HInv, HistoriesKnown
      <3>. QED
        BY <3>1, LayoutNow, RowsNow DEF HInv, SeenAt
    <2>4. \A n \in DOMAIN Now : LiveTable(n) \in Live(tables) /\ LiveTable(n).name = n
      BY <2>2 DEF LiveTable
    <2>5. \A t \in Live(tables) : t.id \in UsedIds
      BY DEF Live, HInv, TablesKnown
    <2>. QED
      BY <2>1, <2>2, <2>3, <2>4, <2>5
  <1>. QED
    BY <1>3, <1>4

-----------------------------------------------------------------------------
(* What every step keeps, and each part of the invariant under the changes *)
(* that leave it alone or close some of its rows.                          *)

Grows ==
    /\ last \in Nat /\ last' \in {last, last + 1}
    /\ nextId \in Nat \ {0} /\ nextId' \in {nextId, nextId + 1}
    /\ \A s \in 1..last : \A t : Layout(t, s)' = Layout(t, s)

LEMMA GrowingBounds ==
  ASSUME Grows
  PROVE  /\ UsedIds \subseteq UsedIds' /\ 1..last \subseteq 1..last'
         /\ \A r : Dates(r) => Dates(r)'
  <1>0. /\ nextId \in Nat /\ nextId' \in Nat /\ nextId <= nextId'
        /\ last \in Nat /\ last' \in Nat /\ last <= last'
    BY DEF Grows
  <1>1. \A i \in UsedIds : i \in UsedIds'
    BY <1>0 DEF UsedIds
  <1>2. \A s \in 1..last : s \in 1..last'
    BY <1>0
  <1>. QED
    BY <1>1, <1>2 DEF Dates

LEMMA KeptTables ==
  ASSUME Grows, TablesKnown, UNCHANGED tables
  PROVE  TablesKnown'
  <1>1. \A t \in tables :
           TableRow(t) /\ Dates(t)' /\ t.id \in UsedIds' /\ t.name \in TableNames
    BY GrowingBounds DEF TablesKnown
  <1>. QED
    BY <1>1 DEF TablesKnown, TableRow, Dates

(* The columns R close and the columns N open.                             *)
LEMMA EditedColumns ==
  ASSUME Grows, ColumnsKnown, NEW R, NEW N, EditsColumns(R, N),
         last' = last + 1 \/ (UNCHANGED last /\ R = {} /\ N = {}),
         \A c \in N : c.table \in UsedIds' /\ c.id \in Nat /\ c.name \in ColumnNames,
         \A c, d \in (Live(columns) \ R) \cup N :
            c.table = d.table /\ (c.id = d.id \/ c.name = d.name) => c = d
  PROVE  /\ ColumnsKnown'
         /\ last' = last + 1 => {c \in columns' : VisibleAt(c, last + 1)} = (Live(columns) \ R) \cup N
  <1>. DEFINE Closed(c) == [c EXCEPT !.end = last + 1]
  <1>. last \in Nat
    BY DEF Grows
  <1>1. columns' = (columns \ R) \cup {Closed(c) : c \in R} \cup N
    BY DEF EditsColumns, Close
  <1>2. ASSUME NEW c \in R
        PROVE  /\ c \in columns /\ c.end = NULL
               /\ ColumnRow(Closed(c)) /\ Closed(c).table = c.table /\ Closed(c).id = c.id
               /\ Closed(c).name = c.name /\ Closed(c).begin = c.begin
               /\ Closed(c).end = last + 1
    <2>1. c \in columns /\ c.end = NULL /\ ColumnRow(c)
      BY DEF EditsColumns, Live, ColumnsKnown
    <2>. QED
      BY <2>1 DEF ColumnRow
  <1>. HIDE DEF Closed
  <1>3. ASSUME NEW d \in columns'
        PROVE  /\ ColumnRow(d) /\ Dates(d)'
               /\ d.table \in UsedIds' /\ d.id \in Nat /\ d.name \in ColumnNames
    <2>1. CASE d \in columns
      BY <2>1, GrowingBounds DEF ColumnsKnown
    <2>2. CASE d \in N
      BY <2>2, GrowingBounds DEF EditsColumns, Dates
    <2>3. ASSUME NEW c \in R, d = Closed(c)
          PROVE  /\ ColumnRow(d) /\ Dates(d)'
                 /\ d.table \in UsedIds' /\ d.id \in Nat /\ d.name \in ColumnNames
      <3>1. /\ c \in columns /\ Dates(c) /\ c.table \in UsedIds
            /\ c.id \in Nat /\ c.name \in ColumnNames
        BY <1>2 DEF ColumnsKnown
      <3>2. last' = last + 1
        BY <2>3
      <3>. QED
        BY <1>2, <2>3, <3>1, <3>2, GrowingBounds DEF Dates
    <2>. QED
      BY <1>1, <2>1, <2>2, <2>3
  (* At a snapshot of the past a visible column continues one column.      *)
  <1>4. ASSUME NEW s \in 1..last, NEW d \in columns', VisibleAt(d, s)
        PROVE  \E c \in columns : /\ VisibleAt(c, s) /\ d = (IF c \in R THEN Closed(c) ELSE c)
                                  /\ d.table = c.table /\ d.id = c.id /\ d.name = c.name
    <2>1. d \notin N
      BY <1>4 DEF EditsColumns, VisibleAt
    <2>2. ASSUME NEW c \in R, d = Closed(c) PROVE VisibleAt(c, s)
      <3>1. c.begin = d.begin /\ c.end = NULL
        BY <1>2, <2>2
      <3>. QED
        BY <1>4, <3>1 DEF VisibleAt
    <2>. QED
      BY <1>1, <1>2, <1>4, <2>1, <2>2
  <1>5. ASSUME NEW s \in 1..last, NEW c \in columns', NEW d \in columns',
               VisibleAt(c, s), VisibleAt(d, s), c.table = d.table, c.id = d.id \/ c.name = d.name
        PROVE  c = d
    <2>1. PICK e \in columns : /\ VisibleAt(e, s) /\ c = (IF e \in R THEN Closed(e) ELSE e)
                               /\ c.table = e.table /\ c.id = e.id /\ c.name = e.name
      BY <1>4, <1>5
    <2>2. PICK f \in columns : /\ VisibleAt(f, s) /\ d = (IF f \in R THEN Closed(f) ELSE f)
                               /\ d.table = f.table /\ d.id = f.id /\ d.name = f.name
      BY <1>4, <1>5
    <2>3. e = f
      BY <1>5, <2>1, <2>2 DEF ColumnsKnown
    <2>. QED
      BY <2>1, <2>2, <2>3
  (* At the new one it is live.                                            *)
  <1>6. ASSUME NEW d \in columns', VisibleAt(d, last + 1), last' = last + 1
        PROVE  d \in (Live(columns) \ R) \cup N
    <2>1. CASE d \in columns \ R
      <3>1. Dates(d)
        BY <2>1 DEF ColumnsKnown
      <3>. QED
        BY <1>6, <2>1, <3>1, VisibleNow DEF Live
    <2>2. ASSUME NEW c \in R, d = Closed(c) PROVE FALSE
      <3>1. d.end = last + 1
        BY <1>2, <2>2
      <3>. QED
        BY <1>6, <3>1, MarkersAreNotValues DEF VisibleAt
    <2>. QED
      BY <1>1, <2>1, <2>2
  <1>7. \A s \in 1..last' : s \in 1..last \/ (s = last + 1 /\ last' = last + 1)
    OBVIOUS
  <1>8. ColumnsKnown'
    BY <1>3, <1>5, <1>6, <1>7 DEF ColumnsKnown, VisibleAt, Dates, ColumnRow
  <1>9. \A c \in (Live(columns) \ R) \cup N : c \in columns' /\ VisibleAt(c, last + 1)
    <2>1. ASSUME NEW c \in Live(columns) PROVE c \in columns /\ VisibleAt(c, last + 1)
      BY VisibleNow DEF Live, ColumnsKnown
    <2>2. \A c \in N : VisibleAt(c, last + 1)
      BY DEF EditsColumns, VisibleAt
    <2>. QED
      BY <1>1, <2>1, <2>2
  <1>. QED
    BY <1>6, <1>8, <1>9

LEMMA KeptColumns ==
  ASSUME Grows, ColumnsKnown, UNCHANGED columns
  PROVE  ColumnsKnown' /\ \A s \in 1..(last + 1) : \A t : Layout(t, s)' = Layout(t, s)
  <1>. last \in Nat
    BY DEF Grows
  <1>1. EditsColumns({}, {})
    BY SameColumns
  <1>2. ASSUME NEW c \in Live(columns), NEW d \in Live(columns),
               c.table = d.table, c.id = d.id \/ c.name = d.name
        PROVE  c = d
    <2>1. c \in columns /\ d \in columns /\ Dates(c) /\ Dates(d) /\ c.end = NULL /\ d.end = NULL
      BY DEF Live, ColumnsKnown
    <2>2. VisibleAt(c, last) /\ VisibleAt(d, last) /\ last \in 1..last
      BY <2>1, VisibleNow DEF Dates
    <2>. QED
      BY <1>2, <2>1, <2>2 DEF ColumnsKnown
  <1>3. ColumnsKnown'
    BY <1>1, <1>2, EditedColumns DEF Grows
  <1>4. \A s, t : Layout(t, s)' = Layout(t, s)
    BY DEF Layout, ColumnsOf, VisibleAt
  <1>. QED
    BY <1>3, <1>4


(* Files: one may be closed, and stays otherwise what it was.              *)

Continues(g, f) ==
    /\ DataRow(g) /\ g.id = f.id /\ g.table = f.table
    /\ g.begin = f.begin /\ g.partialMax = f.partialMax

SameParquet == \A f \in files : f.id \in DOMAIN parquet' /\ parquet'[f.id] = parquet[f.id]

LEMMA FileGoesOn ==
  ASSUME Grows, FilesKnown, RowsKnown, NEW f \in files, NEW g, Continues(g, f), SameParquet
  PROVE  g.id \in UsedIds' /\ g.table \in UsedIds' /\ FileSound(g)'
  <1>1. parquet'[g.id] = parquet[f.id] /\ g.id \in DOMAIN parquet'
    BY DEF Continues, SameParquet
  <1>2. g.id \in UsedIds' /\ g.table \in UsedIds'
    BY GrowingBounds DEF Continues, FilesKnown
  <1>3. ASSUME NEW r, FileHolds(f, r) PROVE FileHolds(g, r)'
    <2>1. f.begin \in 1..last /\ last \in Nat
      BY DEF FilesKnown, Dates, Grows
    <2>2. r.origin \in f.begin..last
      BY <1>3 DEF FileHolds
    <2>3. r.origin \in 1..last /\ r.origin \in f.begin..last'
      BY <2>1, <2>2 DEF Grows
    <2>4. /\ Layout(f.table, r.origin)' = Layout(f.table, r.origin)
          /\ Layout(f.table, f.begin)' = Layout(f.table, f.begin)
      BY <2>1, <2>3 DEF Grows
    <2>5. r.key[1] \in UsedIds' /\ (f.partialMax \in 1..last => f.partialMax \in 1..last')
      BY <1>3, GrowingBounds DEF FileHolds
    <2>. QED
      BY <1>3, <2>3, <2>4, <2>5 DEF FileHolds, Continues
  <1>4. FileSound(f)
    BY DEF RowsKnown
  <1>5. FileSound(g)'
    BY <1>1, <1>3, <1>4 DEF FileSound
  <1>. QED
    BY <1>2, <1>5

(* The files R close, if any.                                              *)
LEMMA ClosedFiles ==
  ASSUME Grows, FilesKnown, RowsKnown, IsFiniteSet(files), SameParquet,
         NEW R \in SUBSET Live(files), files' = Close(files, R, last + 1),
         last' = last + 1 \/ R = {}
  PROVE  /\ \A f \in files \ R : f \in files' /\ Continues(f, f)
         /\ \A f \in R : \E g \in files' : Continues(g, f) /\ g.end = last + 1
         /\ \A g \in files' : \/ g \in files \ R /\ Continues(g, g)
                              \/ \E f \in R : Continues(g, f) /\ g.end = last + 1
         /\ FilesKnown' /\ RowsKnown' /\ IsFiniteSet(files')
  <1>. DEFINE Closed(f) == [f EXCEPT !.end = last + 1]
  <1>. last \in Nat
    BY DEF Grows
  <1>1. files' = (files \ R) \cup {Closed(f) : f \in R}
    BY DEF Close
  <1>2. IsFiniteSet(files')
    <2>1. IsFiniteSet(files \ R) /\ IsFiniteSet(R)
      BY FS_Subset DEF Live
    <2>. DEFINE close == [f \in R |-> Closed(f)]
                ended == {close[f] : f \in R}
    <2>2. ended = {Closed(f) : f \in R} /\ DOMAIN close = R
      OBVIOUS
    <2>3. files' = (files \ R) \cup ended
      BY <1>1, <2>2
    <2>4. IsFiniteSet(ended)
      <3>. HIDE DEF close
      <3>. QED
        BY <2>1, <2>2, FiniteImage
    <2>. HIDE DEF ended
    <2>. QED
      BY <2>1, <2>3, <2>4, FS_Union
  <1>3. ASSUME NEW f \in R
        PROVE  /\ f \in files /\ Continues(Closed(f), f) /\ Closed(f).end = last + 1
    <2>1. f \in files /\ DataRow(f)
      BY DEF Live, FilesKnown
    <2>. QED
      BY <2>1, EndedFile DEF Continues
  <1>. HIDE DEF Closed
  <1>4. \A f \in files : Continues(f, f)
    BY DEF Continues, FilesKnown
  <1>5. ASSUME NEW g \in files'
        PROVE  \E f \in files : Continues(g, f) /\ g = (IF f \in R THEN Closed(f) ELSE f)
    BY <1>1, <1>3, <1>4
  <1>6. ASSUME NEW g \in files' PROVE DataRow(g) /\ Dates(g)'
    <2>1. PICK f \in files : Continues(g, f) /\ g = (IF f \in R THEN Closed(f) ELSE f)
      BY <1>5
    <2>2. Dates(f) /\ DataRow(g) /\ g.begin = f.begin
      BY <2>1 DEF Continues, FilesKnown
    <2>3. CASE f \in R
      <3>1. g.end = last + 1 /\ last' = last + 1
        BY <1>3, <2>1, <2>3
      <3>. QED
        BY <2>2, <3>1, GrowingBounds DEF Dates
    <2>4. CASE f \notin R
      BY <2>1, <2>2, <2>4, GrowingBounds
    <2>. QED
      BY <2>3, <2>4
  <1>7. \A f, g \in files' : f.id = g.id => f = g
    <2>. SUFFICES ASSUME NEW f \in files', NEW g \in files', f.id = g.id PROVE f = g
      OBVIOUS
    <2>1. PICK d \in files : Continues(f, d) /\ f = (IF d \in R THEN Closed(d) ELSE d)
      BY <1>5
    <2>2. PICK e \in files : Continues(g, e) /\ g = (IF e \in R THEN Closed(e) ELSE e)
      BY <1>5
    <2>3. d = e
      BY <2>1, <2>2 DEF Continues, FilesKnown
    <2>. QED
      BY <2>1, <2>2, <2>3
  <1>8. \A g \in files' : g.id \in UsedIds' /\ g.table \in UsedIds' /\ FileSound(g)'
    BY <1>5, FileGoesOn
  <1>9. FilesKnown'
    BY <1>6, <1>7, <1>8 DEF FilesKnown, Dates, UsedIds
  <1>10. RowsKnown'
    BY <1>8 DEF RowsKnown
  <1>. QED
    BY <1>1, <1>2, <1>3, <1>4, <1>9, <1>10

(* A file is written; others may go.                                       *)
LEMMA WrittenFile ==
  ASSUME Grows, FilesKnown, RowsKnown, IsFiniteSet(files),
         NEW m, NEW rows, files' \subseteq files \cup {m}, parquet' = Put(parquet, nextId, rows),
         DataRow(m), m.id = nextId, nextId' = nextId + 1, Dates(m)', m.table \in UsedIds',
         Len(rows) \in Nat \ {0}, DOMAIN rows = 1..Len(rows),
         \A r \in {rows[i] : i \in DOMAIN rows} : FileHolds(m, r)'
  PROVE  /\ SameParquet /\ parquet'[m.id] = rows
         /\ FilesKnown' /\ RowsKnown' /\ IsFiniteSet(files')
         /\ \A f \in files : f.id # m.id /\ Continues(f, f)
  <1>1. \A f \in files : f.id # nextId /\ Continues(f, f)
    BY DEF FilesKnown, UsedIds, Continues, Grows
  <1>2. SameParquet /\ parquet'[m.id] = rows /\ m.id \in DOMAIN parquet'
    <2>1. \A f \in files : f.id \in DOMAIN parquet
      BY DEF RowsKnown, FileSound
    <2>2. /\ DOMAIN parquet' = DOMAIN parquet \cup {nextId} /\ parquet'[nextId] = rows
          /\ \A x \in DOMAIN parquet : x # nextId => parquet'[x] = parquet[x]
      BY DEF Put
    <2>3. \A f \in files : f.id \in DOMAIN parquet' /\ parquet'[f.id] = parquet[f.id]
      BY <1>1, <2>1, <2>2
    <2>. QED
      BY <2>2, <2>3 DEF SameParquet
  <1>0. FileSound(m)'
    BY <1>2 DEF FileSound
  <1>3. IsFiniteSet(files')
    BY FS_AddElement, FS_Subset
  <1>4. m.id \in UsedIds'
    BY DEF UsedIds, Grows
  <1>5. \A g \in files' : g = m \/ g \in files
    OBVIOUS
  <1>6. \A g \in files' : g.id \in UsedIds' /\ g.table \in UsedIds' /\ FileSound(g)'
    BY <1>0, <1>1, <1>2, <1>4, <1>5, FileGoesOn
  <1>7. \A g \in files' : DataRow(g) /\ Dates(g)'
    BY <1>5, GrowingBounds DEF FilesKnown
  <1>8. \A f, g \in files' : f.id = g.id => f = g
    BY <1>1, <1>5 DEF FilesKnown
  <1>9. FilesKnown'
    BY <1>6, <1>7, <1>8 DEF FilesKnown, Dates, UsedIds
  <1>10. RowsKnown'
    BY <1>6 DEF RowsKnown
  <1>. QED
    BY <1>1, <1>2, <1>3, <1>9, <1>10


LEMMA KeptTrackers ==
  ASSUME Grows, TrackersKnown, UNCHANGED inlined
  PROVE  TrackersKnown'
  <1>. SUFFICES ASSUME NEW tr \in DOMAIN inlined
                PROVE  /\ tr.table \in UsedIds'
                       /\ IsFiniteSet(inlined[tr])
                       /\ \A r \in inlined[tr] :
                             /\ Row(r) /\ r.key[1] \in UsedIds' /\ r.origin \in 1..last'
                             /\ tr.layout = Layout(tr.table, r.origin)'
                             /\ DOMAIN r.cells = NamesOf(tr.layout)
    BY DEF TrackersKnown
  <1>1. tr.table \in UsedIds' /\ IsFiniteSet(inlined[tr])
    BY GrowingBounds DEF TrackersKnown
  <1>2. ASSUME NEW r \in inlined[tr]
        PROVE  /\ Row(r) /\ r.key[1] \in UsedIds' /\ r.origin \in 1..last'
               /\ tr.layout = Layout(tr.table, r.origin)'
               /\ DOMAIN r.cells = NamesOf(tr.layout)
    <2>1. /\ Row(r) /\ r.key[1] \in UsedIds /\ r.origin \in 1..last
          /\ tr.layout = Layout(tr.table, r.origin) /\ DOMAIN r.cells = NamesOf(tr.layout)
      BY DEF TrackersKnown
    <2>2. Layout(tr.table, r.origin)' = Layout(tr.table, r.origin)
      BY <2>1 DEF Grows
    <2>. QED
      BY <2>1, <2>2, GrowingBounds
  <1>. QED
    BY <1>1, <1>2

LEMMA KeptDeletes ==
  ASSUME Grows, DeletesKnown, UNCHANGED <<deletes, posfiles>>,
         \A g \in files' : \/ g.id \notin UsedIds
                           \/ \E f \in files : g.id = f.id /\ g.table = f.table
  PROVE  DeletesKnown' /\ \A id, p, s : Deleted(id, p, s)' <=> Deleted(id, p, s)
  <1>1. \A d \in deletes : /\ DeleteRow(d) /\ Dates(d)' /\ d.file \in UsedIds
                           /\ d.file \in UsedIds' /\ d.id \in UsedIds' /\ d.table \in UsedIds'
    BY GrowingBounds DEF DeletesKnown
  <1>2. \A d \in deletes, g \in files' : d.file = g.id => d.table = g.table
    BY <1>1 DEF DeletesKnown
  <1>3. DOMAIN posfiles = {d.id : d \in deletes}
    BY DEF DeletesKnown
  <1>4. DeletesKnown'
    BY <1>1, <1>2, <1>3 DEF DeletesKnown, Dates, UsedIds
  <1>. QED
    BY <1>4 DEF Deleted

LEMMA KeptKeys ==
  ASSUME KeysOnce, UNCHANGED inlined, SameParquet, FilesKnown',
         \A g \in files' : \E f \in files : Continues(g, f)
  PROVE  KeysOnce'
  <1>1. \A g \in files' : \E f \in files : g.id = f.id /\ parquet'[g.id] = parquet[f.id]
    BY DEF Continues, SameParquet
  <1>2. \A f, g \in files' : f.id = g.id => f = g
    BY DEF FilesKnown
  <1>3. \A f, g \in files' : \A i \in DOMAIN parquet'[f.id], j \in DOMAIN parquet'[g.id] :
           parquet'[f.id][i].key = parquet'[g.id][j].key => f = g /\ i = j
    BY <1>1, <1>2 DEF KeysOnce
  <1>4. \A f \in files', tr \in DOMAIN inlined : \A i \in DOMAIN parquet'[f.id], r \in inlined[tr] :
           parquet'[f.id][i].key # r.key
    BY <1>1 DEF KeysOnce
  <1>. QED
    BY <1>3, <1>4 DEF KeysOnce

LEMMA WrittenKeys ==
  ASSUME KeysOnce, SameParquet, NEW m, NEW rows, files' \subseteq files \cup {m},
         parquet'[m.id] = rows, \A f \in files : f.id # m.id,
         \A tr \in DOMAIN inlined' : tr \in DOMAIN inlined /\ inlined'[tr] \subseteq inlined[tr],
         \A i, j \in DOMAIN rows : rows[i].key = rows[j].key => i = j,
         \A f \in files' \cap files : \A i \in DOMAIN parquet[f.id], j \in DOMAIN rows :
            parquet[f.id][i].key # rows[j].key,
         \A tr \in DOMAIN inlined' : \A r \in inlined'[tr], j \in DOMAIN rows : rows[j].key # r.key
  PROVE  KeysOnce'
  <1>1. \A g \in files' : \/ g = m /\ parquet'[g.id] = rows
                          \/ g \in files' \cap files /\ parquet'[g.id] = parquet[g.id]
    BY DEF SameParquet
  <1>2. ASSUME NEW f \in files', NEW g \in files',
               NEW i \in DOMAIN parquet'[f.id], NEW j \in DOMAIN parquet'[g.id],
               parquet'[f.id][i].key = parquet'[g.id][j].key
        PROVE  f = g /\ i = j
    <2>1. CASE f = m /\ g = m
      BY <1>2, <2>1
    <2>2. CASE f # m /\ g # m
      BY <1>1, <1>2, <2>2 DEF KeysOnce
    <2>3. CASE f = m /\ g # m
      BY <1>1, <1>2, <2>3
    <2>4. CASE f # m /\ g = m
      BY <1>1, <1>2, <2>4
    <2>. QED
      BY <2>1, <2>2, <2>3, <2>4
  <1>3. ASSUME NEW f \in files', NEW tr \in DOMAIN inlined',
               NEW i \in DOMAIN parquet'[f.id], NEW r \in inlined'[tr]
        PROVE  parquet'[f.id][i].key # r.key
    BY <1>1 DEF KeysOnce
  <1>4. \A tr, ur \in DOMAIN inlined' : \A q \in inlined'[tr], r \in inlined'[ur] :
           q.key = r.key => tr = ur /\ q = r
    BY DEF KeysOnce
  <1>. QED
    BY <1>2, <1>3, <1>4 DEF KeysOnce

-----------------------------------------------------------------------------
(* The rows of a table where no file of it is written, closed or edited.   *)

LEMMA SameFileRows ==
  ASSUME NEW f, NEW g, NEW s, Continues(g, f), parquet'[f.id] = parquet[f.id],
         \A p : Deleted(f.id, p, s)' <=> Deleted(f.id, p, s),
         Layout(f.table, f.begin)' = Layout(f.table, f.begin)
  PROVE  FileRows(g, s)' = FileRows(f, s)
  <1>1. /\ g.id = f.id /\ g.table = f.table /\ g.begin = f.begin /\ parquet'[g.id] = parquet[g.id]
    BY DEF Continues
  <1>2. KeptIn(g, s)' = KeptIn(f, s)
    BY <1>1 DEF KeptIn
  <1>3. \A i : StoredRow(g, i)' = StoredRow(f, i)
    BY <1>1 DEF StoredRow
  <1>. QED
    BY <1>2, <1>3 DEF FileRows

LEMMA SameFiled ==
  ASSUME NEW t, NEW s, FilesKnown, Grows, SameParquet,
         \A f \in files : f.table = t /\ VisibleAt(f, s) =>
            /\ \E g \in files' : Continues(g, f) /\ VisibleAt(g, s)
            /\ \A p : Deleted(f.id, p, s)' <=> Deleted(f.id, p, s),
         \A g \in files' : g.table = t /\ VisibleAt(g, s) =>
            \E f \in files : Continues(g, f) /\ VisibleAt(f, s)
  PROVE  FiledAt(t, s)' = FiledAt(t, s)
  <1>1. ASSUME NEW f \in files, NEW g \in files', Continues(g, f), f.table = t, VisibleAt(f, s)
        PROVE  FileRows(g, s)' = FileRows(f, s)
    <2>1. f.begin \in 1..last
      BY DEF FilesKnown, Dates
    <2>2. Layout(f.table, f.begin)' = Layout(f.table, f.begin)
      BY <2>1 DEF Grows
    <2>. QED
      BY <1>1, <2>2, SameFileRows DEF SameParquet
  <1>2. ASSUME NEW f \in VisibleFiles(t, s)
        PROVE  \E g \in VisibleFiles(t, s)' : FileRows(g, s)' = FileRows(f, s)
    BY <1>1, <1>2 DEF VisibleFiles, Continues
  <1>3. ASSUME NEW g \in VisibleFiles(t, s)'
        PROVE  \E f \in VisibleFiles(t, s) : FileRows(g, s)' = FileRows(f, s)
    BY <1>1, <1>3 DEF VisibleFiles, Continues
  <1>. QED
    BY <1>2, <1>3 DEF FiledAt

LEMMA SameSeen ==
  ASSUME NEW t, NEW s, FiledAt(t, s)' = FiledAt(t, s), WaitingAt(t, s)' = WaitingAt(t, s),
         Layout(t, s)' = Layout(t, s)
  PROVE  SeenAt(t, s)' = SeenAt(t, s)
  BY DEF SeenAt, RowsAt

LEMMA SameWaiting ==
  ASSUME UNCHANGED inlined, NEW t, NEW s
  PROVE  WaitingAt(t, s)' = WaitingAt(t, s)
  BY DEF WaitingAt, Trackers, WaitingRow

(* A commit that keeps the past, and whose contents are what its rows say. *)
LEMMA HistoriesGoOn ==
  ASSUME Numbered, HistoriesKnown, NEW now, Record(now),
         \A s \in 1..last : \A t : SeenAt(t, s)' = SeenAt(t, s),
         \A u \in tables', s \in 1..last :
            VisibleAt(u, s) => \E t \in tables : VisibleAt(t, s) /\ t.id = u.id /\ t.name = u.name,
         \A u \in tables' : \A s :
            s = last + 1 /\ VisibleAt(u, s) => now[u.name] = SeenAt(u.id, s)'
  PROVE  HistoriesKnown'
  <1>. SUFFICES ASSUME NEW s \in 1..last', NEW u \in tables', VisibleAt(u, s)
                PROVE  history'[s][u.name] = SeenAt(u.id, s)'
    BY DEF HistoriesKnown
  <1>1. CASE s \in 1..last
    BY <1>1, RecordKeeps DEF HistoriesKnown
  <1>2. CASE s = last + 1
    BY <1>2, RecordKeeps
  <1>. QED
    BY <1>1, <1>2, RecordKeeps

LEMMA KeptNames ==
  ASSUME HInv, NEW now, Record(now), DOMAIN now = DOMAIN Now, UNCHANGED tables
  PROVE  NamesKnown'
  <1>. SUFFICES ASSUME NEW s \in 1..last'
                PROVE  /\ DOMAIN history'[s] = {t.name : t \in {u \in tables : VisibleAt(u, s)}}
                       /\ \A t, u \in tables :
                             VisibleAt(t, s) /\ VisibleAt(u, s) /\ t.name = u.name => t = u
    BY DEF NamesKnown
  <1>1. CASE s \in 1..last
    BY <1>1, RecordKeeps DEF HInv, NamesKnown
  <1>2. CASE s = last + 1
    <2>1. last \in Nat /\ \A t \in tables : VisibleAt(t, last + 1) <=> t.end = NULL
      BY VisibleNow DEF HInv, TablesKnown, Numbered
    <2>2. Live(tables) = {t \in tables : VisibleAt(t, s)}
      BY <1>2, <2>1 DEF Live
    <2>. QED
      BY <1>2, <2>2, LakeNow, RecordKeeps DEF HInv
  <1>. QED
    BY <1>1, <1>2, RecordKeeps DEF HInv


LEMMA StepGrows ==
  ASSUME HInv, [CatalogNext]_catalogVars
  PROVE  Grows
  <1>. last \in Nat /\ nextId \in Nat \ {0}
    BY DEF HInv, Numbered, Bounded
  <1>1. Dated
    BY DEF HInv, Dated, ColumnsDated, ColumnsKnown, Dates
  <1>2. SnapshotIds = 1..last
    BY <1>1, DatedStep
  <1>3. \A s \in 1..last : \A t : Layout(t, s)' = Layout(t, s)
    BY <1>1, <1>2, PastIsFixed
  <1>4. last' \in {last, last + 1} /\ nextId' \in {nextId, nextId + 1}
    <2>1. CASE \E n \in TableNames : CreateTable(n)
      BY <2>1 DEF CreateTable, Record
    <2>2. ASSUME NEW n \in DOMAIN Now, TableCommit(n)
          PROVE  last' \in {last, last + 1} /\ nextId' \in {nextId, nextId + 1}
      <3>1. CASE AppendRows(n)
        BY <3>1 DEF AppendRows, Record
      <3>2. CASE DeleteRows(n)
        BY <3>2 DEF DeleteRows, Record
      <3>3. CASE DropFile(n)
        BY <3>3 DEF DropFile, Record
      <3>4. CASE \E name \in ColumnNames : AddColumn(n, name)
        BY <3>4 DEF AddColumn, Record
      <3>5. CASE \E c \in LiveColumns(LiveTable(n).id) :
                    DropColumn(n, c) \/ \E name \in ColumnNames : RenameColumn(n, c, name)
        BY <3>5 DEF DropColumn, RenameColumn, Record
      <3>6. CASE Compact(n)
        BY <3>6 DEF Compact, Record
      <3>7. CASE InlineRow(n)
        BY <3>7 DEF InlineRow, Record
      <3>8. CASE FlushInlined(n)
        BY <3>8 DEF FlushInlined, Record
      <3>9. CASE DropTable(n)
        BY <3>9 DEF DropTable, Record
      <3>. QED
        BY <2>2, <3>1, <3>2, <3>3, <3>4, <3>5, <3>6, <3>7, <3>8, <3>9 DEF TableCommit
    <2>3. CASE Cleanup
      BY <2>3 DEF Cleanup
    <2>4. CASE UNCHANGED catalogVars
      BY <2>4 DEF catalogVars
    <2>. QED
      BY <2>1, <2>2, <2>3, <2>4 DEF CatalogNext
  <1>. QED
    BY <1>3, <1>4 DEF Grows

-----------------------------------------------------------------------------
(* Commits that change the columns or the tables alone, and clean-up.      *)

(* What the files and the waiting rows hold, when none of them changes.    *)
LEMMA RowsUntouched ==
  ASSUME HInv, Grows, UNCHANGED <<files, deletes, inlined, posfiles>>, SameParquet
  PROVE  /\ FilesKnown' /\ RowsKnown' /\ TrackersKnown' /\ KeysOnce' /\ DeletesKnown'
         /\ IsFiniteSet(files')
         /\ \A t, s : RowsAt(t, s)' = RowsAt(t, s)
         /\ \A t, s : s \in 1..last => SeenAt(t, s)' = SeenAt(t, s)
  <1>1. files' = Close(files, {}, last + 1)
    BY DEF Close
  <1>2. FilesKnown' /\ RowsKnown' /\ IsFiniteSet(files') /\ \A f \in files : Continues(f, f)
    BY <1>1, ClosedFiles DEF HInv, Bounded
  <1>3. TrackersKnown'
    BY KeptTrackers DEF HInv
  <1>4. DeletesKnown' /\ \A id, p, s : Deleted(id, p, s)' <=> Deleted(id, p, s)
    BY KeptDeletes DEF HInv
  <1>5. KeysOnce'
    BY <1>2, KeptKeys DEF HInv
  <1>6. \A t, s : FiledAt(t, s)' = FiledAt(t, s)
    BY <1>2, <1>4, SameFiled DEF HInv
  <1>7. \A t, s : WaitingAt(t, s)' = WaitingAt(t, s)
    BY SameWaiting
  <1>8. \A t, s : RowsAt(t, s)' = RowsAt(t, s)
    BY <1>6, <1>7 DEF RowsAt
  <1>9. \A t, s : s \in 1..last => SeenAt(t, s)' = SeenAt(t, s)
    BY <1>6, <1>7, SameSeen DEF Grows
  <1>. QED
    BY <1>2, <1>3, <1>4, <1>5, <1>8, <1>9

(* No commit: at most a Parquet file that nothing names is removed.        *)
LEMMA HQuiet ==
  ASSUME HInv, Grows, Cleanup \/ UNCHANGED catalogVars
  PROVE  HInv'
  <1>1. UNCHANGED <<last, tables, columns, files, deletes, inlined, posfiles, nextId, history>>
    BY DEF Cleanup, catalogVars
  <1>2. SameParquet
    <2>1. CASE Cleanup
      <3>1. PICK id \in DOMAIN parquet \ {f.id : f \in files} :
               parquet' = Restrict(parquet, DOMAIN parquet \ {id})
        BY <2>1 DEF Cleanup
      <3>2. \A f \in files : f.id \in DOMAIN parquet \ {id}
        BY DEF HInv, RowsKnown, FileSound
      <3>. QED
        BY <3>1, <3>2 DEF SameParquet, Restrict
    <2>2. CASE UNCHANGED catalogVars
      BY <2>2 DEF SameParquet, catalogVars, HInv, RowsKnown, FileSound
    <2>. QED
      BY <2>1, <2>2
  <1>3. /\ FilesKnown' /\ RowsKnown' /\ TrackersKnown' /\ KeysOnce' /\ DeletesKnown'
        /\ \A t, s : s \in 1..last => SeenAt(t, s)' = SeenAt(t, s)
    BY <1>1, <1>2, RowsUntouched
  <1>4. TablesKnown' /\ ColumnsKnown'
    BY <1>1, KeptTables, KeptColumns DEF HInv
  <1>5. Numbered' /\ Bounded' /\ NamesKnown' /\ TablesHaveColumns'
    BY <1>1 DEF HInv, Numbered, Bounded, NamesKnown, TablesHaveColumns
  <1>6. HistoriesKnown'
    BY <1>1, <1>3 DEF HInv, HistoriesKnown
  <1>. QED
    BY <1>3, <1>4, <1>5, <1>6 DEF HInv


LEMMA HCreateTable ==
  ASSUME HInv, Grows, NEW n \in TableNames, CreateTable(n)
  PROVE  HInv'
  <1>. last \in Nat /\ nextId \in Nat \ {0}
    BY DEF Grows
  <1>a. PICK t : t = [id |-> nextId, name |-> n, begin |-> last + 1, end |-> NULL]
    OBVIOUS
  <1>b. PICK N : N = {[table |-> nextId, id |-> i, name |-> InitialColumns[i],
                       begin |-> last + 1, end |-> NULL] : i \in DOMAIN InitialColumns}
    OBVIOUS
  <1>c. PICK now : now = Put(Now, n, {})
    OBVIOUS
  <1>1. /\ n \notin DOMAIN Now /\ tables' = tables \cup {t} /\ columns' = columns \cup N
        /\ nextId' = nextId + 1 /\ Record(now)
        /\ UNCHANGED <<files, deletes, inlined, parquet, posfiles>>
    BY <1>a, <1>b, <1>c DEF CreateTable
  <1>2. /\ TableRow(t) /\ t.id = nextId /\ t.name = n /\ t.begin = last + 1 /\ t.end = NULL
        /\ nextId \in UsedIds'
    BY <1>1, <1>a DEF TableRow, UsedIds
  <1>3. DOMAIN InitialColumns = 1..Len(InitialColumns) /\ Len(InitialColumns) \in Nat \ {0}
    BY CatalogAssumption, LenProperties
  <1>4. /\ N # {} /\ IsFiniteSet(N)
        /\ \A c \in N : /\ ColumnRow(c) /\ c.begin = last + 1 /\ c.end = NULL
                        /\ c.table = nextId /\ c.id \in Nat /\ c.name \in ColumnNames
        /\ \A c, d \in N : c.id = d.id \/ c.name = d.name => c = d
    <2>. DEFINE column(i) == [table |-> nextId, id |-> i, name |-> InitialColumns[i],
                              begin |-> last + 1, end |-> NULL]
    <2>1. \A i \in DOMAIN InitialColumns :
             /\ ColumnRow(column(i)) /\ column(i).begin = last + 1 /\ column(i).end = NULL
             /\ column(i).table = nextId /\ column(i).id = i
             /\ column(i).name = InitialColumns[i] /\ InitialColumns[i] \in ColumnNames
      BY CatalogAssumption, ElementOfSeq, <1>3 DEF ColumnRow
    <2>2. \A i, j \in DOMAIN InitialColumns : InitialColumns[i] = InitialColumns[j] => i = j
      BY CatalogAssumption DEF IsInjective
    <2>3. N = {column(i) : i \in DOMAIN InitialColumns}
      BY <1>b
    <2>4. IsFiniteSet(N)
      <3>. DEFINE made == [i \in DOMAIN InitialColumns |-> column(i)]
      <3>1. N = {made[i] : i \in DOMAIN InitialColumns} /\ DOMAIN made = DOMAIN InitialColumns
        BY <2>3
      <3>2. IsFiniteSet(DOMAIN InitialColumns)
        BY <1>3, FS_Interval
      <3>. HIDE DEF made
      <3>. QED
        BY <3>1, <3>2, FiniteImage
    <2>5. 1 \in DOMAIN InitialColumns /\ DOMAIN InitialColumns \subseteq Nat
      BY <1>3
    <2>. HIDE DEF column
    <2>6. N # {}
      BY <2>3, <2>5
    <2>7. \A c \in N : /\ ColumnRow(c) /\ c.begin = last + 1 /\ c.end = NULL
                       /\ c.table = nextId /\ c.id \in Nat /\ c.name \in ColumnNames
      BY <2>1, <2>3, <2>5
    <2>8. \A c, d \in N : c.id = d.id \/ c.name = d.name => c = d
      BY <2>1, <2>2, <2>3
    <2>. QED
      BY <2>4, <2>6, <2>7, <2>8
  <1>5. ColumnsKnown' /\ IsFiniteSet(columns') /\ TablesHaveColumns'
    <2>a. PICK R : R = {}
      OBVIOUS
    <2>1. EditsColumns(R, N)
      BY <1>1, <1>4, <2>a DEF EditsColumns, Close
    <2>2. \A c \in Live(columns) : c.table \in UsedIds /\ c.table # nextId /\ c \in columns
      BY DEF Live, HInv, ColumnsKnown, UsedIds
    <2>3. ASSUME NEW c \in Live(columns), NEW d \in Live(columns),
                 c.table = d.table, c.id = d.id \/ c.name = d.name
          PROVE  c = d
      <3>1. c \in columns /\ d \in columns /\ Dates(c) /\ Dates(d) /\ c.end = NULL /\ d.end = NULL
        BY DEF Live, HInv, ColumnsKnown
      <3>2. VisibleAt(c, last) /\ VisibleAt(d, last) /\ last \in 1..last
        BY <3>1, VisibleNow DEF Dates
      <3>. QED
        BY <2>3, <3>1, <3>2 DEF HInv, ColumnsKnown
    <2>4. \A c, d \in (Live(columns) \ R) \cup N :
             c.table = d.table /\ (c.id = d.id \/ c.name = d.name) => c = d
      BY <1>4, <2>2, <2>3
    <2>5. \A c \in N : c.table \in UsedIds' /\ c.id \in Nat /\ c.name \in ColumnNames
      BY <1>2, <1>4
    <2>6. ColumnsKnown'
      <3>1. ColumnsKnown /\ last' = last + 1
        BY <1>1 DEF HInv, Record
      <3>. QED
        BY <2>1, <2>4, <2>5, <3>1, EditedColumns
    <2>7. IsFiniteSet(columns')
      BY <1>1, <1>4, FS_Union DEF HInv, Bounded
    <2>8. TablesHaveColumns'
      BY <1>1, <1>2, <1>4 DEF HInv, TablesHaveColumns
    <2>. QED
      BY <2>6, <2>7, <2>8
  <1>6. TablesKnown'
    <2>1. \A u \in tables : TableRow(u) /\ Dates(u)' /\ u.id \in UsedIds' /\ u.name \in TableNames
                            /\ u.id # nextId
      BY GrowingBounds DEF HInv, TablesKnown, UsedIds
    <2>2. Dates(t)'
      BY <1>1, <1>2 DEF Dates, Record
    <2>. QED
      BY <1>1, <1>2, <2>1, <2>2 DEF HInv, TablesKnown, Dates, UsedIds, TableRow
  <1>7. SameParquet
    BY <1>1 DEF SameParquet, HInv, RowsKnown, FileSound
  <1>8. /\ FilesKnown' /\ RowsKnown' /\ TrackersKnown' /\ KeysOnce' /\ DeletesKnown'
        /\ IsFiniteSet(files') /\ \A u, s : RowsAt(u, s)' = RowsAt(u, s)
        /\ \A u, s : s \in 1..last => SeenAt(u, s)' = SeenAt(u, s)
    BY <1>1, <1>7, RowsUntouched
  <1>9. Numbered' /\ last' = last + 1 /\ \A s \in 1..last' : s \in 1..last \/ s = last + 1
    BY <1>1, RecordKeeps DEF HInv
  <1>10. Bounded'
    <2>1. nextId' \in Nat \ {0} /\ last' <= MaxSnapshot
      BY <1>1, CatalogAssumption DEF Record
    <2>. QED
      BY <1>5, <1>8, <2>1 DEF Bounded
  <1>11. \A s \in 1..last : ~VisibleAt(t, s)
    BY <1>2 DEF VisibleAt
  <1>12. \A u \in tables : VisibleAt(u, last + 1) <=> u.end = NULL
    BY VisibleNow DEF HInv, TablesKnown
  <1>13. VisibleAt(t, last + 1) /\ n \notin {u.name : u \in Live(tables)}
    BY <1>1, <1>2, LakeNow DEF VisibleAt
  <1>14. NamesKnown'
    <2>1. ASSUME NEW s \in 1..last
          PROVE  /\ DOMAIN history'[s] = {u.name : u \in {v \in tables' : VisibleAt(v, s)}}
                 /\ \A u, v \in tables' : VisibleAt(u, s) /\ VisibleAt(v, s) /\ u.name = v.name => u = v
      <3>1. {v \in tables' : VisibleAt(v, s)} = {v \in tables : VisibleAt(v, s)}
        BY <1>1, <1>11
      <3>. QED
        BY <1>1, <3>1, RecordKeeps DEF HInv, NamesKnown
    <2>2. /\ DOMAIN history'[last + 1] = {u.name : u \in {v \in tables' : VisibleAt(v, last + 1)}}
          /\ \A u, v \in tables' :
                VisibleAt(u, last + 1) /\ VisibleAt(v, last + 1) /\ u.name = v.name => u = v
      <3>1. {v \in tables' : VisibleAt(v, last + 1)} = Live(tables) \cup {t}
        BY <1>1, <1>12, <1>13 DEF Live
      <3>2. history'[last + 1] = now /\ DOMAIN now = DOMAIN Now \cup {n}
        BY <1>1, <1>c, RecordKeeps DEF HInv, Put
      <3>3. DOMAIN now = {u.name : u \in Live(tables) \cup {t}}
        BY <1>2, <3>2, LakeNow
      <3>. QED
        BY <1>2, <1>13, <3>1, <3>2, <3>3, LakeNow
    <2>. QED
      BY <1>9, <2>1, <2>2 DEF NamesKnown
  <1>15. HistoriesKnown'
    <2>1. \A u \in tables', s \in 1..last :
             VisibleAt(u, s) => \E v \in tables : VisibleAt(v, s) /\ v.id = u.id /\ v.name = u.name
      BY <1>1, <1>11
    <2>2. ASSUME NEW u \in tables', NEW s, s = last + 1, VisibleAt(u, s)
          PROVE  now[u.name] = SeenAt(u.id, s)'
      <3>1. CASE u = t
        <4>1. now[n] = {}
          BY <1>c DEF Put
        <4>2. \A f \in files : f.table # nextId
          BY DEF HInv, FilesKnown, UsedIds
        <4>3. \A tr \in DOMAIN inlined : tr.table # nextId
          BY DEF HInv, TrackersKnown, UsedIds
        <4>4. RowsAt(nextId, s) = {}
          BY <4>2, <4>3 DEF RowsAt, FiledAt, VisibleFiles, WaitingAt, Trackers
        <4>5. RowsAt(u.id, s)' = {}
          BY <1>2, <1>8, <3>1, <4>4
        <4>. QED
          BY <1>2, <3>1, <4>1, <4>5 DEF SeenAt
      <3>2. CASE u # t
        <4>1. u \in Live(tables) /\ u.name # n
          BY <1>1, <1>12, <1>13, <2>2, <3>2 DEF Live
        <4>2. now[u.name] = SeenAt(u.id, s)
          <5>1. u.name \in DOMAIN Now /\ Now[u.name] = SeenAt(u.id, s)
            BY <2>2, <4>1, LakeNow
          <5>. QED
            BY <1>c, <4>1, <5>1 DEF Put
        <4>3. Layout(u.id, s)' = Layout(u.id, s)
          <5>1. u.id # nextId
            BY <4>1, LakeNow DEF UsedIds, Live, HInv, TablesKnown
          <5>2. {c \in columns' : c.table = u.id} = {c \in columns : c.table = u.id}
            BY <1>1, <1>4, <5>1
          <5>. QED
            BY <5>2 DEF Layout, ColumnsOf
        <4>. QED
          BY <1>8, <4>2, <4>3 DEF SeenAt
      <3>. QED
        BY <3>1, <3>2
    <2>. QED
      BY <1>1, <1>8, <2>1, <2>2, HistoriesGoOn DEF HInv
  <1>. QED
    BY <1>5, <1>6, <1>8, <1>9, <1>10, <1>14, <1>15 DEF HInv


LayoutOf(cols) == {[id |-> c.id, name |-> c.name] : c \in cols}

SeenUnder(t, layout) == {Seen(x, layout) : x \in RowsAt(t, last + 1)}

(* The columns R of a live table close and the columns N open; the commit  *)
(* records the rows as they are seen under the layout this makes.          *)
LEMMA HColumnCommit ==
  ASSUME HInv, Grows, NEW t \in Live(tables), NEW R, NEW N, EditsColumns(R, N), IsFiniteSet(N),
         \A c \in R \cup N : c.table = t.id,
         \A c \in N : c.id \in Nat /\ c.name \in ColumnNames,
         \A c, d \in (LiveColumns(t.id) \ R) \cup N : c.id = d.id \/ c.name = d.name => c = d,
         NEW layout, layout = LayoutOf((LiveColumns(t.id) \ R) \cup N),
         NEW now, now = [Now EXCEPT ![t.name] = SeenUnder(t.id, layout)], Record(now),
         UNCHANGED <<tables, files, deletes, inlined, parquet, posfiles, nextId>>
  PROVE  HInv'
  <1>. last \in Nat /\ last' = last + 1
    BY DEF Grows, Record
  <1>1. Record(now) /\ DOMAIN now = DOMAIN Now
    OBVIOUS
  <1>2. SameParquet
    BY DEF SameParquet, HInv, RowsKnown, FileSound
  <1>3. /\ FilesKnown' /\ RowsKnown' /\ TrackersKnown' /\ KeysOnce' /\ DeletesKnown'
        /\ IsFiniteSet(files')
        /\ \A u, s : RowsAt(u, s)' = RowsAt(u, s)
        /\ \A u, s : s \in 1..last => SeenAt(u, s)' = SeenAt(u, s)
    BY <1>2, RowsUntouched
  <1>4. TablesKnown' /\ NamesKnown' /\ Numbered'
    BY <1>1, KeptTables, KeptNames, RecordKeeps DEF HInv
  <1>5. /\ ColumnsKnown'
        /\ {c \in columns' : VisibleAt(c, last + 1)} = (Live(columns) \ R) \cup N
    <2>1. \A c \in N : c.table \in UsedIds' /\ c.id \in Nat /\ c.name \in ColumnNames
      <3>1. t.id \in UsedIds'
        BY GrowingBounds DEF HInv, TablesKnown, Live
      <3>. QED
        BY <3>1
    <2>2. ASSUME NEW c \in (Live(columns) \ R) \cup N, NEW d \in (Live(columns) \ R) \cup N,
                 c.table = d.table, c.id = d.id \/ c.name = d.name
          PROVE  c = d
      <3>1. CASE c.table = t.id
        BY <2>2, <3>1 DEF LiveColumns
      <3>2. CASE c.table # t.id
        <4>1. c \in Live(columns) /\ d \in Live(columns)
          BY <2>2, <3>2
        <4>2. c \in columns /\ d \in columns /\ Dates(c) /\ Dates(d) /\ c.end = NULL /\ d.end = NULL
          BY <4>1 DEF Live, HInv, ColumnsKnown
        <4>3. VisibleAt(c, last) /\ VisibleAt(d, last) /\ last \in 1..last
          BY <4>2, VisibleNow DEF Dates
        <4>. QED
          BY <2>2, <4>2, <4>3 DEF HInv, ColumnsKnown
      <3>. QED
        BY <3>1, <3>2
    <2>3. ColumnsKnown
      BY DEF HInv
    <2>. QED
      BY <2>1, <2>2, <2>3, EditedColumns
  <1>6. IsFiniteSet(columns') /\ Bounded' /\ TablesHaveColumns'
    <2>. DEFINE close == [c \in R |-> [c EXCEPT !.end = last + 1]]
                ended == {close[c] : c \in R}
    <2>1. R \subseteq columns /\ IsFiniteSet(R) /\ IsFiniteSet(columns \ R)
      BY FS_Subset DEF EditsColumns, Live, HInv, Bounded
    <2>2. columns' = (columns \ R) \cup ended \cup N /\ DOMAIN close = R
      BY DEF EditsColumns, Close
    <2>3. \A c \in R : close[c].table = c.table
      BY <2>1, EndedColumn DEF HInv, ColumnsKnown
    <2>. HIDE DEF close
    <2>4. IsFiniteSet(ended)
      BY <2>1, <2>2, FiniteImage
    <2>5. IsFiniteSet(columns')
      <3>. HIDE DEF ended
      <3>. QED
        BY <2>1, <2>2, <2>4, FS_Union
    <2>6. Bounded'
      <3>1. last' <= MaxSnapshot
        BY CatalogAssumption DEF Record
      <3>. QED
        BY <1>3, <2>5, <3>1 DEF Bounded, HInv
    <2>7. TablesHaveColumns'
      BY <2>2, <2>3 DEF HInv, TablesHaveColumns
    <2>. QED
      BY <2>5, <2>6, <2>7
  <1>7. HistoriesKnown'
    <2>1. ASSUME NEW u \in tables', NEW s, s = last + 1, VisibleAt(u, s)
          PROVE  now[u.name] = SeenAt(u.id, s)'
      <3>1. u \in Live(tables) /\ u \in tables
        BY <2>1, VisibleNow DEF Live, HInv, TablesKnown
      <3>2. Layout(u.id, s)' = {[id |-> c.id, name |-> c.name] :
                                   c \in {d \in (Live(columns) \ R) \cup N : d.table = u.id}}
        BY <1>5, <2>1 DEF Layout, ColumnsOf
      <3>3. u.name \in DOMAIN Now /\ (u.name = t.name => u = t) /\ (u.id = t.id => u = t)
            /\ Now[u.name] = SeenAt(u.id, s)
        BY <2>1, <3>1, LakeNow DEF HInv, TablesKnown, Live
      <3>4. CASE u = t
        <4>1. {d \in (Live(columns) \ R) \cup N : d.table = u.id} = (LiveColumns(t.id) \ R) \cup N
          BY <3>4 DEF LiveColumns
        <4>3. Layout(u.id, s)' = layout
          BY <3>2, <4>1 DEF LayoutOf
        <4>4. SeenUnder(t.id, layout) = {Seen(x, layout) : x \in RowsAt(u.id, s)}
          BY <2>1, <3>4 DEF SeenUnder
        <4>5. now[u.name] = SeenUnder(t.id, layout)
          BY <3>3, <3>4
        <4>. QED
          BY <1>3, <4>3, <4>4, <4>5 DEF SeenAt
      <3>5. CASE u # t
        <4>1. {d \in (Live(columns) \ R) \cup N : d.table = u.id} = LiveColumns(u.id)
          BY <3>3, <3>5 DEF LiveColumns
        <4>2. Layout(u.id, s)' = Layout(u.id, s)
          BY <2>1, <3>2, <4>1, LayoutNow DEF HInv
        <4>3. SeenAt(u.id, s)' = SeenAt(u.id, s)
          BY <1>3, <4>2 DEF SeenAt
        <4>. QED
          BY <3>3, <3>5, <4>3
      <3>. QED
        BY <3>4, <3>5
    <2>. QED
      BY <1>1, <1>3, <2>1, HistoriesGoOn DEF HInv
  <1>. QED
    BY <1>3, <1>4, <1>5, <1>6, <1>7 DEF HInv


LEMMA LiveLayout ==
  ASSUME HInv, NEW t
  PROVE  /\ Layout(t, last + 1) = {[id |-> c.id, name |-> c.name] : c \in LiveColumns(t)}
         /\ Unambiguous(Layout(t, last + 1))
         /\ \A c \in LiveColumns(t) : /\ c \in columns /\ c \in Live(columns) /\ ColumnRow(c)
                                      /\ c.table = t /\ c.end = NULL
                                      /\ c.id \in Nat /\ c.name \in ColumnNames
         /\ \A c, d \in LiveColumns(t) : c.id = d.id \/ c.name = d.name => c = d
  <1>. last \in Nat
    BY DEF HInv, Numbered
  <1>1. Layout(t, last + 1) = {[id |-> c.id, name |-> c.name] : c \in LiveColumns(t)}
    BY LayoutNow DEF HInv
  <1>2. Unambiguous(Layout(t, last + 1))
    BY LayoutsUnambiguous DEF HInv
  <1>3. \A c \in LiveColumns(t) : /\ c \in columns /\ c \in Live(columns) /\ ColumnRow(c) /\ Dates(c)
                                  /\ c.table = t /\ c.end = NULL
                                  /\ c.id \in Nat /\ c.name \in ColumnNames
    BY DEF LiveColumns, Live, HInv, ColumnsKnown
  <1>4. ASSUME NEW c \in LiveColumns(t), NEW d \in LiveColumns(t), c.id = d.id \/ c.name = d.name
        PROVE  c = d
    <2>1. VisibleAt(c, last) /\ VisibleAt(d, last) /\ last \in 1..last
      BY <1>3, VisibleNow DEF Dates
    <2>. QED
      BY <1>3, <1>4, <2>1 DEF HInv, ColumnsKnown
  <1>. QED
    BY <1>1, <1>2, <1>3, <1>4

(* A row lies in columns its table has or had.                             *)
LEMMA RowLayouts ==
  ASSUME HInv, NEW t, NEW s, NEW x \in RowsAt(t, s)
  PROVE  \A c \in x.layout : \E d \in columns : d.table = t /\ d.id = c.id
  <1>1. \A r : \A c \in Layout(t, r) : \E d \in columns : d.table = t /\ d.id = c.id
    BY DEF Layout, ColumnsOf
  <1>2. CASE x \in FiledAt(t, s)
    <2>1. PICK f \in files : \E i : f.table = t /\ x = StoredRow(f, i)
      BY <1>2 DEF FiledAt, FileRows, KeptIn, VisibleFiles
    <2>2. x.layout = Layout(t, f.begin)
      BY <2>1 DEF StoredRow
    <2>. QED
      BY <1>1, <2>2
  <1>3. CASE x \in WaitingAt(t, s)
    <2>1. PICK tr \in DOMAIN inlined : \E r \in inlined[tr] : tr.table = t /\ x = WaitingRow(tr, r)
      BY <1>3 DEF WaitingAt, Trackers
    <2>2. \E r \in inlined[tr] : x.layout = Layout(t, r.origin)
      BY <2>1 DEF WaitingRow, HInv, TrackersKnown
    <2>. QED
      BY <1>1, <2>2
  <1>. QED
    BY <1>2, <1>3 DEF RowsAt

LEMMA HAddColumn ==
  ASSUME HInv, Grows, NEW n \in DOMAIN Now, NEW name \in ColumnNames, AddColumn(n, name)
  PROVE  HInv'
  <1>1. PICK t : t = LiveTable(n)
    OBVIOUS
  <1>2. t \in Live(tables) /\ t.name = n /\ t \in tables
    BY <1>1, LakeNow DEF Live
  <1>. DEFINE taken == {c.id : c \in {d \in columns : d.table = t.id}}
  <1>3. PICK id : id = 1 + Max(taken)
    OBVIOUS
  <1>4. id \in Nat /\ \A c \in columns : c.table = t.id => c.id # id
    <2>1. IsFiniteSet(taken)
      <3>. DEFINE own == {d \in columns : d.table = t.id}
                  number == [c \in own |-> c.id]
      <3>1. IsFiniteSet(own)
        BY FS_Subset DEF HInv, Bounded
      <3>2. {number[c] : c \in own} = taken /\ DOMAIN number = own
        OBVIOUS
      <3>. HIDE DEF own, number
      <3>. QED
        BY <3>1, <3>2, FiniteImage
    <2>2. taken \subseteq Nat /\ taken # {}
      BY <1>2 DEF HInv, ColumnsKnown, TablesHaveColumns
    <2>3. \A c \in columns : c.table = t.id => c.id \in taken
      OBVIOUS
    <2>. HIDE DEF taken
    <2>4. Max(taken) \in taken /\ \A y \in taken : y <= Max(taken)
      BY <2>1, <2>2, MaxIsGreatest
    <2>5. PICK m \in Nat : m = Max(taken)
      BY <2>2, <2>4
    <2>6. id = 1 + m /\ \A y \in taken : y \in Nat /\ y <= m
      BY <1>3, <2>2, <2>4, <2>5
    <2>7. id \in Nat /\ \A y \in taken : y # id
      BY <2>6
    <2>. QED
      BY <2>3, <2>7
  <1>5. PICK d : d = [table |-> t.id, id |-> id, name |-> name, begin |-> last + 1, end |-> NULL]
    OBVIOUS
  <1>6. PICK rows : rows = {[r EXCEPT !.cells = Put(@, name, NULL)] : r \in Now[n]}
    OBVIOUS
  <1>z. PICK lake : lake = [Now EXCEPT ![t.name] = rows]
    OBVIOUS
  <1>7. /\ name \notin {c.name : c \in LiveColumns(t.id)}
        /\ columns' = columns \cup {d}
        /\ Record(lake)
        /\ UNCHANGED <<tables, files, deletes, inlined, parquet, posfiles, nextId>>
    BY <1>1, <1>2, <1>3, <1>5, <1>6, <1>z DEF AddColumn
  <1>8. /\ ColumnRow(d) /\ d.begin = last + 1 /\ d.end = NULL
        /\ d.table = t.id /\ d.id = id /\ d.name = name
    BY <1>5 DEF ColumnRow
  <1>c. PICK R : R = {}
    OBVIOUS
  <1>d. PICK N : N = {d}
    OBVIOUS
  <1>9. EditsColumns(R, N)
    BY <1>7, <1>8, <1>c, <1>d DEF EditsColumns, Close
  <1>10. \A c, e \in (LiveColumns(t.id) \ R) \cup N : c.id = e.id \/ c.name = e.name => c = e
    <2>1. \A c \in LiveColumns(t.id) : c.id # d.id /\ c.name # d.name
      BY <1>4, <1>7, <1>8, LiveLayout
    <2>. QED
      BY <1>c, <1>d, <2>1, LiveLayout
  <1>a. PICK now : now = Layout(t.id, last + 1)
    OBVIOUS
  <1>b. PICK next : next = LayoutOf((LiveColumns(t.id) \ R) \cup N)
    OBVIOUS
  <1>11. rows = SeenUnder(t.id, next)
    <2>1. next = Widened(now, id, name)
      BY <1>8, <1>a, <1>b, <1>c, <1>d, LiveLayout DEF LayoutOf, Widened
    <2>2. name \notin NamesOf(now)
      BY <1>7, <1>a, LiveLayout DEF NamesOf
    <2>3. ASSUME NEW x \in RowsAt(t.id, last + 1)
          PROVE  Recast(x.cells, x.layout, next) = Put(Recast(x.cells, x.layout, now), name, NULL)
      <3>1. \A c \in x.layout \cup now : c.id # id
        <4>1. \A c \in x.layout : c.id # id
          BY <1>4, RowLayouts
        <4>2. \A c \in now : c.id # id
          BY <1>4, <1>a, LiveLayout
        <4>. QED
          BY <4>1, <4>2
      <3>2. Unambiguous(now)
        BY <1>a, LiveLayout
      <3>3. PICK from : from = x.layout
        OBVIOUS
      <3>4. PICK cells : cells = x.cells
        OBVIOUS
      <3>5. \A c \in from \cup now : c.id # id
        BY <3>1, <3>3
      <3>6. Recast(cells, from, next) = Put(Recast(cells, from, now), name, NULL)
        BY <2>1, <2>2, <3>2, <3>5, ColumnAddedToLayout
      <3>. QED
        BY <3>3, <3>4, <3>6
    <2>4. Now[n] = {Seen(x, now) : x \in RowsAt(t.id, last + 1)}
      BY <1>2, <1>a, LakeNow DEF SeenAt
    <2>5. \A x \in RowsAt(t.id, last + 1) :
             [Seen(x, now) EXCEPT !.cells = Put(@, name, NULL)] = Seen(x, next)
      BY <2>3 DEF Seen
    <2>6. rows = {[Seen(x, now) EXCEPT !.cells = Put(@, name, NULL)] : x \in RowsAt(t.id, last + 1)}
      BY <1>6, <2>4
    <2>. QED
      BY <2>5, <2>6 DEF SeenUnder
  <1>12. /\ IsFiniteSet(N) /\ \A e \in R \cup N : e.table = t.id
         /\ \A e \in N : e.id \in Nat /\ e.name \in ColumnNames
    BY <1>4, <1>8, <1>c, <1>d, FS_Singleton
  <1>x. lake = [Now EXCEPT ![t.name] = SeenUnder(t.id, next)]
    BY <1>z, <1>11
  <1>. QED
    BY <1>2, <1>7, <1>9, <1>10, <1>11, <1>12, <1>b, <1>x, HColumnCommit

LEMMA HDropColumn ==
  ASSUME HInv, Grows, NEW n \in DOMAIN Now, NEW c \in LiveColumns(LiveTable(n).id), DropColumn(n, c)
  PROVE  HInv'
  <1>1. PICK t : t = LiveTable(n)
    OBVIOUS
  <1>2. t \in Live(tables) /\ t.name = n /\ c \in LiveColumns(t.id)
    BY <1>1, LakeNow
  <1>3. PICK rows : rows = {[r EXCEPT !.cells = Restrict(@, DOMAIN @ \ {c.name})] : r \in Now[n]}
    OBVIOUS
  <1>z. PICK lake : lake = [Now EXCEPT ![t.name] = rows]
    OBVIOUS
  <1>4. /\ columns' = Close(columns, {c}, last + 1)
        /\ Record(lake)
        /\ UNCHANGED <<tables, files, deletes, inlined, parquet, posfiles, nextId>>
    BY <1>2, <1>3, <1>z DEF DropColumn
  <1>d. PICK R : R = {c}
    OBVIOUS
  <1>e. PICK N : N = {}
    OBVIOUS
  <1>5. EditsColumns(R, N) /\ c.table = t.id
    BY <1>2, <1>4, <1>d, <1>e, LiveLayout DEF EditsColumns
  <1>6. \A d, e \in (LiveColumns(t.id) \ R) \cup N : d.id = e.id \/ d.name = e.name => d = e
    BY <1>e, LiveLayout
  <1>a. PICK now : now = Layout(t.id, last + 1)
    OBVIOUS
  <1>b. PICK next : next = LayoutOf((LiveColumns(t.id) \ R) \cup N)
    OBVIOUS
  <1>c. PICK gone : gone = [id |-> c.id, name |-> c.name]
    OBVIOUS
  <1>7. rows = SeenUnder(t.id, next)
    <2>1. next = Narrowed(now, gone) /\ gone \in now /\ gone.name = c.name
      BY <1>2, <1>a, <1>b, <1>c, <1>d, <1>e, LiveLayout DEF LayoutOf, Narrowed
    <2>2. Unambiguous(now)
      BY <1>a, LiveLayout
    <2>3. Now[n] = {Seen(x, now) : x \in RowsAt(t.id, last + 1)}
      BY <1>2, <1>a, LakeNow DEF SeenAt
    <2>4. ASSUME NEW x \in RowsAt(t.id, last + 1), NEW seen, seen = Recast(x.cells, x.layout, now)
          PROVE  Recast(x.cells, x.layout, next) = Restrict(seen, DOMAIN seen \ {c.name})
      <3>1. PICK from : from = x.layout
        OBVIOUS
      <3>2. PICK cells : cells = x.cells
        OBVIOUS
      <3>3. seen = Recast(cells, from, now)
        BY <2>4, <3>1, <3>2
      <3>4. Recast(cells, from, next) = Restrict(seen, DOMAIN seen \ {gone.name})
        BY <2>1, <2>2, <3>3, ColumnDroppedFromLayout
      <3>. QED
        BY <2>1, <3>1, <3>2, <3>4
    <2>5. \A x \in RowsAt(t.id, last + 1) :
             [Seen(x, now) EXCEPT !.cells = Restrict(@, DOMAIN @ \ {c.name})] = Seen(x, next)
      BY <2>4 DEF Seen
    <2>6. rows = {[Seen(x, now) EXCEPT !.cells = Restrict(@, DOMAIN @ \ {c.name})] :
                     x \in RowsAt(t.id, last + 1)}
      BY <1>3, <2>3
    <2>. QED
      BY <2>5, <2>6 DEF SeenUnder
  <1>8. /\ IsFiniteSet(N) /\ \A e \in R \cup N : e.table = t.id
        /\ \A e \in N : e.id \in Nat /\ e.name \in ColumnNames
    BY <1>5, <1>d, <1>e, FS_EmptySet
  <1>x. lake = [Now EXCEPT ![t.name] = SeenUnder(t.id, next)]
    BY <1>z, <1>7
  <1>. QED
    BY <1>2, <1>4, <1>5, <1>6, <1>7, <1>8, <1>b, <1>x, HColumnCommit

LEMMA HRenameColumn ==
  ASSUME HInv, Grows, NEW n \in DOMAIN Now, NEW c \in LiveColumns(LiveTable(n).id),
         NEW name \in ColumnNames, RenameColumn(n, c, name)
  PROVE  HInv'
  <1>1. PICK t : t = LiveTable(n)
    OBVIOUS
  <1>2. t \in Live(tables) /\ t.name = n /\ c \in LiveColumns(t.id)
    BY <1>1, LakeNow
  <1>3. PICK rows :
           rows = {[r EXCEPT !.cells = Put(Restrict(@, DOMAIN @ \ {c.name}), name, @[c.name])] :
                      r \in Now[n]}
    OBVIOUS
  <1>z. PICK lake : lake = [Now EXCEPT ![t.name] = rows]
    OBVIOUS
  <1>4. PICK d : d = [c EXCEPT !.name = name, !.begin = last + 1]
    OBVIOUS
  <1>5. c.table = t.id /\ ColumnRow(c) /\ c.end = NULL /\ c.id \in Nat /\ c \in Live(columns)
    BY <1>2, LiveLayout
  <1>6. /\ name \notin {e.name : e \in LiveColumns(t.id)}
        /\ columns' = Close(columns, {c}, last + 1) \cup {d}
        /\ Record(lake)
        /\ UNCHANGED <<tables, files, deletes, inlined, parquet, posfiles, nextId>>
    BY <1>2, <1>3, <1>4, <1>5, <1>z DEF RenameColumn
  <1>7. /\ ColumnRow(d) /\ d.begin = last + 1 /\ d.end = NULL
        /\ d.table = t.id /\ d.id = c.id /\ d.name = name
    <2>1. PICK e : e = [c EXCEPT !.name = name]
      OBVIOUS
    <2>2. e = [table |-> c.table, id |-> c.id, name |-> name, begin |-> c.begin, end |-> c.end]
      BY <1>5, <2>1 DEF ColumnRow
    <2>3. d = [e EXCEPT !.begin = last + 1]
      BY <1>4, <1>5, <2>1 DEF ColumnRow
    <2>4. d = [table |-> c.table, id |-> c.id, name |-> name, begin |-> last + 1, end |-> c.end]
      BY <2>2, <2>3
    <2>. QED
      BY <1>5, <2>4 DEF ColumnRow
  <1>d. PICK R : R = {c}
    OBVIOUS
  <1>e. PICK N : N = {d}
    OBVIOUS
  <1>8. EditsColumns(R, N)
    BY <1>5, <1>6, <1>7, <1>d, <1>e DEF EditsColumns
  <1>9. \A e, f \in (LiveColumns(t.id) \ R) \cup N : e.id = f.id \/ e.name = f.name => e = f
    <2>1. \A e \in LiveColumns(t.id) \ {c} : e.id # d.id /\ e.name # d.name
      BY <1>2, <1>6, <1>7, LiveLayout
    <2>. QED
      BY <1>d, <1>e, <2>1, LiveLayout
  <1>a. PICK now : now = Layout(t.id, last + 1)
    OBVIOUS
  <1>b. PICK next : next = LayoutOf((LiveColumns(t.id) \ R) \cup N)
    OBVIOUS
  <1>c. PICK gone : gone = [id |-> c.id, name |-> c.name]
    OBVIOUS
  <1>10. rows = SeenUnder(t.id, next)
    <2>1. next = Renamed(now, gone, name) /\ gone \in now /\ gone.name = c.name
      BY <1>2, <1>7, <1>a, <1>b, <1>c, <1>d, <1>e, LiveLayout
         DEF LayoutOf, Renamed, Widened, Narrowed
    <2>2. Unambiguous(now) /\ name \notin NamesOf(now)
      BY <1>6, <1>a, LiveLayout DEF NamesOf
    <2>3. Now[n] = {Seen(x, now) : x \in RowsAt(t.id, last + 1)}
      BY <1>2, <1>a, LakeNow DEF SeenAt
    <2>4. ASSUME NEW x \in RowsAt(t.id, last + 1), NEW seen, seen = Recast(x.cells, x.layout, now)
          PROVE  Recast(x.cells, x.layout, next)
                    = Put(Restrict(seen, DOMAIN seen \ {c.name}), name, seen[c.name])
      <3>1. PICK from : from = x.layout
        OBVIOUS
      <3>2. PICK cells : cells = x.cells
        OBVIOUS
      <3>3. seen = Recast(cells, from, now)
        BY <2>4, <3>1, <3>2
      <3>4. Recast(cells, from, next)
               = Put(Restrict(seen, DOMAIN seen \ {gone.name}), name, seen[gone.name])
        BY <2>1, <2>2, <3>3, ColumnRenamedInLayout
      <3>. QED
        BY <2>1, <3>1, <3>2, <3>4
    <2>5. \A x \in RowsAt(t.id, last + 1) :
             [Seen(x, now) EXCEPT !.cells = Put(Restrict(@, DOMAIN @ \ {c.name}), name, @[c.name])]
                = Seen(x, next)
      BY <2>4 DEF Seen
    <2>6. rows = {[Seen(x, now) EXCEPT !.cells =
                      Put(Restrict(@, DOMAIN @ \ {c.name}), name, @[c.name])] :
                     x \in RowsAt(t.id, last + 1)}
      BY <1>3, <2>3
    <2>. QED
      BY <2>5, <2>6 DEF SeenUnder
  <1>11. /\ IsFiniteSet(N) /\ \A e \in R \cup N : e.table = t.id
         /\ \A e \in N : e.id \in Nat /\ e.name \in ColumnNames
    BY <1>5, <1>7, <1>d, <1>e, FS_Singleton
  <1>x. lake = [Now EXCEPT ![t.name] = SeenUnder(t.id, next)]
    BY <1>z, <1>10
  <1>. QED
    BY <1>2, <1>5, <1>6, <1>7, <1>8, <1>9, <1>10, <1>11, <1>b, <1>x, HColumnCommit


-----------------------------------------------------------------------------
(* Commits that change the rows of one live table.                         *)

LEMMA HRowsCommit ==
  ASSUME HInv, Grows, NEW t \in Live(tables), NEW now, Record(now),
         DOMAIN now = DOMAIN Now,
         \A n \in DOMAIN Now : n # t.name => now[n] = Now[n],
         \A s : s = last + 1 => now[t.name] = {Seen(x, Layout(t.id, s)) : x \in RowsAt(t.id, s)'},
         UNCHANGED <<tables, columns>>,
         FilesKnown', RowsKnown', IsFiniteSet(files'), TrackersKnown', KeysOnce', DeletesKnown',
         \A u, s : s \in 1..last \/ (s = last + 1 /\ u # t.id) => RowsAt(u, s)' = RowsAt(u, s)
  PROVE  HInv'
  <1>. last \in Nat /\ last' = last + 1
    BY DEF Grows, Record
  <1>1. /\ ColumnsKnown'
        /\ \A s \in 1..(last + 1) : \A u : Layout(u, s)' = Layout(u, s)
    BY KeptColumns DEF HInv
  <1>2. TablesKnown' /\ NamesKnown' /\ Numbered' /\ TablesHaveColumns'
    BY KeptTables, KeptNames, RecordKeeps DEF HInv, TablesHaveColumns
  <1>3. Bounded'
    <2>1. last' <= MaxSnapshot /\ nextId' \in Nat \ {0}
      BY CatalogAssumption DEF Record, Grows
    <2>. QED
      BY <2>1 DEF HInv, Bounded
  <1>4. \A u, s : s \in 1..last \/ (s = last + 1 /\ u # t.id) => SeenAt(u, s)' = SeenAt(u, s)
    <2>1. \A u, s : s \in 1..last \/ s = last + 1 => Layout(u, s)' = Layout(u, s)
      BY <1>1
    <2>. QED
      BY <2>1 DEF SeenAt
  <1>5. ASSUME NEW u \in tables', NEW s, s = last + 1, VisibleAt(u, s)
        PROVE  now[u.name] = SeenAt(u.id, s)'
    <2>1. u \in Live(tables) /\ u \in tables
      BY <1>5, VisibleNow DEF Live, HInv, TablesKnown
    <2>2. u.name \in DOMAIN Now /\ (u.name = t.name => u = t) /\ (u.id = t.id => u = t)
          /\ Now[u.name] = SeenAt(u.id, s)
      BY <1>5, <2>1, LakeNow DEF HInv, TablesKnown, Live
    <2>3. CASE u = t
      <3>1. Layout(t.id, s)' = Layout(t.id, s)
        BY <1>1, <1>5
      <3>. QED
        BY <1>5, <2>3, <3>1 DEF SeenAt
    <2>4. CASE u # t
      BY <1>4, <1>5, <2>2, <2>4
    <2>. QED
      BY <2>3, <2>4
  <1>6. HistoriesKnown'
    <2>1. \A s \in 1..last : \A u : SeenAt(u, s)' = SeenAt(u, s)
      BY <1>4
    <2>2. \A u \in tables', s \in 1..last :
            VisibleAt(u, s) => \E v \in tables : VisibleAt(v, s) /\ v.id = u.id /\ v.name = u.name
      OBVIOUS
    <2>. QED
      BY <1>5, <2>1, <2>2, HistoriesGoOn DEF HInv
  <1>. QED
    BY <1>1, <1>2, <1>3, <1>6 DEF HInv


(* The rows of a file, by key, are in no other file and wait nowhere.      *)
LEMMA KeysApart ==
  ASSUME KeysOnce, NEW f \in files, NEW I, I \subseteq DOMAIN parquet[f.id],
         NEW K, K = {parquet[f.id][i].key : i \in I}
  PROVE  /\ \A g \in files : \A s : g # f => \A x \in FileRows(g, s) : x.key \notin K
         /\ \A t, s : \A x \in WaitingAt(t, s) : x.key \notin K
         /\ \A i \in DOMAIN parquet[f.id] : StoredRow(f, i).key \in K <=> i \in I
  <1>1. ASSUME NEW g \in files, NEW s, g # f, NEW x \in FileRows(g, s)
        PROVE  x.key \notin K
    <2>1. PICK j \in DOMAIN parquet[g.id] : x.key = parquet[g.id][j].key
      BY <1>1 DEF FileRows, KeptIn, StoredRow
    <2>2. \A i \in DOMAIN parquet[f.id] : parquet[f.id][i].key # parquet[g.id][j].key
      BY <1>1 DEF KeysOnce
    <2>. QED
      BY <2>1, <2>2
  <1>2. ASSUME NEW t, NEW s, NEW x \in WaitingAt(t, s)
        PROVE  x.key \notin K
    <2>1. PICK tr \in DOMAIN inlined : \E r \in inlined[tr] : x = WaitingRow(tr, r)
      BY <1>2 DEF WaitingAt, Trackers
    <2>2. PICK r \in inlined[tr] : x = WaitingRow(tr, r)
      BY <2>1
    <2>3. x.key = r.key
      BY <2>2 DEF WaitingRow
    <2>4. \A i \in DOMAIN parquet[f.id] : parquet[f.id][i].key # r.key
      BY DEF KeysOnce
    <2>5. \A k \in K : \E i \in DOMAIN parquet[f.id] : k = parquet[f.id][i].key
      OBVIOUS
    <2>. QED
      BY <2>3, <2>4, <2>5
  <1>3. ASSUME NEW i \in DOMAIN parquet[f.id]
        PROVE  StoredRow(f, i).key \in K <=> i \in I
    BY DEF KeysOnce, StoredRow
  <1>. QED
    BY <1>1, <1>2, <1>3

(* The files R of a table leave it: the past and the other tables keep     *)
(* their rows.                                                             *)
LEMMA FilesLeave ==
  ASSUME HInv, Grows, NEW R \in SUBSET Live(files), files' = Close(files, R, last + 1),
         last' = last + 1, UNCHANGED <<deletes, inlined, parquet, posfiles>>,
         NEW id, \A f \in R : f.table = id
  PROVE  /\ \A g \in files \ R : g \in files' /\ Continues(g, g)
         /\ \A h \in files' : \/ h \in files \ R
                              \/ \E g \in R : Continues(h, g) /\ h.end = last + 1
         /\ FilesKnown' /\ RowsKnown' /\ IsFiniteSet(files')
         /\ TrackersKnown' /\ KeysOnce' /\ DeletesKnown'
         /\ \A i, p, s : Deleted(i, p, s)' <=> Deleted(i, p, s)
         /\ \A u, s : WaitingAt(u, s)' = WaitingAt(u, s)
         /\ \A u, s : s \in 1..last \/ (s = last + 1 /\ u # id) => RowsAt(u, s)' = RowsAt(u, s)
  <1>. last \in Nat
    BY DEF Grows
  <1>1. \A g \in R : g \in files /\ g.end = NULL
    BY DEF Live
  <1>2. SameParquet
    BY DEF SameParquet, HInv, RowsKnown, FileSound
  <1>3. /\ \A g \in files \ R : g \in files' /\ Continues(g, g)
        /\ \A g \in R : \E h \in files' : Continues(h, g) /\ h.end = last + 1
        /\ \A h \in files' : \/ h \in files \ R /\ Continues(h, h)
                             \/ \E g \in R : Continues(h, g) /\ h.end = last + 1
        /\ FilesKnown' /\ RowsKnown' /\ IsFiniteSet(files')
    BY <1>2, ClosedFiles DEF HInv, Bounded
  <1>4. \A h \in files' : \E g \in files : Continues(h, g)
    BY <1>1, <1>3
  <1>5. TrackersKnown' /\ KeysOnce'
    BY <1>2, <1>3, <1>4, KeptTrackers, KeptKeys DEF HInv
  <1>6. DeletesKnown' /\ \A i, p, s : Deleted(i, p, s)' <=> Deleted(i, p, s)
    BY <1>4, KeptDeletes DEF HInv, Continues
  <1>7. \A u, s : WaitingAt(u, s)' = WaitingAt(u, s)
    BY SameWaiting
  <1>8. ASSUME NEW u, NEW s, s \in 1..last \/ (s = last + 1 /\ u # id)
         PROVE  RowsAt(u, s)' = RowsAt(u, s)
    <2>1. ASSUME NEW g \in files, g.table = u, VisibleAt(g, s)
          PROVE  \E h \in files' : Continues(h, g) /\ VisibleAt(h, s)
      <3>1. CASE g \notin R
        BY <1>3, <2>1, <3>1
      <3>2. CASE g \in R
        <4>1. s \in 1..last /\ g.end = NULL
          BY <1>8, <1>1, <2>1, <3>2
        <4>2. PICK h \in files' : Continues(h, g) /\ h.end = last + 1
          BY <1>3, <3>2
        <4>3. h.begin = g.begin
          BY <4>2 DEF Continues
        <4>. QED
          BY <2>1, <4>1, <4>2, <4>3, ClosedRow
      <3>. QED
        BY <3>1, <3>2
    <2>2. ASSUME NEW h \in files', h.table = u, VisibleAt(h, s)
          PROVE  \E g \in files : Continues(h, g) /\ VisibleAt(g, s)
      <3>1. CASE h \in files \ R /\ Continues(h, h)
        BY <2>2, <3>1
      <3>2. CASE \E g \in R : Continues(h, g) /\ h.end = last + 1
        <4>1. PICK g \in R : Continues(h, g) /\ h.end = last + 1
          BY <3>2
        <4>2. g \in files /\ g.end = NULL /\ h.begin = g.begin /\ h.table = g.table /\ g.table = id
          BY <1>1, <4>1 DEF Continues
        <4>3. s \in 1..last
          BY <1>8, <2>2, <4>2
        <4>. QED
          BY <2>2, <4>1, <4>2, <4>3, ClosedRow
      <3>. QED
        BY <1>3, <3>1, <3>2
    <2>3. FiledAt(u, s)' = FiledAt(u, s)
      BY <1>2, <1>6, <2>1, <2>2, SameFiled DEF HInv
    <2>. QED
      BY <1>7, <2>3 DEF RowsAt
  <1>. QED
    BY <1>3, <1>5, <1>6, <1>7, <1>8

LEMMA HDropFile ==
  ASSUME HInv, Grows, NEW n \in DOMAIN Now, DropFile(n)
  PROVE  HInv'
  <1>. last \in Nat
    BY DEF Grows
  <1>a. PICK t : t = LiveTable(n)
    OBVIOUS
  <1>1. t \in Live(tables) /\ t.name = n /\ t.id \in UsedIds
    BY <1>a, LakeNow
  <1>2. PICK f \in LiveFiles(t.id) :
           /\ files' = Close(files, {f}, last + 1)
           /\ Record([Now EXCEPT ![n] =
                 {r \in @ : r.key \notin {parquet[f.id][i].key : i \in DOMAIN parquet[f.id]}}])
    BY <1>a DEF DropFile
  <1>b. PICK K : K = {parquet[f.id][i].key : i \in DOMAIN parquet[f.id]}
    OBVIOUS
  <1>c. PICK now : now = [Now EXCEPT ![n] = {r \in @ : r.key \notin K}]
    OBVIOUS
  <1>d. PICK R : R = {f}
    OBVIOUS
  <1>3. /\ Record(now) /\ files' = Close(files, R, last + 1) /\ last' = last + 1
        /\ UNCHANGED <<tables, columns, deletes, inlined, parquet, posfiles, nextId>>
    BY <1>2, <1>b, <1>c, <1>d DEF DropFile, Record
  <1>4. f \in files /\ f \in Live(files) /\ f.end = NULL /\ f.table = t.id /\ R \in SUBSET Live(files)
    BY <1>d DEF LiveFiles, Live
  <1>5. /\ \A g \in files \ R : g \in files' /\ Continues(g, g)
        /\ \A h \in files' : \/ h \in files \ R
                             \/ \E g \in R : Continues(h, g) /\ h.end = last + 1
        /\ FilesKnown' /\ RowsKnown' /\ IsFiniteSet(files')
        /\ TrackersKnown' /\ KeysOnce' /\ DeletesKnown'
        /\ \A id, p, s : Deleted(id, p, s)' <=> Deleted(id, p, s)
        /\ \A u, s : WaitingAt(u, s)' = WaitingAt(u, s)
        /\ \A u, s : s \in 1..last \/ (s = last + 1 /\ u # t.id) => RowsAt(u, s)' = RowsAt(u, s)
    <2>1. \A g \in R : g.table = t.id
      BY <1>4, <1>d
    <2>. QED
      BY <1>3, <1>4, <2>1, FilesLeave
  <1>6. ASSUME NEW s, s = last + 1
         PROVE  now[t.name] = {Seen(x, Layout(t.id, s)) : x \in RowsAt(t.id, s)'}
    <2>1. \A g \in files \ R : FileRows(g, s)' = FileRows(g, s)
      <3>1. ASSUME NEW g \in files \ R PROVE FileRows(g, s)' = FileRows(g, s)
        <4>1. Layout(g.table, g.begin)' = Layout(g.table, g.begin) /\ Continues(g, g)
          BY <1>5 DEF Grows, HInv, FilesKnown, Dates
        <4>. QED
          BY <1>3, <1>5, <4>1, SameFileRows
      <3>. QED
        BY <3>1
    <2>2. \A h \in files' : VisibleAt(h, s) => h \in files \ R
      BY <1>5, <1>6, MarkersAreNotValues DEF VisibleAt
    <2>3. VisibleFiles(t.id, s)' = VisibleFiles(t.id, s) \ R
      BY <1>5, <2>2 DEF VisibleFiles, VisibleAt
    <2>4. FiledAt(t.id, s)' = UNION {FileRows(g, s) : g \in VisibleFiles(t.id, s) \ R}
      <3>1. FiledAt(t.id, s)' = UNION {FileRows(g, s)' : g \in VisibleFiles(t.id, s) \ R}
        BY <2>3 DEF FiledAt
      <3>. QED
        BY <2>1, <3>1 DEF VisibleFiles
    <2>5. /\ \A g \in files \ R : \A x \in FileRows(g, s) : x.key \notin K
          /\ \A x \in WaitingAt(t.id, s) : x.key \notin K
          /\ \A x \in FileRows(f, s) : x.key \in K
      <3>1. KeysOnce
        BY DEF HInv
      <3>2. PICK I : I = DOMAIN parquet[f.id]
        OBVIOUS
      <3>3. I \subseteq DOMAIN parquet[f.id] /\ K = {parquet[f.id][i].key : i \in I}
        BY <1>b, <3>2
      <3>4. /\ \A g \in files : \A r : g # f => \A x \in FileRows(g, r) : x.key \notin K
            /\ \A u, r : \A x \in WaitingAt(u, r) : x.key \notin K
            /\ \A i \in DOMAIN parquet[f.id] : StoredRow(f, i).key \in K <=> i \in I
        BY <1>4, <3>1, <3>3, KeysApart
      <3>. QED
        BY <1>d, <3>2, <3>4 DEF FileRows, KeptIn
    <2>6. RowsAt(t.id, s)' = {x \in RowsAt(t.id, s) : x.key \notin K}
      BY <1>5, <1>d, <2>4, <2>5 DEF RowsAt, FiledAt, VisibleFiles
    <2>7. Now[n] = {Seen(x, Layout(t.id, s)) : x \in RowsAt(t.id, s)}
      BY <1>1, <1>6, LakeNow DEF SeenAt
    <2>8. now[n] = {r \in Now[n] : r.key \notin K}
      BY <1>c
    <2>9. PICK X : X = RowsAt(t.id, s)
      OBVIOUS
    <2>10. PICK layout : layout = Layout(t.id, s)
      OBVIOUS
    <2>11. now[n] = {Seen(x, layout) : x \in {y \in X : y.key \notin K}}
      BY <2>7, <2>8, <2>9, <2>10 DEF Seen
    <2>. QED
      BY <1>1, <2>6, <2>9, <2>10, <2>11
  <1>7. DOMAIN now = DOMAIN Now /\ \A m \in DOMAIN Now : m # t.name => now[m] = Now[m]
    BY <1>1, <1>c
  <1>. QED
    BY <1>1, <1>3, <1>5, <1>6, <1>7, HRowsCommit


(* A delete file is written for positions of one data file; the delete     *)
(* files O of that data file close, and their positions are in the new one.*)
LEMMA WrittenDelete ==
  ASSUME Grows, DeletesKnown, FilesKnown, NEW f \in files, UNCHANGED files,
         NEW O \in SUBSET {e \in Live(deletes) : e.file = f.id}, NEW marks, NEW all,
         all = marks \cup UNION {posfiles[e.id] : e \in O}, NEW d,
         d = [id |-> nextId, table |-> f.table, file |-> f.id, begin |-> last + 1, end |-> NULL],
         deletes' = Close(deletes, O, last + 1) \cup {d},
         posfiles' = Put(posfiles, nextId, all), last' = last + 1, nextId' = nextId + 1
  PROVE  /\ DeletesKnown'
         /\ \A id, p, s : s \in 1..last \/ (s = last + 1 /\ id # f.id) =>
                             (Deleted(id, p, s)' <=> Deleted(id, p, s))
         /\ \A p, s : s = last + 1 => (Deleted(f.id, p, s)' <=> Deleted(f.id, p, s) \/ p \in marks)
  <1>. DEFINE Closed(e) == [e EXCEPT !.end = last + 1]
  <1>. last \in Nat
    BY DEF Grows
  <1>1. deletes' = (deletes \ O) \cup {Closed(e) : e \in O} \cup {d}
    BY DEF Close
  <1>2. ASSUME NEW e \in O
        PROVE  /\ e \in deletes /\ e.end = NULL /\ e.file = f.id /\ DeleteRow(Closed(e))
               /\ Closed(e).id = e.id /\ Closed(e).table = e.table /\ Closed(e).file = e.file
               /\ Closed(e).begin = e.begin /\ Closed(e).end = last + 1
    <2>1. e \in deletes /\ e.end = NULL /\ e.file = f.id /\ DeleteRow(e)
      BY DEF Live, DeletesKnown
    <2>. QED
      BY <2>1, EndedDelete
  <1>. HIDE DEF Closed
  <1>3. /\ d.id = nextId /\ d.table = f.table /\ d.file = f.id /\ d.begin = last + 1 /\ d.end = NULL
        /\ DeleteRow(d)
    BY DEF DeleteRow
  <1>4. /\ DOMAIN posfiles' = DOMAIN posfiles \cup {nextId} /\ posfiles'[nextId] = all
        /\ \A e \in deletes : e.id # nextId /\ posfiles'[e.id] = posfiles[e.id]
    <2>1. \A e \in deletes : e.id # nextId /\ e.id \in DOMAIN posfiles
      BY DEF DeletesKnown, UsedIds, Grows
    <2>. QED
      BY <2>1 DEF Put
  <1>5. ASSUME NEW e \in deletes'
        PROVE  /\ DeleteRow(e) /\ Dates(e)'
               /\ e.file \in UsedIds' /\ e.id \in UsedIds' /\ e.table \in UsedIds'
               /\ e.id \in DOMAIN posfiles'
               /\ \A g \in files : e.file = g.id => e.table = g.table
    <2>1. \A c \in deletes : /\ DeleteRow(c) /\ Dates(c)' /\ Dates(c)
                             /\ c.file \in UsedIds' /\ c.id \in UsedIds' /\ c.table \in UsedIds'
                             /\ c.id \in DOMAIN posfiles'
                             /\ \A g \in files : c.file = g.id => c.table = g.table
      BY <1>4, GrowingBounds DEF DeletesKnown
    <2>2. ASSUME NEW c \in O, e = Closed(c)
          PROVE  DeleteRow(e) /\ Dates(e)'
                 /\ e.id = c.id /\ e.table = c.table /\ e.file = c.file /\ c \in deletes
      <3>1. /\ c \in deletes /\ DeleteRow(e) /\ e.begin = c.begin /\ e.end = last + 1
            /\ e.id = c.id /\ e.table = c.table /\ e.file = c.file
        BY <1>2, <2>2
      <3>2. c.begin \in 1..last
        BY <2>1, <3>1 DEF Dates
      <3>3. Dates(e)'
        BY <3>1, <3>2 DEF Dates
      <3>. QED
        BY <3>1, <3>3
    <2>3. CASE e = d
      <3>1. f.id \in UsedIds' /\ f.table \in UsedIds' /\ nextId \in UsedIds' /\ nextId \in DOMAIN posfiles'
        BY <1>4, GrowingBounds DEF FilesKnown, UsedIds, Grows
      <3>2. \A g \in files : f.id = g.id => f.table = g.table
        BY DEF FilesKnown
      <3>3. Dates(d)'
        BY <1>3 DEF Dates
      <3>. QED
        BY <1>3, <2>3, <3>1, <3>2, <3>3
    <2>4. CASE e \in deletes
      BY <2>1, <2>4
    <2>5. CASE \E c \in O : e = Closed(c)
      <3>1. PICK c \in O : e = Closed(c)
        BY <2>5
      <3>. QED
        BY <2>1, <2>2, <3>1
    <2>. QED
      BY <1>1, <2>3, <2>4, <2>5
  <1>6. DeletesKnown'
    <2>1. \A e \in deletes : \E c \in deletes' : c.id = e.id
      BY <1>1, <1>2
    <2>2. d \in deletes'
      BY <1>1
    <2>3. \A i \in DOMAIN posfiles' : \E c \in deletes' : c.id = i
      BY <1>3, <1>4, <2>1, <2>2 DEF DeletesKnown
    <2>a. PICK ids : ids = DOMAIN posfiles'
      OBVIOUS
    <2>b. PICK D : D = deletes'
      OBVIOUS
    <2>c. /\ \A i \in ids : \E c \in D : c.id = i
          /\ \A e \in D : e.id \in ids
      BY <1>5, <2>3, <2>a, <2>b
    <2>d. ids = {e.id : e \in D}
      BY <2>c
    <2>4. DOMAIN posfiles' = {e.id : e \in deletes'}
      BY <2>a, <2>b, <2>d
    <2>. QED
      BY <1>5, <2>4 DEF DeletesKnown, Dates, UsedIds
  (* The past.                                                             *)
  <1>7. ASSUME NEW id, NEW p, NEW s \in 1..last
        PROVE  Deleted(id, p, s)' <=> Deleted(id, p, s)
    <2>1. ~VisibleAt(d, s)
      BY <1>3 DEF VisibleAt
    <2>2. ASSUME NEW e \in O PROVE VisibleAt(Closed(e), s) <=> VisibleAt(e, s)
      BY <1>2, ClosedRow
    <2>3. ASSUME Deleted(id, p, s) PROVE Deleted(id, p, s)'
      <3>1. PICK e \in deletes : e.file = id /\ VisibleAt(e, s) /\ p \in posfiles[e.id]
        BY <2>3 DEF Deleted
      <3>2. PICK c \in deletes' : c.file = id /\ VisibleAt(c, s) /\ c.id = e.id
        BY <1>1, <1>2, <2>2, <3>1
      <3>. QED
        BY <1>4, <3>1, <3>2 DEF Deleted, VisibleAt
    <2>4. ASSUME NEW c \in deletes', c.file = id, VisibleAt(c, s), p \in posfiles'[c.id]
          PROVE  Deleted(id, p, s)
      <3>1. PICK e \in deletes : e.file = id /\ VisibleAt(e, s) /\ c.id = e.id
        BY <1>1, <1>2, <2>1, <2>2, <2>4
      <3>. QED
        BY <1>4, <2>4, <3>1 DEF Deleted
    <2>. QED
      BY <2>3, <2>4 DEF Deleted, VisibleAt
  (* The new snapshot.                                                     *)
  <1>8. ASSUME NEW id, NEW p, NEW s, s = last + 1
        PROVE  Deleted(id, p, s)' <=> Deleted(id, p, s) \/ (id = f.id /\ p \in marks)
    <2>1. VisibleAt(d, s) /\ \A e \in O : ~VisibleAt(Closed(e), s) /\ VisibleAt(e, s)
      <3>1. VisibleAt(d, s)
        BY <1>3, <1>8 DEF VisibleAt
      <3>2. ASSUME NEW e \in O PROVE ~VisibleAt(Closed(e), s) /\ VisibleAt(e, s)
        <4>1. Dates(e)
          BY <1>2 DEF DeletesKnown
        <4>. QED
          BY <1>2, <1>8, <4>1, ClosedRow, VisibleNow
      <3>. QED
        BY <3>1, <3>2
    <2>2. d \in deletes' /\ d.id = nextId /\ d.file = f.id
      BY <1>1, <1>3
    <2>3. ASSUME Deleted(id, p, s) PROVE Deleted(id, p, s)'
      <3>1. PICK e \in deletes : e.file = id /\ VisibleAt(e, s) /\ p \in posfiles[e.id]
        BY <2>3 DEF Deleted
      <3>2. CASE e \in O
        <4>1. p \in posfiles'[d.id]
          BY <1>3, <1>4, <3>1, <3>2
        <4>2. d.file = id
          BY <1>2, <2>2, <3>1, <3>2
        <4>. QED
          BY <2>1, <2>2, <4>1, <4>2 DEF Deleted, VisibleAt
      <3>3. CASE e \notin O
        <4>1. e \in deletes' /\ p \in posfiles'[e.id]
          BY <1>1, <1>4, <3>1, <3>3
        <4>. QED
          BY <3>1, <4>1 DEF Deleted, VisibleAt
      <3>. QED
        BY <3>2, <3>3
    <2>4. ASSUME id = f.id, p \in marks PROVE Deleted(id, p, s)'
      <3>1. p \in posfiles'[d.id]
        BY <1>3, <1>4, <2>4
      <3>. QED
        BY <2>1, <2>2, <2>4, <3>1 DEF Deleted, VisibleAt
    <2>5. ASSUME NEW c \in deletes', c.file = id, VisibleAt(c, s), p \in posfiles'[c.id]
          PROVE  Deleted(id, p, s) \/ (id = f.id /\ p \in marks)
      <3>1. CASE c = d
        <4>1. id = f.id /\ p \in all
          BY <1>3, <1>4, <2>5, <3>1
        <4>2. CASE p \in marks
          BY <4>1, <4>2
        <4>3. ASSUME NEW e \in O, p \in posfiles[e.id] PROVE Deleted(id, p, s)
          BY <1>2, <2>1, <4>1, <4>3 DEF Deleted
        <4>. QED
          BY <4>1, <4>2, <4>3
      <3>2. CASE c \in deletes \ O
        BY <1>4, <2>5, <3>2 DEF Deleted
      <3>. QED
        BY <1>1, <2>1, <2>5, <3>1, <3>2
    <2>6. ASSUME Deleted(id, p, s)' PROVE \E c \in deletes' : c.file = id /\ VisibleAt(c, s) /\ p \in posfiles'[c.id]
      BY <2>6 DEF Deleted, VisibleAt
    <2>. QED
      BY <2>3, <2>4, <2>5, <2>6
  <1>. QED
    BY <1>6, <1>7, <1>8


LEMMA HDeleteRows ==
  ASSUME HInv, Grows, NEW n \in DOMAIN Now, DeleteRows(n)
  PROVE  HInv'
  <1>. last \in Nat
    BY DEF Grows
  <1>a. PICK t : t = LiveTable(n)
    OBVIOUS
  <1>1. t \in Live(tables) /\ t.name = n /\ t.id \in UsedIds
    BY <1>a, LakeNow
  <1>2. PICK f \in LiveFiles(t.id), supersede \in BOOLEAN :
           \E gone \in SUBSET {i \in DOMAIN parquet[f.id] : parquet[f.id][i].key \in Keys(Now[n])} :
              LET old == {d \in Live(deletes) : d.file = f.id}
              IN /\ deletes' = (IF supersede THEN Close(deletes, old, last + 1) ELSE deletes) \cup
                       {[id |-> nextId, table |-> t.id, file |-> f.id, begin |-> last + 1, end |-> NULL]}
                 /\ posfiles' = Put(posfiles, nextId,
                       {i - 1 : i \in gone} \cup
                           (IF supersede THEN UNION {posfiles[d.id] : d \in old} ELSE {}))
                 /\ nextId' = nextId + 1
                 /\ Record([Now EXCEPT ![n] =
                       {r \in @ : r.key \notin {parquet[f.id][i].key : i \in gone}}])
                 /\ UNCHANGED <<tables, columns, files, inlined, parquet>>
    BY <1>a DEF DeleteRows
  <1>b. PICK old : old = {d \in Live(deletes) : d.file = f.id}
    OBVIOUS
  <1>3. PICK gone \in SUBSET {i \in DOMAIN parquet[f.id] : parquet[f.id][i].key \in Keys(Now[n])} :
           /\ deletes' = (IF supersede THEN Close(deletes, old, last + 1) ELSE deletes) \cup
                 {[id |-> nextId, table |-> t.id, file |-> f.id, begin |-> last + 1, end |-> NULL]}
           /\ posfiles' = Put(posfiles, nextId,
                 {i - 1 : i \in gone} \cup
                     (IF supersede THEN UNION {posfiles[d.id] : d \in old} ELSE {}))
           /\ nextId' = nextId + 1
           /\ Record([Now EXCEPT ![n] =
                 {r \in @ : r.key \notin {parquet[f.id][i].key : i \in gone}}])
           /\ UNCHANGED <<tables, columns, files, inlined, parquet>>
    BY <1>2, <1>b
  <1>c. PICK O : O = IF supersede THEN old ELSE {}
    OBVIOUS
  <1>d. PICK marks : marks = {i - 1 : i \in gone}
    OBVIOUS
  <1>e. PICK all : all = marks \cup UNION {posfiles[e.id] : e \in O}
    OBVIOUS
  <1>f. PICK K : K = {parquet[f.id][i].key : i \in gone}
    OBVIOUS
  <1>g. PICK now : now = [Now EXCEPT ![n] = {r \in @ : r.key \notin K}]
    OBVIOUS
  <1>4. f \in files /\ f.table = t.id /\ gone \subseteq DOMAIN parquet[f.id]
        /\ O \in SUBSET {e \in Live(deletes) : e.file = f.id}
    BY <1>b, <1>c DEF LiveFiles, Live
  <1>h. PICK d : d = [id |-> nextId, table |-> f.table, file |-> f.id, begin |-> last + 1, end |-> NULL]
    OBVIOUS
  <1>5. /\ Record(now) /\ last' = last + 1 /\ nextId' = nextId + 1
        /\ UNCHANGED <<tables, columns, files, inlined, parquet>>
    BY <1>3, <1>f, <1>g DEF Record
  <1>6. deletes' = Close(deletes, O, last + 1) \cup {d}
    <2>1. d = [id |-> nextId, table |-> t.id, file |-> f.id, begin |-> last + 1, end |-> NULL]
      BY <1>4, <1>h
    <2>2. Close(deletes, {}, last + 1) = deletes
      BY DEF Close
    <2>. QED
      BY <1>3, <1>c, <2>1, <2>2
  <1>7. posfiles' = Put(posfiles, nextId, all)
    BY <1>3, <1>c, <1>d, <1>e
  <1>8. /\ DeletesKnown'
        /\ \A id, p, s : s \in 1..last \/ (s = last + 1 /\ id # f.id) =>
                            (Deleted(id, p, s)' <=> Deleted(id, p, s))
        /\ \A p, s : s = last + 1 => (Deleted(f.id, p, s)' <=> Deleted(f.id, p, s) \/ p \in marks)
    BY <1>4, <1>5, <1>6, <1>7, <1>e, <1>h, WrittenDelete DEF HInv
  <1>9. SameParquet
    BY <1>5 DEF SameParquet, HInv, RowsKnown, FileSound
  <1>10. FilesKnown' /\ RowsKnown' /\ IsFiniteSet(files') /\ \A g \in files : Continues(g, g)
    <2>1. PICK R : R = {}
      OBVIOUS
    <2>2. files' = Close(files, R, last + 1) /\ R \in SUBSET Live(files)
      BY <1>5, <2>1 DEF Close
    <2>. QED
      BY <1>9, <2>1, <2>2, ClosedFiles DEF HInv, Bounded
  <1>11. TrackersKnown' /\ KeysOnce'
    BY <1>5, <1>9, <1>10, KeptTrackers, KeptKeys DEF HInv
  <1>12. \A u, s : WaitingAt(u, s)' = WaitingAt(u, s)
    BY <1>5, SameWaiting
  <1>13. \A g \in files : \A s : /\ Layout(g.table, g.begin)' = Layout(g.table, g.begin)
                                 /\ parquet'[g.id] = parquet[g.id]
    BY <1>5 DEF Grows, HInv, FilesKnown, Dates
  <1>14. ASSUME NEW u, NEW s, s \in 1..last \/ (s = last + 1 /\ u # t.id)
         PROVE  RowsAt(u, s)' = RowsAt(u, s)
    <2>1. ASSUME NEW g \in files, g.table = u
          PROVE  \A p : Deleted(g.id, p, s)' <=> Deleted(g.id, p, s)
      <3>1. s \in 1..last \/ (s = last + 1 /\ g.id # f.id)
        BY <1>14, <1>4, <2>1 DEF HInv, FilesKnown
      <3>. QED
        BY <1>8, <3>1
    <2>2. FiledAt(u, s)' = FiledAt(u, s)
      BY <1>5, <1>9, <1>10, <2>1, SameFiled DEF HInv
    <2>. QED
      BY <1>12, <2>2 DEF RowsAt
  <1>15. ASSUME NEW s, s = last + 1
         PROVE  now[t.name] = {Seen(x, Layout(t.id, s)) : x \in RowsAt(t.id, s)'}
    <2>1. /\ \A g \in files : \A r : g # f => \A x \in FileRows(g, r) : x.key \notin K
          /\ \A u, r : \A x \in WaitingAt(u, r) : x.key \notin K
          /\ \A i \in DOMAIN parquet[f.id] : StoredRow(f, i).key \in K <=> i \in gone
      BY <1>4, <1>f, KeysApart DEF HInv
    <2>2. ASSUME NEW g \in files, g # f PROVE FileRows(g, s)' = FileRows(g, s)
      <3>1. g.id # f.id
        BY <1>4, <2>2 DEF HInv, FilesKnown
      <3>2. \A p : Deleted(g.id, p, s)' <=> Deleted(g.id, p, s)
        BY <1>8, <1>15, <3>1
      <3>. QED
        BY <1>10, <1>13, <3>2, SameFileRows
    <2>3. FileRows(f, s)' = {x \in FileRows(f, s) : x.key \notin K}
      <3>1. \A i \in DOMAIN parquet[f.id] : i \in Int /\ (i - 1 \in marks <=> i \in gone)
        <4>1. DOMAIN parquet[f.id] \subseteq Int
          BY <1>4 DEF HInv, RowsKnown, FileSound
        <4>. QED
          BY <1>4, <1>d, <4>1
      <3>2. KeptIn(f, s)' = KeptIn(f, s) \ gone
        <4>1. \A i \in DOMAIN parquet[f.id] :
                 Deleted(f.id, i - 1, s)' <=> Deleted(f.id, i - 1, s) \/ i \in gone
          BY <1>8, <1>15, <3>1
        <4>. QED
          BY <1>5, <4>1 DEF KeptIn
      <3>3. \A i : StoredRow(f, i)' = StoredRow(f, i)
        BY <1>4, <1>13 DEF StoredRow
      <3>4. FileRows(f, s)' = {StoredRow(f, i) : i \in KeptIn(f, s) \ gone}
        BY <3>2, <3>3 DEF FileRows
      <3>. QED
        BY <2>1, <3>4 DEF FileRows, KeptIn
    <2>4. VisibleFiles(t.id, s)' = VisibleFiles(t.id, s)
      BY <1>5 DEF VisibleFiles, VisibleAt
    <2>5. \A g \in VisibleFiles(t.id, s) : FileRows(g, s)' = {x \in FileRows(g, s) : x.key \notin K}
      BY <2>1, <2>2, <2>3 DEF VisibleFiles
    <2>6. FiledAt(t.id, s)' = {x \in FiledAt(t.id, s) : x.key \notin K}
      <3>1. FiledAt(t.id, s)' = UNION {FileRows(g, s)' : g \in VisibleFiles(t.id, s)}
        BY <2>4 DEF FiledAt
      <3>. QED
        BY <2>5, <3>1 DEF FiledAt
    <2>7. RowsAt(t.id, s)' = {x \in RowsAt(t.id, s) : x.key \notin K}
      BY <1>12, <2>1, <2>6 DEF RowsAt
    <2>8. Now[n] = {Seen(x, Layout(t.id, s)) : x \in RowsAt(t.id, s)}
      <3>1. Now[n] = SeenAt(t.id, s)
        BY <1>1, <1>15, LakeNow
      <3>. QED
        BY <3>1 DEF SeenAt
    <2>9. now[n] = {r \in Now[n] : r.key \notin K}
      BY <1>g
    <2>10. PICK X : X = RowsAt(t.id, s)
      OBVIOUS
    <2>11. PICK layout : layout = Layout(t.id, s)
      OBVIOUS
    <2>12. now[n] = {Seen(x, layout) : x \in {y \in X : y.key \notin K}}
      BY <2>8, <2>9, <2>10, <2>11 DEF Seen
    <2>. QED
      BY <1>1, <2>7, <2>10, <2>11, <2>12
  <1>16. DOMAIN now = DOMAIN Now /\ \A m \in DOMAIN Now : m # t.name => now[m] = Now[m]
    BY <1>1, <1>g
  <1>. QED
    BY <1>1, <1>5, <1>8, <1>10, <1>11, <1>14, <1>15, <1>16, HRowsCommit


(* The rows of a written file, as they are at a snapshot.                  *)
Stored(rows, layout, s) ==
    {[key |-> rows[i].key, cells |-> PhysicalCells(rows[i]), layout |-> layout] :
        i \in {j \in DOMAIN rows : rows[j].origin <= s}}

(* A commit that writes the file m and takes the files F away.             *)
Writes(m, rows, F) ==
    /\ F \subseteq files /\ files' = (files \ F) \cup {m}
    /\ parquet' = Put(parquet, nextId, rows)
    /\ nextId' = nextId + 1
    /\ DataRow(m) /\ m.id = nextId /\ Dates(m)' /\ m.table \in UsedIds'
    /\ Len(rows) \in Nat \ {0} /\ DOMAIN rows = 1..Len(rows)
    /\ \A r \in {rows[i] : i \in DOMAIN rows} : FileHolds(m, r)'
    /\ UNCHANGED <<deletes, posfiles>>

(* Its rows are in no file that stays, and wait nowhere any more.          *)
OwnKeys(rows, F) ==
    /\ \A i, j \in DOMAIN rows : rows[i].key = rows[j].key => i = j
    /\ \A f \in files \ F : \A i \in DOMAIN parquet[f.id], j \in DOMAIN rows :
          parquet[f.id][i].key # rows[j].key
    /\ \A tr \in DOMAIN inlined' :
          /\ tr \in DOMAIN inlined /\ inlined'[tr] \subseteq inlined[tr]
          /\ \A r \in inlined'[tr], j \in DOMAIN rows : rows[j].key # r.key

LEMMA FileCommit ==
  ASSUME HInv, Grows, NEW m, NEW rows, NEW F, Writes(m, rows, F), OwnKeys(rows, F),
         NEW layout, layout = Layout(m.table, m.begin)'
  PROVE  /\ FilesKnown' /\ RowsKnown' /\ IsFiniteSet(files') /\ KeysOnce' /\ DeletesKnown'
         /\ \A t, s : FiledAt(t, s)' = (UNION {FileRows(f, s) : f \in VisibleFiles(t, s) \ F})
                         \cup {x \in Stored(rows, layout, s) : m.table = t /\ VisibleAt(m, s)}
  <1>. /\ F \subseteq files /\ files' = (files \ F) \cup {m} /\ parquet' = Put(parquet, nextId, rows)
       /\ nextId' = nextId + 1
       /\ DataRow(m) /\ m.id = nextId /\ Dates(m)' /\ m.table \in UsedIds'
       /\ Len(rows) \in Nat \ {0} /\ DOMAIN rows = 1..Len(rows)
       /\ \A r \in {rows[i] : i \in DOMAIN rows} : FileHolds(m, r)'
       /\ UNCHANGED <<deletes, posfiles>>
    BY DEF Writes
  <1>. /\ \A i, j \in DOMAIN rows : rows[i].key = rows[j].key => i = j
       /\ \A f \in files \ F : \A i \in DOMAIN parquet[f.id], j \in DOMAIN rows :
             parquet[f.id][i].key # rows[j].key
       /\ \A tr \in DOMAIN inlined' : tr \in DOMAIN inlined /\ inlined'[tr] \subseteq inlined[tr]
       /\ \A tr \in DOMAIN inlined' : \A r \in inlined'[tr], j \in DOMAIN rows : rows[j].key # r.key
    BY DEF OwnKeys
  <1>1. /\ SameParquet /\ parquet'[m.id] = rows
        /\ FilesKnown' /\ RowsKnown' /\ IsFiniteSet(files')
        /\ \A f \in files : f.id # m.id /\ Continues(f, f)
    <2>1. files' \subseteq files \cup {m}
      OBVIOUS
    <2>. QED
      BY <2>1, WrittenFile DEF HInv, Bounded
  <1>2. KeysOnce'
    <2>1. files' \subseteq files \cup {m} /\ \A f \in files : f.id # m.id
      BY <1>1
    <2>2. \A f \in files' \cap files : f \in files \ F
      BY <1>1
    <2>3. \A f \in files' \cap files : \A i \in DOMAIN parquet[f.id], j \in DOMAIN rows :
             parquet[f.id][i].key # rows[j].key
      BY <2>2
    <2>4. KeysOnce /\ SameParquet /\ parquet'[m.id] = rows
      BY <1>1 DEF HInv
    <2>. QED
      BY <2>1, <2>3, <2>4, WrittenKeys
  <1>3. nextId \notin UsedIds
    BY DEF UsedIds, Grows
  <1>4. DeletesKnown' /\ \A id, p, s : Deleted(id, p, s)' <=> Deleted(id, p, s)
    <2>1. \A g \in files' : g.id \notin UsedIds \/ \E f \in files : g.id = f.id /\ g.table = f.table
      BY <1>3
    <2>. QED
      BY <2>1, KeptDeletes DEF HInv
  <1>5. \A p, s : ~Deleted(m.id, p, s)
    BY <1>3 DEF Deleted, HInv, DeletesKnown
  <1>6. ASSUME NEW s PROVE FileRows(m, s)' = Stored(rows, layout, s)
    <2>1. KeptIn(m, s)' = {j \in DOMAIN rows : rows[j].origin <= s}
      <3>1. \A p : ~Deleted(m.id, p, s)'
        BY <1>4, <1>5
      <3>. QED
        BY <1>1, <3>1 DEF KeptIn
    <2>2. \A i : StoredRow(m, i)' =
             [key |-> rows[i].key, cells |-> PhysicalCells(rows[i]), layout |-> layout]
      BY <1>1 DEF StoredRow
    <2>. QED
      BY <2>1, <2>2 DEF FileRows, Stored
  <1>7. ASSUME NEW s, NEW f \in files PROVE FileRows(f, s)' = FileRows(f, s)
    <2>1. Continues(f, f) /\ parquet'[f.id] = parquet[f.id]
      BY <1>1 DEF SameParquet
    <2>2. Layout(f.table, f.begin)' = Layout(f.table, f.begin)
      BY DEF HInv, FilesKnown, Dates, Grows
    <2>3. \A p : Deleted(f.id, p, s)' <=> Deleted(f.id, p, s)
      BY <1>4
    <2>. QED
      BY <2>1, <2>2, <2>3, SameFileRows
  <1>8. ASSUME NEW t, NEW s
        PROVE  FiledAt(t, s)' = (UNION {FileRows(f, s) : f \in VisibleFiles(t, s) \ F})
                         \cup {x \in Stored(rows, layout, s) : m.table = t /\ VisibleAt(m, s)}
    <2>1. VisibleFiles(t, s)' = (VisibleFiles(t, s) \ F) \cup {g \in {m} : g.table = t /\ VisibleAt(g, s)}
      BY DEF VisibleFiles, VisibleAt
    <2>2. FiledAt(t, s)' = (UNION {FileRows(f, s)' : f \in VisibleFiles(t, s) \ F})
                              \cup {x \in FileRows(m, s)' : m.table = t /\ VisibleAt(m, s)}
      BY <2>1 DEF FiledAt
    <2>3. \A f \in VisibleFiles(t, s) \ F : FileRows(f, s)' = FileRows(f, s)
      BY <1>7 DEF VisibleFiles
    <2>. QED
      BY <1>6, <2>2, <2>3
  <1>. QED
    BY <1>1, <1>2, <1>4, <1>8


LEMMA SequenceLength ==
  ASSUME NEW k \in Nat, NEW rows, rows = [i \in 1..k |-> rows[i]]
  PROVE  DOMAIN rows = 1..k /\ Len(rows) \in Nat /\ DOMAIN rows = 1..Len(rows)
  <1>. DEFINE S == {rows[i] : i \in 1..k}
  <1>1. rows \in [1..k -> S]
    OBVIOUS
  <1>2. rows \in Seq(S)
    <2>. HIDE DEF S
    <2>. QED
      BY <1>1, SeqDef
  <1>3. DOMAIN rows = 1..k
    OBVIOUS
  <1>. HIDE DEF S
  <1>. QED
    BY <1>2, <1>3, LenProperties

LEMMA PhysicalIsWritten ==
  ASSUME NEW r, Row(r), PARTIAL_SNAPSHOT_COL \notin DOMAIN r.cells
  PROVE  PhysicalCells(r) = r.cells
  BY DEF Row, PhysicalCells, Restrict

LEMMA NamesOfColumns ==
  ASSUME NEW cols
  PROVE  NamesOf(LayoutOf(cols)) = {c.name : c \in cols}
  <1>. DEFINE named(c) == [id |-> c.id, name |-> c.name]
  <1>1. LayoutOf(cols) = {named(c) : c \in cols}
    BY DEF LayoutOf
  <1>2. \A c \in cols : named(c).name = c.name
    OBVIOUS
  <1>. HIDE DEF named
  <1>. QED
    BY <1>1, <1>2 DEF NamesOf

LEMMA HAppendRows ==
  ASSUME HInv, Grows, NEW n \in DOMAIN Now, AppendRows(n)
  PROVE  HInv'
  <1>. last \in Nat /\ nextId \in Nat \ {0}
    BY DEF Grows
  <1>a. PICK t : t = LiveTable(n)
    OBVIOUS
  <1>1. t \in Live(tables) /\ t.name = n /\ t.id \in UsedIds
    BY <1>a, LakeNow
  <1>b. PICK names : names = {c.name : c \in LiveColumns(t.id)}
    OBVIOUS
  <1>2. PICK k \in 1..MaxRows, measured \in BOOLEAN : \E cells \in [1..k -> [names -> CellValues]] :
           LET rows == [i \in 1..k |-> [key |-> <<nextId, i>>, origin |-> last + 1,
                                        cells |-> cells[i]]]
           IN /\ \E stats : files' = files \cup {FileRow(t.id, last + 1, NULL, stats)}
              /\ parquet' = Put(parquet, nextId, rows)
              /\ nextId' = nextId + 1
              /\ Record([Now EXCEPT ![n] = @ \cup
                    {[key |-> rows[i].key, cells |-> rows[i].cells] : i \in 1..k}])
              /\ UNCHANGED <<tables, columns, deletes, inlined, posfiles>>
    BY <1>a, <1>b DEF AppendRows
  <1>3. PICK cells \in [1..k -> [names -> CellValues]] :
           LET rows == [i \in 1..k |-> [key |-> <<nextId, i>>, origin |-> last + 1,
                                        cells |-> cells[i]]]
           IN /\ \E stats : files' = files \cup {FileRow(t.id, last + 1, NULL, stats)}
              /\ parquet' = Put(parquet, nextId, rows)
              /\ nextId' = nextId + 1
              /\ Record([Now EXCEPT ![n] = @ \cup
                    {[key |-> rows[i].key, cells |-> rows[i].cells] : i \in 1..k}])
              /\ UNCHANGED <<tables, columns, deletes, inlined, posfiles>>
    BY <1>2
  <1>c. PICK rows : rows = [i \in 1..k |-> [key |-> <<nextId, i>>, origin |-> last + 1,
                                            cells |-> cells[i]]]
    OBVIOUS
  <1>d. PICK new : new = {[key |-> rows[i].key, cells |-> rows[i].cells] : i \in 1..k}
    OBVIOUS
  <1>e. PICK now : now = [Now EXCEPT ![n] = @ \cup new]
    OBVIOUS
  <1>4. /\ parquet' = Put(parquet, nextId, rows) /\ nextId' = nextId + 1 /\ Record(now)
        /\ UNCHANGED <<tables, columns, deletes, inlined, posfiles>> /\ last' = last + 1
    BY <1>3, <1>c, <1>d, <1>e DEF Record
  <1>5. PICK stats : files' = files \cup {FileRow(t.id, last + 1, NULL, stats)}
    BY <1>3
  <1>f. PICK m : m = FileRow(t.id, last + 1, NULL, stats)
    OBVIOUS
  <1>g. PICK F : F = {}
    OBVIOUS
  <1>6. /\ files' = (files \ F) \cup {m} /\ F \in SUBSET files
        /\ DataRow(m) /\ m.id = nextId /\ m.table = t.id /\ m.begin = last + 1
        /\ m.end = NULL /\ m.partialMax = NULL
    BY <1>5, <1>f, <1>g DEF FileRow, DataRow
  <1>7. Dates(m)' /\ m.table \in UsedIds' /\ nextId \in UsedIds' /\ nextId \notin UsedIds
    <2>1. Dates(m)'
      BY <1>4, <1>6 DEF Dates
    <2>2. m.table \in UsedIds'
      BY <1>1, <1>6, GrowingBounds
    <2>3. nextId \in UsedIds' /\ nextId \notin UsedIds
      BY <1>4 DEF UsedIds
    <2>. QED
      BY <2>1, <2>2, <2>3
  <1>8. ASSUME NEW i \in 1..k, NEW r, r = rows[i]
        PROVE  /\ r.key[1] = nextId /\ r.key[2] = i /\ r.origin = last + 1
               /\ r.cells = [x \in names |-> r.cells[x]] /\ Row(r)
    <2>1. PICK own \in [names -> CellValues] : own = cells[i]
      OBVIOUS
    <2>2. r = [key |-> <<nextId, i>>, origin |-> last + 1, cells |-> own]
      BY <1>c, <1>8, <2>1
    <2>3. own = [x \in names |-> own[x]] /\ DOMAIN own = names
      OBVIOUS
    <2>4. r.key = <<nextId, i>> /\ r.origin = last + 1 /\ r.cells = own
      BY <2>2
    <2>5. r.key[1] = nextId /\ r.key[2] = i
      BY <2>4
    <2>6. Row(r)
      BY <2>2, <2>3, <2>4 DEF Row
    <2>. QED
      BY <2>3, <2>4, <2>5, <2>6
  <1>9. DOMAIN rows = 1..k /\ Len(rows) \in Nat \ {0} /\ DOMAIN rows = 1..Len(rows)
    <2>1. k \in Nat \ {0} /\ rows = [i \in 1..k |-> rows[i]]
      BY <1>c, CatalogAssumption
    <2>2. DOMAIN rows = 1..k /\ Len(rows) \in Nat /\ DOMAIN rows = 1..Len(rows)
      BY <2>1, SequenceLength
    <2>3. 1 \in 1..Len(rows)
      BY <2>1, <2>2
    <2>. QED
      BY <2>2, <2>3
  <1>h. PICK layout : layout = Layout(t.id, last + 1)
    OBVIOUS
  <1>10. /\ layout = Layout(m.table, m.begin)' /\ Unambiguous(layout) /\ names = NamesOf(layout)
         /\ PARTIAL_SNAPSHOT_COL \notin names
    <2>1. \A s \in 1..(last + 1) : \A u : Layout(u, s)' = Layout(u, s)
      BY <1>4, KeptColumns DEF HInv
    <2>2. Layout(m.table, m.begin)' = Layout(m.table, m.begin)
      BY <1>6, <2>1
    <2>3. layout = Layout(m.table, m.begin)' /\ Unambiguous(layout)
      BY <1>6, <1>h, <2>2, LiveLayout
    <2>4. names = NamesOf(layout)
      <3>1. layout = LayoutOf(LiveColumns(t.id))
        BY <1>h, LiveLayout DEF LayoutOf
      <3>. QED
        BY <1>b, <3>1, NamesOfColumns
    <2>. QED
      BY <2>3, <2>4, NameInLayout
  <1>11. \A r \in {rows[i] : i \in DOMAIN rows} : FileHolds(m, r)'
    <2>1. ASSUME NEW i \in 1..k PROVE FileHolds(m, rows[i])'
      <3>1. PICK r : r = rows[i]
        OBVIOUS
      <3>2. /\ Row(r) /\ r.key[1] = nextId /\ r.origin = m.begin /\ DOMAIN r.cells = names
        <4>1. /\ r.key[1] = nextId /\ r.origin = last + 1
              /\ r.cells = [x \in names |-> r.cells[x]] /\ Row(r)
          BY <1>8, <3>1
        <4>2. DOMAIN r.cells = names
          BY <4>1
        <4>. QED
          BY <1>6, <4>1, <4>2
      <3>3. r.origin \in m.begin..last'
        BY <1>4, <1>6, <3>2
      <3>4. DOMAIN r.cells = NamesOf(Layout(m.table, m.begin)')
        BY <1>10, <3>2
      <3>5. FileHolds(m, r)'
        BY <1>6, <1>7, <3>2, <3>3, <3>4 DEF FileHolds, NamesOf
      <3>. QED
        BY <3>1, <3>5
    <2>. QED
      BY <1>9, <2>1
  <1>12. OwnKeys(rows, F)
    <2>1. \A j \in DOMAIN rows : rows[j].key[1] = nextId /\ rows[j].key[2] = j
      <3>1. ASSUME NEW j \in 1..k PROVE rows[j].key[1] = nextId /\ rows[j].key[2] = j
        BY <1>8
      <3>. QED
        BY <1>9, <3>1
    <2>2. \A f \in files : \A i \in DOMAIN parquet[f.id] : parquet[f.id][i].key[1] \in UsedIds
      BY DEF HInv, RowsKnown, FileSound, FileHolds
    <2>3. \A tr \in DOMAIN inlined : \A r \in inlined[tr] : r.key[1] \in UsedIds
      BY DEF HInv, TrackersKnown
    <2>4. \A i, j \in DOMAIN rows : rows[i].key = rows[j].key => i = j
      BY <2>1
    <2>5. \A f \in files \ F : \A i \in DOMAIN parquet[f.id], j \in DOMAIN rows :
             parquet[f.id][i].key # rows[j].key
      BY <1>7, <2>1, <2>2
    <2>6. \A tr \in DOMAIN inlined : \A r \in inlined[tr], j \in DOMAIN rows : rows[j].key # r.key
      BY <1>7, <2>1, <2>3
    <2>. QED
      BY <1>4, <2>4, <2>5, <2>6 DEF OwnKeys
  <1>i. Writes(m, rows, F)
    BY <1>4, <1>6, <1>7, <1>9, <1>11 DEF Writes
  <1>13. /\ FilesKnown' /\ RowsKnown' /\ IsFiniteSet(files') /\ KeysOnce' /\ DeletesKnown'
         /\ \A u, s : FiledAt(u, s)' = (UNION {FileRows(f, s) : f \in VisibleFiles(u, s) \ F})
                         \cup {x \in Stored(rows, layout, s) : m.table = u /\ VisibleAt(m, s)}
    BY <1>10, <1>12, <1>i, FileCommit
  <1>14. TrackersKnown' /\ \A u, s : WaitingAt(u, s)' = WaitingAt(u, s)
    BY <1>4, KeptTrackers, SameWaiting DEF HInv
  <1>15. ASSUME NEW u, NEW s
         PROVE  FiledAt(u, s)' = FiledAt(u, s)
                      \cup {x \in Stored(rows, layout, s) : m.table = u /\ VisibleAt(m, s)}
    <2>1. VisibleFiles(u, s) \ F = VisibleFiles(u, s)
      BY <1>g
    <2>2. FiledAt(u, s)' = (UNION {FileRows(f, s) : f \in VisibleFiles(u, s) \ F})
                      \cup {x \in Stored(rows, layout, s) : m.table = u /\ VisibleAt(m, s)}
      BY <1>13
    <2>. QED
      BY <2>1, <2>2 DEF FiledAt
  <1>16. ASSUME NEW u, NEW s, s \in 1..last \/ (s = last + 1 /\ u # t.id)
         PROVE  RowsAt(u, s)' = RowsAt(u, s)
    <2>1. ~(m.table = u /\ VisibleAt(m, s))
      BY <1>16, <1>6 DEF VisibleAt
    <2>. QED
      BY <1>14, <1>15, <2>1 DEF RowsAt
  <1>17. ASSUME NEW s, s = last + 1
         PROVE  now[t.name] = {Seen(x, Layout(t.id, s)) : x \in RowsAt(t.id, s)'}
    <2>1. VisibleAt(m, s) /\ m.table = t.id
      BY <1>17, <1>6 DEF VisibleAt
    <2>2. RowsAt(t.id, s)' = RowsAt(t.id, s) \cup Stored(rows, layout, s)
      BY <1>14, <1>15, <2>1 DEF RowsAt
    <2>. DEFINE stored(i) ==
            [key |-> rows[i].key, cells |-> PhysicalCells(rows[i]), layout |-> layout]
                shown(i) == [key |-> rows[i].key, cells |-> rows[i].cells]
    <2>3. ASSUME NEW i \in 1..k
          PROVE  Seen(stored(i), layout) = shown(i)
      <3>1. PICK r : r = rows[i]
        OBVIOUS
      <3>2. PICK own : own = r.cells
        OBVIOUS
      <3>3. PhysicalCells(r) = own
        <4>1. Row(r) /\ r.cells = [x \in names |-> r.cells[x]]
          BY <1>8, <3>1
        <4>2. DOMAIN r.cells = names
          BY <4>1
        <4>. QED
          BY <1>10, <3>2, <4>1, <4>2, PhysicalIsWritten
      <3>4. own = [x \in NamesOf(layout) |-> own[x]]
        <4>1. r.cells = [x \in names |-> r.cells[x]]
          BY <1>8, <3>1
        <4>. QED
          BY <1>10, <3>2, <4>1
      <3>5. Recast(own, layout, layout) = own
        BY <1>10, <3>4, SeenAsWritten
      <3>. QED
        BY <3>1, <3>2, <3>3, <3>5 DEF Seen
    <2>4. {Seen(x, layout) : x \in Stored(rows, layout, s)} = new
      <3>1. \A i \in 1..k : rows[i].origin <= s
        <4>1. ASSUME NEW i \in 1..k PROVE rows[i].origin = last + 1
          BY <1>8
        <4>. QED
          BY <1>17, <4>1
      <3>2. Stored(rows, layout, s) = {stored(i) : i \in 1..k}
        BY <1>9, <3>1 DEF Stored
      <3>3. new = {shown(i) : i \in 1..k}
        BY <1>d
      <3>. HIDE DEF stored, shown
      <3>. QED
        BY <2>3, <3>2, <3>3
    <2>5. Now[n] = {Seen(x, layout) : x \in RowsAt(t.id, s)}
      <3>1. Now[n] = SeenAt(t.id, s)
        BY <1>1, <1>17, LakeNow
      <3>. QED
        BY <1>17, <1>h, <3>1 DEF SeenAt
    <2>6. now[n] = Now[n] \cup new
      BY <1>e
    <2>. QED
      BY <1>1, <1>17, <1>h, <2>2, <2>4, <2>5, <2>6
  <1>18. DOMAIN now = DOMAIN Now /\ \A m2 \in DOMAIN Now : m2 # t.name => now[m2] = Now[m2]
    BY <1>1, <1>e
  <1>. QED
    BY <1>1, <1>4, <1>13, <1>14, <1>16, <1>17, <1>18, HRowsCommit


LEMMA HInlineRow ==
  ASSUME HInv, Grows, NEW n \in DOMAIN Now, InlineRow(n)
  PROVE  HInv'
  <1>. last \in Nat /\ nextId \in Nat \ {0}
    BY DEF Grows
  <1>a. PICK t : t = LiveTable(n)
    OBVIOUS
  <1>1. t \in Live(tables) /\ t.name = n /\ t.id \in UsedIds
    BY <1>a, LakeNow
  <1>b. PICK layout : layout = Layout(t.id, last + 1)
    OBVIOUS
  <1>c. PICK tracker : tracker = [table |-> t.id, layout |-> layout]
    OBVIOUS
  <1>2. tracker = Tracker(LiveTable(n).id, last) /\ tracker.table = t.id /\ tracker.layout = layout
    BY <1>a, <1>b, <1>c, LayoutNow DEF HInv, Tracker
  <1>d. PICK names : names = {c.name : c \in LiveColumns(t.id)}
    OBVIOUS
  <1>3. PICK cells \in [names -> CellValues] :
           LET row == [origin |-> last + 1, key |-> <<nextId, 1>>, cells |-> cells]
           IN /\ inlined' = Put(inlined, tracker, RowsIn(tracker) \cup {row})
              /\ nextId' = nextId + 1
              /\ Record([Now EXCEPT ![n] = @ \cup {[key |-> row.key, cells |-> cells]}])
              /\ UNCHANGED <<tables, columns, files, deletes, parquet, posfiles>>
    BY <1>2, <1>d DEF InlineRow
  <1>e. PICK row : row = [origin |-> last + 1, key |-> <<nextId, 1>>, cells |-> cells]
    OBVIOUS
  <1>f. PICK shown : shown = [key |-> row.key, cells |-> cells]
    OBVIOUS
  <1>g. PICK now : now = [Now EXCEPT ![n] = @ \cup {shown}]
    OBVIOUS
  <1>4. /\ inlined' = Put(inlined, tracker, RowsIn(tracker) \cup {row}) /\ nextId' = nextId + 1
        /\ Record(now) /\ last' = last + 1
        /\ UNCHANGED <<tables, columns, files, deletes, parquet, posfiles>>
    BY <1>3, <1>e, <1>f, <1>g DEF Record
  <1>5. /\ row.key[1] = nextId /\ row.origin = last + 1 /\ row.cells = cells
        /\ cells = [x \in names |-> cells[x]] /\ DOMAIN cells = names /\ Row(row)
    <2>1. cells = [x \in names |-> cells[x]] /\ DOMAIN cells = names
      OBVIOUS
    <2>2. row.key = <<nextId, 1>> /\ row.origin = last + 1 /\ row.cells = cells
      BY <1>e
    <2>3. row.key[1] = nextId
      BY <2>2
    <2>4. Row(row)
      BY <1>e, <2>1, <2>2 DEF Row
    <2>. QED
      BY <2>1, <2>2, <2>3, <2>4
  <1>6. Unambiguous(layout) /\ names = NamesOf(layout)
    <2>1. layout = LayoutOf(LiveColumns(t.id)) /\ Unambiguous(layout)
      BY <1>b, LiveLayout DEF LayoutOf
    <2>. QED
      BY <1>d, <2>1, NamesOfColumns
  <1>7. /\ DOMAIN inlined' = DOMAIN inlined \cup {tracker}
        /\ inlined'[tracker] = RowsIn(tracker) \cup {row}
        /\ \A tr \in DOMAIN inlined : tr # tracker => inlined'[tr] = inlined[tr]
        /\ RowsIn(tracker) = IF tracker \in DOMAIN inlined THEN inlined[tracker] ELSE {}
    BY <1>4 DEF Put, RowsIn
  <1>8. /\ \A tr \in DOMAIN inlined' : \A r \in inlined'[tr] :
              (tr \in DOMAIN inlined /\ r \in inlined[tr]) \/ (tr = tracker /\ r = row)
        /\ \A tr \in DOMAIN inlined : \A r \in inlined[tr] : tr \in DOMAIN inlined' /\ r \in inlined'[tr]
        /\ tracker \in DOMAIN inlined' /\ row \in inlined'[tracker]
    <2>1. ASSUME NEW tr \in DOMAIN inlined', NEW r \in inlined'[tr]
          PROVE  (tr \in DOMAIN inlined /\ r \in inlined[tr]) \/ (tr = tracker /\ r = row)
      BY <1>7
    <2>2. ASSUME NEW tr \in DOMAIN inlined, NEW r \in inlined[tr]
          PROVE  tr \in DOMAIN inlined' /\ r \in inlined'[tr]
      BY <1>7
    <2>3. tracker \in DOMAIN inlined' /\ row \in inlined'[tracker]
      BY <1>7
    <2>. QED
      BY <2>1, <2>2, <2>3
  <1>9. /\ ColumnsKnown' /\ \A s \in 1..(last + 1) : \A u : Layout(u, s)' = Layout(u, s)
    BY <1>4, KeptColumns DEF HInv
  <1>10. /\ nextId \notin UsedIds /\ nextId \in UsedIds' /\ UsedIds \subseteq UsedIds'
         /\ 1..last \subseteq 1..last'
    <2>1. nextId \notin UsedIds /\ nextId \in UsedIds'
      BY <1>4 DEF UsedIds
    <2>. QED
      BY <2>1, GrowingBounds
  <1>11. TrackersKnown'
    <2>1. ASSUME NEW tr \in DOMAIN inlined'
          PROVE  tr.table \in UsedIds' /\ IsFiniteSet(inlined'[tr])
      <3>1. \A ur \in DOMAIN inlined : ur.table \in UsedIds' /\ IsFiniteSet(inlined[ur])
        BY <1>10 DEF HInv, TrackersKnown
      <3>2. IsFiniteSet(RowsIn(tracker))
        BY <1>7, <3>1, FS_EmptySet
      <3>3. IsFiniteSet(inlined'[tracker])
        BY <1>7, <3>2, FS_AddElement
      <3>4. tracker.table \in UsedIds'
        BY <1>1, <1>2, <1>10
      <3>. QED
        BY <1>7, <3>1, <3>3, <3>4
    <2>2. ASSUME NEW tr \in DOMAIN inlined', NEW r \in inlined'[tr]
          PROVE  /\ Row(r) /\ r.key[1] \in UsedIds' /\ r.origin \in 1..last'
                 /\ tr.layout = Layout(tr.table, r.origin)'
                 /\ DOMAIN r.cells = NamesOf(tr.layout)
      <3>1. CASE tr \in DOMAIN inlined /\ r \in inlined[tr]
        <4>1. /\ Row(r) /\ r.key[1] \in UsedIds /\ r.origin \in 1..last
              /\ tr.layout = Layout(tr.table, r.origin) /\ DOMAIN r.cells = NamesOf(tr.layout)
          BY <3>1 DEF HInv, TrackersKnown
        <4>2. Layout(tr.table, r.origin)' = Layout(tr.table, r.origin)
          BY <4>1 DEF Grows
        <4>. QED
          BY <1>10, <4>1, <4>2
      <3>2. CASE tr = tracker /\ r = row
        <4>1. r.origin \in 1..(last + 1) /\ r.origin \in 1..last'
          BY <1>4, <1>5, <3>2
        <4>2. Layout(tr.table, r.origin)' = Layout(tr.table, r.origin)
          BY <1>9, <4>1
        <4>3. Layout(tr.table, r.origin) = layout
          BY <1>2, <1>5, <1>b, <3>2
        <4>. QED
          BY <1>2, <1>5, <1>6, <1>10, <3>2, <4>1, <4>2, <4>3
      <3>. QED
        BY <1>8, <2>2, <3>1, <3>2
    <2>. QED
      BY <2>1, <2>2 DEF TrackersKnown
  <1>12. KeysOnce'
    <2>1. \A f \in files : \A i \in DOMAIN parquet[f.id] : parquet[f.id][i].key[1] \in UsedIds
      BY DEF HInv, RowsKnown, FileSound, FileHolds
    <2>2. \A tr \in DOMAIN inlined : \A r \in inlined[tr] : r.key[1] \in UsedIds
      BY DEF HInv, TrackersKnown
    <2>3. ASSUME NEW f \in files, NEW tr \in DOMAIN inlined',
                 NEW i \in DOMAIN parquet[f.id], NEW r \in inlined'[tr]
          PROVE  parquet[f.id][i].key # r.key
      <3>1. CASE tr \in DOMAIN inlined /\ r \in inlined[tr]
        BY <3>1 DEF HInv, KeysOnce
      <3>2. CASE r = row
        BY <1>5, <1>10, <2>1, <3>2
      <3>. QED
        BY <1>8, <2>3, <3>1, <3>2
    <2>4. ASSUME NEW tr \in DOMAIN inlined', NEW ur \in DOMAIN inlined',
                 NEW q \in inlined'[tr], NEW r \in inlined'[ur], q.key = r.key
          PROVE  tr = ur /\ q = r
      <3>1. CASE tr \in DOMAIN inlined /\ q \in inlined[tr] /\ ur \in DOMAIN inlined /\ r \in inlined[ur]
        BY <2>4, <3>1 DEF HInv, KeysOnce
      <3>2. CASE tr \in DOMAIN inlined /\ q \in inlined[tr] /\ ur = tracker /\ r = row
        <4>1. q.key[1] # r.key[1]
          BY <1>5, <1>10, <2>2, <3>2
        <4>. QED
          BY <2>4, <4>1
      <3>3. CASE tr = tracker /\ q = row /\ ur \in DOMAIN inlined /\ r \in inlined[ur]
        <4>1. q.key[1] # r.key[1]
          BY <1>5, <1>10, <2>2, <3>3
        <4>. QED
          BY <2>4, <4>1
      <3>. QED
        BY <1>8, <2>4, <3>1, <3>2, <3>3
    <2>5. \A f, g \in files : \A i \in DOMAIN parquet[f.id], j \in DOMAIN parquet[g.id] :
             parquet[f.id][i].key = parquet[g.id][j].key => f = g /\ i = j
      BY DEF HInv, KeysOnce
    <2>6. \A f \in files, tr \in DOMAIN inlined' : \A i \in DOMAIN parquet[f.id], r \in inlined'[tr] :
             parquet[f.id][i].key # r.key
      BY <2>3
    <2>7. \A tr, ur \in DOMAIN inlined' : \A q \in inlined'[tr], r \in inlined'[ur] :
             q.key = r.key => tr = ur /\ q = r
      BY <2>4
    <2>8. files' = files /\ parquet' = parquet
      BY <1>4
    <2>. QED
      BY <2>5, <2>6, <2>7, <2>8 DEF KeysOnce
  <1>13. SameParquet
    BY <1>4 DEF SameParquet, HInv, RowsKnown, FileSound
  <1>14. FilesKnown' /\ RowsKnown' /\ IsFiniteSet(files') /\ \A g \in files : Continues(g, g)
    <2>1. PICK R : R = {}
      OBVIOUS
    <2>2. files' = Close(files, R, last + 1) /\ R \in SUBSET Live(files)
      BY <1>4, <2>1 DEF Close
    <2>. QED
      BY <1>13, <2>1, <2>2, ClosedFiles DEF HInv, Bounded
  <1>15. DeletesKnown' /\ \A id, p, s : Deleted(id, p, s)' <=> Deleted(id, p, s)
    BY <1>4, KeptDeletes DEF HInv
  <1>16. \A u, s : FiledAt(u, s)' = FiledAt(u, s)
    BY <1>4, <1>13, <1>14, <1>15, SameFiled DEF HInv
  <1>17. ASSUME NEW u, NEW s
         PROVE  WaitingAt(u, s)' = WaitingAt(u, s)
                   \cup {x \in {WaitingRow(tracker, row)} : u = t.id /\ last + 1 <= s}
    <2>1. ASSUME NEW x \in WaitingAt(u, s)'
          PROVE  x \in WaitingAt(u, s) \/ (x = WaitingRow(tracker, row) /\ u = t.id /\ last + 1 <= s)
      <3>1. PICK tr \in DOMAIN inlined' : /\ tr.table = u
                                          /\ \E r \in inlined'[tr] : r.origin <= s /\ x = WaitingRow(tr, r)
        BY <2>1 DEF WaitingAt, Trackers, WaitingRow
      <3>2. PICK r \in inlined'[tr] : r.origin <= s /\ x = WaitingRow(tr, r)
        BY <3>1
      <3>3. CASE tr \in DOMAIN inlined /\ r \in inlined[tr]
        BY <3>1, <3>2, <3>3 DEF WaitingAt, Trackers
      <3>4. CASE tr = tracker /\ r = row
        BY <1>2, <1>5, <3>1, <3>2, <3>4
      <3>. QED
        BY <1>8, <3>3, <3>4
    <2>2. ASSUME NEW x \in WaitingAt(u, s) PROVE x \in WaitingAt(u, s)'
      <3>1. PICK tr \in DOMAIN inlined : /\ tr.table = u
                                         /\ \E r \in inlined[tr] : r.origin <= s /\ x = WaitingRow(tr, r)
        BY <2>2 DEF WaitingAt, Trackers
      <3>2. PICK r \in inlined[tr] : r.origin <= s /\ x = WaitingRow(tr, r)
        BY <3>1
      <3>3. tr \in DOMAIN inlined' /\ r \in inlined'[tr]
        BY <1>8
      <3>. QED
        BY <3>1, <3>2, <3>3 DEF WaitingAt, Trackers, WaitingRow
    <2>3. ASSUME u = t.id, last + 1 <= s PROVE WaitingRow(tracker, row) \in WaitingAt(u, s)'
      <3>1. row.origin <= s /\ tracker.table = u
        BY <1>2, <1>5, <2>3
      <3>. QED
        BY <1>8, <3>1 DEF WaitingAt, Trackers, WaitingRow
    <2>. QED
      BY <2>1, <2>2, <2>3
  <1>18. ASSUME NEW u, NEW s, s \in 1..last \/ (s = last + 1 /\ u # t.id)
         PROVE  RowsAt(u, s)' = RowsAt(u, s)
    <2>1. ~(u = t.id /\ last + 1 <= s)
      BY <1>18
    <2>2. WaitingAt(u, s)' = WaitingAt(u, s)
      BY <1>17, <2>1
    <2>. QED
      BY <1>16, <2>2 DEF RowsAt
  <1>19. ASSUME NEW s, s = last + 1
         PROVE  now[t.name] = {Seen(x, Layout(t.id, s)) : x \in RowsAt(t.id, s)'}
    <2>1. RowsAt(t.id, s)' = RowsAt(t.id, s) \cup {WaitingRow(tracker, row)}
      <3>1. last + 1 <= s
        BY <1>19
      <3>2. WaitingAt(t.id, s)' = WaitingAt(t.id, s) \cup {WaitingRow(tracker, row)}
        BY <1>17, <3>1
      <3>. QED
        BY <1>16, <3>2 DEF RowsAt
    <2>2. Seen(WaitingRow(tracker, row), layout) = shown
      <3>1. cells = [x \in NamesOf(layout) |-> cells[x]]
        BY <1>5, <1>6
      <3>2. Recast(cells, layout, layout) = cells
        BY <1>6, <3>1, SeenAsWritten
      <3>. QED
        BY <1>2, <1>5, <1>f, <3>2 DEF Seen, WaitingRow
    <2>3. Now[n] = {Seen(x, layout) : x \in RowsAt(t.id, s)}
      <3>1. Now[n] = SeenAt(t.id, s)
        BY <1>1, <1>19, LakeNow
      <3>. QED
        BY <1>19, <1>b, <3>1 DEF SeenAt
    <2>4. now[n] = Now[n] \cup {shown}
      BY <1>g
    <2>. QED
      BY <1>1, <1>19, <1>b, <2>1, <2>2, <2>3, <2>4
  <1>20. DOMAIN now = DOMAIN Now /\ \A m \in DOMAIN Now : m # t.name => now[m] = Now[m]
    BY <1>1, <1>g
  <1>. QED
    BY <1>1, <1>4, <1>11, <1>12, <1>14, <1>15, <1>18, <1>19, <1>20, HRowsCommit


-----------------------------------------------------------------------------
(* Files merged from rows that are in the lake already.                    *)

(* A finite set as a sequence: every member once, in some order.           *)
LEMMA Enumerated ==
  ASSUME NEW S, IsFiniteSet(S)
  PROVE  /\ Cardinality(S) \in Nat
         /\ SetToSeq(S) \in [1..Cardinality(S) -> S]
         /\ \A i, j \in 1..Cardinality(S) : SetToSeq(S)[i] = SetToSeq(S)[j] => i = j
         /\ \A x \in S : \E i \in 1..Cardinality(S) : SetToSeq(S)[i] = x
  <1>1. PICK n \in Nat : n = Cardinality(S)
    BY FS_CardinalityType
  <1>2. PICK b : b \in Bijection(1..n, S)
    BY <1>1, FS_CardinalityType DEF ExistsBijection
  <1>3. b \in [1..n -> S] /\ IsInjective(b)
    BY <1>2 DEF Bijection, Injection, IsInjective
  <1>4. PICK q : q = SetToSeq(S)
    OBVIOUS
  <1>5. q \in [1..n -> S] /\ IsInjective(q)
    BY <1>1, <1>3, <1>4 DEF SetToSeq
  <1>6. q \in Injection(1..n, S)
    BY <1>5 DEF Injection, IsInjective
  <1>7. IsFiniteSet(1..n) /\ Cardinality(1..n) = n
    BY FS_Interval
  <1>8. q \in Surjection(1..n, S)
    BY <1>1, <1>6, <1>7, FS_Injection
  <1>. QED
    BY <1>1, <1>4, <1>5, <1>8 DEF Surjection, IsInjective


(* The rows X, inserted at snapshots that had the layout.                  *)
Mergeable(X, t, layout) ==
    /\ IsFiniteSet(X) /\ X # {}
    /\ \A x \in X : /\ Row(x) /\ x.key[1] \in UsedIds /\ x.origin \in 1..last
                    /\ Layout(t, x.origin) = layout
                    /\ DOMAIN x.cells = NamesOf(layout)
    /\ \A x, y \in X : x.key = y.key => x = y

LEMMA MergedOrigins ==
  ASSUME NEW t, NEW layout, NEW X, Mergeable(X, t, layout), NEW rows, rows = SetToSeq(X),
         last \in Nat
  PROVE  /\ DOMAIN rows \in SUBSET Nat /\ Len(rows) \in Nat \ {0} /\ DOMAIN rows = 1..Len(rows)
         /\ \A i \in DOMAIN rows : rows[i] \in X
         /\ \A x \in X : \E i \in DOMAIN rows : rows[i] = x
         /\ \A i, j \in DOMAIN rows : rows[i] = rows[j] => i = j
         /\ Origins(rows) = {x.origin : x \in X}
         /\ Min(Origins(rows)) \in Origins(rows) /\ Max(Origins(rows)) \in Origins(rows)
         /\ \A x \in X : Min(Origins(rows)) <= x.origin /\ x.origin <= Max(Origins(rows))
         /\ Cardinality(Origins(rows)) = 1 <=> Min(Origins(rows)) = Max(Origins(rows))
  <1>1. PICK n \in Nat : n = Cardinality(X)
    BY Enumerated DEF Mergeable
  <1>2. /\ rows \in [1..n -> X]
        /\ \A i, j \in 1..n : rows[i] = rows[j] => i = j
        /\ \A x \in X : \E i \in 1..n : rows[i] = x
    BY <1>1, Enumerated DEF Mergeable
  <1>3. DOMAIN rows = 1..n /\ Len(rows) \in Nat \ {0} /\ DOMAIN rows = 1..Len(rows)
    <2>1. rows = [i \in 1..n |-> rows[i]]
      BY <1>2
    <2>2. DOMAIN rows = 1..n /\ Len(rows) \in Nat /\ DOMAIN rows = 1..Len(rows)
      BY <2>1, SequenceLength
    <2>3. \E i \in 1..n : TRUE
      BY <1>2 DEF Mergeable
    <2>4. \E i \in 1..Len(rows) : TRUE
      BY <2>2, <2>3
    <2>. QED
      BY <2>2, <2>4
  <1>4. PICK O : O = Origins(rows)
    OBVIOUS
  <1>5. O = {x.origin : x \in X}
    BY <1>2, <1>3, <1>4 DEF Origins
  <1>6. O \in SUBSET Int /\ O # {}
    BY <1>5 DEF Mergeable
  <1>7. IsFiniteSet(O)
    <2>. DEFINE origin == [x \in X |-> x.origin]
    <2>1. {origin[x] : x \in X} = O /\ DOMAIN origin = X
      BY <1>5
    <2>2. IsFiniteSet(X)
      BY DEF Mergeable
    <2>. HIDE DEF origin
    <2>. QED
      BY <2>1, <2>2, FiniteImage
  <1>8. /\ Min(O) \in O /\ Max(O) \in O
        /\ \A y \in O : Min(O) <= y /\ y <= Max(O)
    BY <1>6, <1>7, MinIsLeast, MaxIsGreatest
  <1>9. Cardinality(O) = 1 <=> Min(O) = Max(O)
    <2>1. ASSUME Cardinality(O) = 1 PROVE Min(O) = Max(O)
      <3>1. PICK y : O = {y}
        BY <1>7, <2>1, FS_Singleton
      <3>. QED
        BY <1>8, <3>1
    <2>2. ASSUME Min(O) = Max(O) PROVE Cardinality(O) = 1
      <3>1. PICK y \in Int : y = Min(O)
        BY <1>6, <1>8
      <3>2. \A z \in O : z = y
        BY <1>6, <1>8, <2>2, <3>1
      <3>3. O = {y}
        BY <1>8, <3>1, <3>2
      <3>. QED
        BY <3>3, FS_Singleton
    <2>. QED
      BY <2>1, <2>2
  <1>10. \A x \in X : x.origin \in O
    BY <1>5
  <1>11. \A x \in X : Min(O) <= x.origin /\ x.origin <= Max(O)
    BY <1>8, <1>10
  <1>12. 1..n \in SUBSET Nat
    OBVIOUS
  <1>13. /\ DOMAIN rows \in SUBSET Nat
         /\ \A i \in DOMAIN rows : rows[i] \in X
         /\ \A x \in X : \E i \in DOMAIN rows : rows[i] = x
         /\ \A i, j \in DOMAIN rows : rows[i] = rows[j] => i = j
    BY <1>2, <1>3, <1>12
  <1>14. /\ Origins(rows) = {x.origin : x \in X}
         /\ Min(Origins(rows)) \in Origins(rows) /\ Max(Origins(rows)) \in Origins(rows)
    BY <1>4, <1>5, <1>8
  <1>15. Cardinality(Origins(rows)) = 1 <=> Min(Origins(rows)) = Max(Origins(rows))
    BY <1>4, <1>9
  <1>16. \A x \in X : Min(Origins(rows)) <= x.origin /\ x.origin <= Max(Origins(rows))
    BY <1>4, <1>11
  <1>. QED
    BY <1>3, <1>13, <1>14, <1>15, <1>16

(* A row of a partial file carries its snapshot beside its cells.          *)
LEMMA OriginBeside ==
  ASSUME NEW x, Row(x), PARTIAL_SNAPSHOT_COL \notin DOMAIN x.cells
  PROVE  LET r == WithOrigin(x)
         IN /\ r.key = x.key /\ r.origin = x.origin /\ Row(r)
            /\ DOMAIN r.cells = DOMAIN x.cells \cup {PARTIAL_SNAPSHOT_COL}
            /\ r.cells[PARTIAL_SNAPSHOT_COL] = x.origin
            /\ PhysicalCells(r) = x.cells
  <1>1. PICK own : own = x.cells
    OBVIOUS
  <1>2. PICK wide : wide = Put(own, PARTIAL_SNAPSHOT_COL, x.origin)
    OBVIOUS
  <1>3. PICK r : r = WithOrigin(x)
    OBVIOUS
  <1>4. r = [key |-> x.key, origin |-> x.origin, cells |-> wide]
    BY <1>1, <1>2, <1>3 DEF WithOrigin, Row
  <1>5. /\ DOMAIN wide = DOMAIN own \cup {PARTIAL_SNAPSHOT_COL}
        /\ wide[PARTIAL_SNAPSHOT_COL] = x.origin
        /\ wide = [y \in DOMAIN wide |-> wide[y]]
        /\ \A y \in DOMAIN own : wide[y] = own[y]
    BY <1>1, <1>2 DEF Put
  <1>6. own = [y \in DOMAIN own |-> own[y]]
    BY <1>1 DEF Row
  <1>7. Restrict(wide, DOMAIN wide \ {PARTIAL_SNAPSHOT_COL}) = own
    BY <1>1, <1>5, <1>6 DEF Restrict
  <1>8. PhysicalCells(r) = own
    BY <1>4, <1>7 DEF PhysicalCells
  <1>9. Row(r)
    BY <1>4, <1>5 DEF Row
  <1>. QED
    BY <1>1, <1>3, <1>4, <1>5, <1>8, <1>9


Plain(x, layout) == [key |-> x.key, cells |-> x.cells, layout |-> layout]

(* m is a sound row for the file phys that holds the rows X.               *)
Holds(m, phys, t, layout, X) ==
    /\ DataRow(m) /\ m.id = nextId /\ m.table = t /\ Dates(m)' /\ m.table \in UsedIds'
    /\ Len(phys) \in Nat \ {0} /\ DOMAIN phys = 1..Len(phys)
    /\ \A r \in {phys[i] : i \in DOMAIN phys} : FileHolds(m, r)'
    /\ \A i \in DOMAIN phys : \E x \in X : phys[i].key = x.key
    /\ \A i, j \in DOMAIN phys : phys[i].key = phys[j].key => i = j
    /\ layout = Layout(m.table, m.begin)'
    /\ \A s \in Nat : {y \in Stored(phys, layout, s) : VisibleAt(m, s)}
                         = {Plain(x, layout) : x \in {y \in X : y.origin <= s}}

(* The merged file, and its rows.                                          *)
LEMMA Merged ==
  ASSUME HInv, Grows, NEW t \in UsedIds, NEW layout, NEW X, Mergeable(X, t, layout),
         NEW rows, rows = SetToSeq(X), NEW measured, NEW m, m = MergedFile(t, rows, measured),
         NEW phys, phys = MergedRows(rows), nextId' = nextId + 1
  PROVE  Holds(m, phys, t, layout, X)
  <1>. last \in Nat /\ nextId \in Nat \ {0}
    BY DEF Grows
  <1>1. /\ DOMAIN rows \in SUBSET Nat /\ Len(rows) \in Nat \ {0} /\ DOMAIN rows = 1..Len(rows)
        /\ \A i \in DOMAIN rows : rows[i] \in X
        /\ \A x \in X : \E i \in DOMAIN rows : rows[i] = x
        /\ \A i, j \in DOMAIN rows : rows[i] = rows[j] => i = j
        /\ Origins(rows) = {x.origin : x \in X}
        /\ Min(Origins(rows)) \in Origins(rows) /\ Max(Origins(rows)) \in Origins(rows)
        /\ \A x \in X : Min(Origins(rows)) <= x.origin /\ x.origin <= Max(Origins(rows))
        /\ Cardinality(Origins(rows)) = 1 <=> Min(Origins(rows)) = Max(Origins(rows))
    BY MergedOrigins
  <1>a. PICK from : from = Min(Origins(rows))
    OBVIOUS
  <1>b. PICK upto : upto = Max(Origins(rows))
    OBVIOUS
  <1>2. /\ from \in 1..last /\ upto \in 1..last /\ Layout(t, from) = layout
        /\ \A x \in X : from <= x.origin /\ x.origin <= upto /\ x.origin \in 1..last
        /\ Cardinality(Origins(rows)) = 1 <=> from = upto
    <2>0. from \in {x.origin : x \in X} /\ upto \in {x.origin : x \in X}
      BY <1>1, <1>a, <1>b
    <2>1. (\E x \in X : from = x.origin) /\ \E x \in X : upto = x.origin
      BY <2>0
    <2>2. \A x \in X : x.origin \in 1..last /\ Layout(t, x.origin) = layout
      BY DEF Mergeable
    <2>. QED
      BY <1>1, <1>a, <1>b, <2>1, <2>2
  <1>c. PICK partial : partial = IF from = upto THEN NULL ELSE upto
    OBVIOUS
  <1>3. PICK stats : m = FileRow(t, from, partial, stats)
    BY <1>a, <1>b, <1>c DEF MergedFile
  <1>4. /\ DataRow(m) /\ m.id = nextId /\ m.table = t /\ m.begin = from /\ m.end = NULL
        /\ m.partialMax = partial
    BY <1>3 DEF FileRow, DataRow
  <1>5. Dates(m)' /\ m.table \in UsedIds' /\ UsedIds \subseteq UsedIds' /\ 1..last \subseteq 1..last'
    <2>1. Dates(m)
      BY <1>2, <1>4 DEF Dates
    <2>. QED
      BY <1>4, <2>1, GrowingBounds
  <1>6. layout = Layout(m.table, m.begin)' /\ \A s \in 1..last : Layout(m.table, s)' = Layout(m.table, s)
    BY <1>2, <1>4 DEF Grows
  <1>7. PARTIAL_SNAPSHOT_COL \notin NamesOf(layout)
    <2>1. from \in 1..(last + 1)
      BY <1>2
    <2>2. Unambiguous(layout)
      BY <1>2, <2>1, LayoutsUnambiguous DEF HInv
    <2>. QED
      BY <2>2, NameInLayout
  <1>8. DOMAIN phys = DOMAIN rows /\ Len(phys) \in Nat \ {0} /\ DOMAIN phys = 1..Len(phys)
    <2>1. CASE Cardinality(Origins(rows)) = 1
      BY <1>1, <2>1 DEF MergedRows
    <2>2. CASE Cardinality(Origins(rows)) # 1
      <3>1. phys = [i \in DOMAIN rows |-> WithOrigin(rows[i])]
        BY <2>2 DEF MergedRows
      <3>2. PICK k \in Nat \ {0} : k = Len(rows)
        BY <1>1
      <3>3. DOMAIN phys = 1..k /\ phys = [i \in 1..k |-> phys[i]]
        BY <1>1, <3>1, <3>2
      <3>4. DOMAIN phys = 1..k /\ Len(phys) \in Nat /\ DOMAIN phys = 1..Len(phys)
        BY <3>2, <3>3, SequenceLength
      <3>5. 1 \in 1..Len(phys)
        BY <3>2, <3>4
      <3>. QED
        BY <1>1, <3>2, <3>4, <3>5
    <2>. QED
      BY <2>1, <2>2
  <1>9. ASSUME NEW i \in DOMAIN rows, NEW x, x = rows[i], NEW r, r = phys[i]
        PROVE  /\ x \in X /\ r.key = x.key /\ r.origin = x.origin /\ PhysicalCells(r) = x.cells
               /\ FileHolds(m, r)'
    <2>1. /\ x \in X /\ Row(x) /\ x.key[1] \in UsedIds /\ x.origin \in 1..last
          /\ Layout(t, x.origin) = layout /\ DOMAIN x.cells = NamesOf(layout)
      BY <1>1, <1>9 DEF Mergeable
    <2>2. x.origin \in m.begin..last' /\ x.origin <= upto /\ x.key[1] \in UsedIds'
      BY <1>2, <1>4, <1>5, <2>1
    <2>3. Layout(m.table, x.origin)' = layout
      BY <1>4, <1>6, <2>1
    <2>4. CASE from = upto
      <3>1. r = x
        BY <1>2, <1>9, <2>4 DEF MergedRows
      <3>2. PhysicalCells(x) = x.cells
        BY <1>7, <2>1, PhysicalIsWritten
      <3>3. x.origin = m.begin /\ m.partialMax = NULL
        BY <1>2, <1>4, <1>c, <2>1, <2>4
      <3>4. FileHolds(m, x)'
        BY <1>6, <2>1, <2>2, <2>3, <3>3 DEF FileHolds, NamesOf, Row
      <3>. QED
        BY <2>1, <3>1, <3>2, <3>4
    <2>5. CASE from # upto
      <3>1. r = WithOrigin(x)
        BY <1>2, <1>9, <2>5 DEF MergedRows
      <3>2. /\ r.key = x.key /\ r.origin = x.origin /\ Row(r)
            /\ DOMAIN r.cells = DOMAIN x.cells \cup {PARTIAL_SNAPSHOT_COL}
            /\ r.cells[PARTIAL_SNAPSHOT_COL] = x.origin
            /\ PhysicalCells(r) = x.cells
        BY <1>7, <2>1, <3>1, OriginBeside
      <3>3. m.partialMax = upto /\ upto # NULL /\ upto \in 1..last'
        BY <1>2, <1>4, <1>5, <1>c, <2>5, MarkersAreNotValues
      <3>4. FileHolds(m, r)'
        BY <1>6, <2>1, <2>2, <2>3, <3>2, <3>3 DEF FileHolds, NamesOf, Row
      <3>. QED
        BY <2>1, <3>2, <3>4
    <2>. QED
      BY <2>4, <2>5
  <1>10. \A r \in {phys[i] : i \in DOMAIN phys} : FileHolds(m, r)'
    <2>1. ASSUME NEW i \in DOMAIN phys, NEW r, r = phys[i] PROVE FileHolds(m, r)'
      BY <1>8, <1>9, <2>1
    <2>. QED
      BY <2>1
  <1>11. \A i \in DOMAIN phys : phys[i].key = rows[i].key /\ rows[i] \in X
    BY <1>8, <1>9
  <1>12. \A i, j \in DOMAIN phys : phys[i].key = phys[j].key => i = j
    BY <1>1, <1>8, <1>11 DEF Mergeable
  <1>13. ASSUME NEW s \in Nat
         PROVE  {y \in Stored(phys, layout, s) : VisibleAt(m, s)}
                   = {Plain(x, layout) : x \in {y \in X : y.origin <= s}}
    <2>1. VisibleAt(m, s) <=> from <= s
      BY <1>2, <1>4 DEF VisibleAt
    <2>. DEFINE stored(i) ==
            [key |-> phys[i].key, cells |-> PhysicalCells(phys[i]), layout |-> layout]
    <2>2. ASSUME NEW i \in DOMAIN rows
          PROVE  stored(i) = Plain(rows[i], layout) /\ phys[i].origin = rows[i].origin
      BY <1>9 DEF Plain
    <2>3. Stored(phys, layout, s) = {Plain(rows[i], layout) : i \in {j \in DOMAIN rows : rows[j].origin <= s}}
      <3>1. Stored(phys, layout, s) = {stored(i) : i \in {j \in DOMAIN rows : phys[j].origin <= s}}
        BY <1>8 DEF Stored
      <3>2. {j \in DOMAIN rows : phys[j].origin <= s} = {j \in DOMAIN rows : rows[j].origin <= s}
        BY <2>2
      <3>. HIDE DEF stored
      <3>. QED
        BY <2>2, <3>1, <3>2
    <2>4. Stored(phys, layout, s) = {Plain(x, layout) : x \in {y \in X : y.origin <= s}}
      BY <1>1, <2>3
    <2>5. \A x \in X : x.origin <= s => from <= s
      BY <1>2
    <2>. QED
      BY <2>1, <2>4, <2>5
  <1>. QED
    BY <1>4, <1>5, <1>6, <1>8, <1>10, <1>11, <1>12, <1>13 DEF Holds


(* A commit that moves rows and keeps every one of them visible as it was. *)
LEMMA HSameRows ==
  ASSUME HInv, Grows, NEW n \in DOMAIN Now, NEW now, now = Now, Record(now),
         UNCHANGED <<tables, columns>>,
         FilesKnown', RowsKnown', IsFiniteSet(files'), TrackersKnown', KeysOnce', DeletesKnown',
         \A u, s : s \in 1..last \/ s = last + 1 => RowsAt(u, s)' = RowsAt(u, s)
  PROVE  HInv'
  <1>1. PICK t : t = LiveTable(n)
    OBVIOUS
  <1>2. t \in Live(tables) /\ t.name = n
    BY <1>1, LakeNow
  <1>3. ASSUME NEW s, s = last + 1
        PROVE  now[t.name] = {Seen(x, Layout(t.id, s)) : x \in RowsAt(t.id, s)'}
    <2>1. Now[n] = SeenAt(t.id, s)
      BY <1>2, <1>3, LakeNow
    <2>2. RowsAt(t.id, s)' = RowsAt(t.id, s)
      BY <1>3
    <2>. QED
      BY <1>2, <2>1, <2>2 DEF SeenAt
  <1>. QED
    BY <1>2, <1>3, HRowsCommit

(* What waits under one tracker can be flushed to one file.                *)
LEMMA WaitingMerge ==
  ASSUME HInv, NEW tr \in DOMAIN inlined, inlined[tr] # {}
  PROVE  Mergeable(inlined[tr], tr.table, tr.layout)
  <1>1. \A x \in inlined[tr] : /\ Row(x) /\ x.key[1] \in UsedIds /\ x.origin \in 1..last
                               /\ Layout(tr.table, x.origin) = tr.layout
                               /\ DOMAIN x.cells = NamesOf(tr.layout)
    BY DEF HInv, TrackersKnown
  <1>2. \A x, y \in inlined[tr] : x.key = y.key => x = y
    BY DEF HInv, KeysOnce
  <1>3. IsFiniteSet(inlined[tr])
    BY DEF HInv, TrackersKnown
  <1>. QED
    BY <1>1, <1>2, <1>3 DEF Mergeable

LEMMA HFlushInlined ==
  ASSUME HInv, Grows, NEW n \in DOMAIN Now, FlushInlined(n)
  PROVE  HInv'
  <1>. last \in Nat /\ nextId \in Nat \ {0}
    BY DEF Grows
  <1>a. PICK t : t = LiveTable(n)
    OBVIOUS
  <1>1. t \in Live(tables) /\ t.name = n /\ t.id \in UsedIds
    BY <1>a, LakeNow
  <1>2. PICK tracker \in DOMAIN inlined :
           /\ tracker.table = t.id /\ inlined[tracker] # {}
           /\ files' = files \cup {MergedFile(t.id, SetToSeq(inlined[tracker]), TRUE)}
           /\ parquet' = Put(parquet, nextId, MergedRows(SetToSeq(inlined[tracker])))
           /\ inlined' = [inlined EXCEPT ![tracker] = {}]
           /\ nextId' = nextId + 1
           /\ Record(Now)
           /\ UNCHANGED <<tables, columns, deletes, posfiles>>
    BY <1>a DEF FlushInlined
  <1>b. PICK X : X = inlined[tracker]
    OBVIOUS
  <1>c. PICK rows : rows = SetToSeq(X)
    OBVIOUS
  <1>d. PICK phys : phys = MergedRows(rows)
    OBVIOUS
  <1>i. PICK measured : measured = TRUE
    OBVIOUS
  <1>j. PICK table : table = t.id
    OBVIOUS
  <1>e. PICK m : m = MergedFile(table, rows, measured)
    OBVIOUS
  <1>f. PICK layout : layout = tracker.layout
    OBVIOUS
  <1>g. PICK F : F = {}
    OBVIOUS
  <1>h. PICK now : now = Now
    OBVIOUS
  <1>3. /\ files' = (files \ F) \cup {m} /\ F \subseteq files /\ parquet' = Put(parquet, nextId, phys)
        /\ nextId' = nextId + 1 /\ Record(now)
        /\ UNCHANGED <<tables, columns, deletes, posfiles>>
    BY <1>2, <1>b, <1>c, <1>d, <1>e, <1>g, <1>h, <1>i, <1>j
  <1>4. /\ DOMAIN inlined' = DOMAIN inlined /\ inlined'[tracker] = {}
        /\ \A tr \in DOMAIN inlined : tr # tracker => inlined'[tr] = inlined[tr]
    BY <1>2
  <1>5. Mergeable(X, t.id, layout)
    BY <1>2, <1>b, <1>f, WaitingMerge
  <1>6. /\ DataRow(m) /\ m.id = nextId /\ m.table = t.id /\ Dates(m)' /\ m.table \in UsedIds'
        /\ Len(phys) \in Nat \ {0} /\ DOMAIN phys = 1..Len(phys)
        /\ \A r \in {phys[i] : i \in DOMAIN phys} : FileHolds(m, r)'
        /\ \A i \in DOMAIN phys : \E x \in X : phys[i].key = x.key
        /\ \A i, j \in DOMAIN phys : phys[i].key = phys[j].key => i = j
        /\ layout = Layout(m.table, m.begin)'
        /\ \A s \in Nat : {y \in Stored(phys, layout, s) : VisibleAt(m, s)}
                             = {Plain(x, layout) : x \in {y \in X : y.origin <= s}}
    <2>1. table \in UsedIds /\ Mergeable(X, table, layout)
      BY <1>1, <1>5, <1>j
    <2>2. Holds(m, phys, table, layout, X)
      BY <1>3, <1>c, <1>d, <1>e, <2>1, Merged
    <2>. QED
      BY <1>j, <2>2 DEF Holds
  <1>7. Writes(m, phys, F)
    BY <1>3, <1>6 DEF Writes
  <1>8. OwnKeys(phys, F)
    <2>1. \A f \in files \ F : \A i \in DOMAIN parquet[f.id], j \in DOMAIN phys :
             parquet[f.id][i].key # phys[j].key
      <3>1. \A f \in files : \A i \in DOMAIN parquet[f.id], x \in X : parquet[f.id][i].key # x.key
        BY <1>b DEF HInv, KeysOnce
      <3>2. ASSUME NEW f \in files, NEW i \in DOMAIN parquet[f.id], NEW j \in DOMAIN phys
            PROVE  parquet[f.id][i].key # phys[j].key
        <4>1. PICK x \in X : phys[j].key = x.key
          BY <1>6
        <4>. QED
          BY <3>1, <4>1
      <3>. QED
        BY <3>2
    <2>2. ASSUME NEW tr \in DOMAIN inlined', NEW r \in inlined'[tr], NEW j \in DOMAIN phys
          PROVE  phys[j].key # r.key
      <3>1. tr # tracker /\ tr \in DOMAIN inlined /\ r \in inlined[tr]
        BY <1>4, <2>2
      <3>2. \A x \in X : x.key # r.key
        BY <1>b, <3>1 DEF HInv, KeysOnce
      <3>. QED
        BY <1>6, <3>2
    <2>3. \A tr \in DOMAIN inlined' : tr \in DOMAIN inlined /\ inlined'[tr] \subseteq inlined[tr]
      BY <1>4
    <2>. QED
      BY <1>6, <2>1, <2>2, <2>3 DEF OwnKeys
  <1>9. /\ FilesKnown' /\ RowsKnown' /\ IsFiniteSet(files') /\ KeysOnce' /\ DeletesKnown'
        /\ \A u, s : FiledAt(u, s)' = (UNION {FileRows(f, s) : f \in VisibleFiles(u, s) \ F})
                        \cup {x \in Stored(phys, layout, s) : m.table = u /\ VisibleAt(m, s)}
    BY <1>6, <1>7, <1>8, FileCommit
  <1>10. TrackersKnown'
    <2>1. ASSUME NEW tr \in DOMAIN inlined'
          PROVE  /\ tr.table \in UsedIds' /\ IsFiniteSet(inlined'[tr])
                 /\ tr \in DOMAIN inlined /\ inlined'[tr] \subseteq inlined[tr]
      BY <1>4, GrowingBounds, FS_EmptySet DEF HInv, TrackersKnown
    <2>2. ASSUME NEW tr \in DOMAIN inlined', NEW r \in inlined'[tr]
          PROVE  /\ Row(r) /\ r.key[1] \in UsedIds' /\ r.origin \in 1..last'
                 /\ tr.layout = Layout(tr.table, r.origin)'
                 /\ DOMAIN r.cells = NamesOf(tr.layout)
      <3>1. /\ Row(r) /\ r.key[1] \in UsedIds /\ r.origin \in 1..last
            /\ tr.layout = Layout(tr.table, r.origin) /\ DOMAIN r.cells = NamesOf(tr.layout)
        BY <2>1, <2>2 DEF HInv, TrackersKnown
      <3>2. Layout(tr.table, r.origin)' = Layout(tr.table, r.origin)
        BY <3>1 DEF Grows
      <3>. QED
        BY <3>1, <3>2, GrowingBounds
    <2>. QED
      BY <2>1, <2>2 DEF TrackersKnown
  <1>11. ASSUME NEW u, NEW s, s \in 1..last \/ s = last + 1
         PROVE  RowsAt(u, s)' = RowsAt(u, s)
    <2>. DEFINE moved == {WaitingRow(tracker, x) : x \in {y \in X : y.origin <= s}}
    <2>1. s \in Nat
      BY <1>11
    <2>2. FiledAt(u, s)' = FiledAt(u, s) \cup {x \in moved : u = t.id}
      <3>1. VisibleFiles(u, s) \ F = VisibleFiles(u, s)
        BY <1>g
      <3>2. {x \in Stored(phys, layout, s) : m.table = u /\ VisibleAt(m, s)}
               = {x \in {y \in Stored(phys, layout, s) : VisibleAt(m, s)} : u = t.id}
        BY <1>6
      <3>3. {y \in Stored(phys, layout, s) : VisibleAt(m, s)} = moved
        <4>1. {y \in Stored(phys, layout, s) : VisibleAt(m, s)}
                 = {Plain(x, layout) : x \in {y \in X : y.origin <= s}}
          BY <1>6, <2>1
        <4>2. \A x : Plain(x, layout) = WaitingRow(tracker, x)
          BY <1>f DEF Plain, WaitingRow
        <4>. QED
          BY <4>1, <4>2
      <3>4. FiledAt(u, s)' = (UNION {FileRows(f, s) : f \in VisibleFiles(u, s) \ F})
                        \cup {x \in Stored(phys, layout, s) : m.table = u /\ VisibleAt(m, s)}
        BY <1>9
      <3>. HIDE DEF moved
      <3>. QED
        BY <3>1, <3>2, <3>3, <3>4 DEF FiledAt
    <2>3. WaitingAt(u, s) = WaitingAt(u, s)' \cup {x \in moved : u = t.id}
      <3>1. ASSUME NEW x \in WaitingAt(u, s) PROVE x \in WaitingAt(u, s)' \/ (x \in moved /\ u = t.id)
        <4>1. PICK tr \in DOMAIN inlined : /\ tr.table = u
                                           /\ \E r \in inlined[tr] : r.origin <= s /\ x = WaitingRow(tr, r)
          BY <3>1 DEF WaitingAt, Trackers
        <4>2. PICK r \in inlined[tr] : r.origin <= s /\ x = WaitingRow(tr, r)
          BY <4>1
        <4>3. CASE tr = tracker
          BY <1>2, <1>b, <4>1, <4>2, <4>3
        <4>4. CASE tr # tracker
          <5>1. tr \in DOMAIN inlined' /\ r \in inlined'[tr]
            BY <1>4, <4>4
          <5>. QED
            BY <4>1, <4>2, <5>1 DEF WaitingAt, Trackers, WaitingRow
        <4>. QED
          BY <4>3, <4>4
      <3>2. ASSUME NEW x \in WaitingAt(u, s)' PROVE x \in WaitingAt(u, s)
        <4>1. PICK tr \in DOMAIN inlined' : /\ tr.table = u
                                            /\ \E r \in inlined'[tr] : r.origin <= s /\ x = WaitingRow(tr, r)
          BY <3>2 DEF WaitingAt, Trackers, WaitingRow
        <4>2. PICK r \in inlined'[tr] : r.origin <= s /\ x = WaitingRow(tr, r)
          BY <4>1
        <4>3. tr \in DOMAIN inlined /\ r \in inlined[tr]
          BY <1>4
        <4>. QED
          BY <4>1, <4>2, <4>3 DEF WaitingAt, Trackers
      <3>3. ASSUME NEW x \in moved, u = t.id PROVE x \in WaitingAt(u, s)
        <4>1. tracker \in Trackers(u)
          BY <1>2, <3>3 DEF Trackers
        <4>2. moved \in {{WaitingRow(tr, r) : r \in {q \in inlined[tr] : q.origin <= s}} : tr \in Trackers(u)}
          BY <1>b, <4>1
        <4>. HIDE DEF moved
        <4>. QED
          BY <3>3, <4>2 DEF WaitingAt
      <3>. HIDE DEF moved
      <3>. QED
        BY <3>1, <3>2, <3>3
    <2>. HIDE DEF moved
    <2>. QED
      BY <2>2, <2>3 DEF RowsAt
  <1>. QED
    BY <1>3, <1>9, <1>10, <1>11, <1>h, HSameRows


(* A file's rows without the marks of a merge.                             *)
LEMMA UnmarkedRows ==
  ASSUME HInv, NEW f \in files, NEW layout, layout = Layout(f.table, f.begin),
         \A d \in deletes : d.file # f.id
  PROVE  /\ IsFiniteSet(Unmarked(f)) /\ Unmarked(f) # {}
         /\ \A x \in Unmarked(f) :
               /\ Row(x) /\ x.key[1] \in UsedIds /\ x.origin \in f.begin..last
               /\ Layout(f.table, x.origin) = layout /\ DOMAIN x.cells = NamesOf(layout)
               /\ \E i \in DOMAIN parquet[f.id] : x.key = parquet[f.id][i].key
         /\ \A x, y \in Unmarked(f) : x.key = y.key => x = y
         /\ \A s : FileRows(f, s) = {Plain(x, layout) : x \in {y \in Unmarked(f) : y.origin <= s}}
  <1>. last \in Nat
    BY DEF HInv, Numbered
  <1>. DEFINE bared(r) == [r EXCEPT !.cells = PhysicalCells(r)]
              at == [i \in DOMAIN parquet[f.id] |-> bared(parquet[f.id][i])]
  <1>1. /\ Len(parquet[f.id]) \in Nat \ {0} /\ DOMAIN parquet[f.id] = 1..Len(parquet[f.id])
        /\ \A i \in DOMAIN parquet[f.id] : FileHolds(f, parquet[f.id][i])
    BY DEF HInv, RowsKnown, FileSound
  <1>2. Unambiguous(layout) /\ PARTIAL_SNAPSHOT_COL \notin NamesOf(layout)
    <2>1. f.begin \in 1..(last + 1)
      BY DEF HInv, FilesKnown, Dates
    <2>2. Unambiguous(layout)
      BY <2>1, LayoutsUnambiguous DEF HInv
    <2>. QED
      BY <2>2, NameInLayout
  <1>3. ASSUME NEW r, FileHolds(f, r), NEW x, x = bared(r)
        PROVE  /\ Row(x) /\ x.key = r.key /\ x.origin = r.origin /\ x.cells = PhysicalCells(r)
               /\ x.key[1] \in UsedIds /\ x.origin \in f.begin..last
               /\ Layout(f.table, x.origin) = layout /\ DOMAIN x.cells = NamesOf(layout)
    <2>1. /\ Row(r) /\ r.key[1] \in UsedIds /\ r.origin \in f.begin..last
          /\ Layout(f.table, r.origin) = layout
      BY <1>3 DEF FileHolds
    <2>2. DOMAIN r.cells \ {PARTIAL_SNAPSHOT_COL} = NamesOf(layout)
      BY <1>2, <1>3 DEF FileHolds
    <2>3. PICK own : own = PhysicalCells(r)
      OBVIOUS
    <2>4. own = [y \in NamesOf(layout) |-> r.cells[y]]
      BY <2>2, <2>3 DEF PhysicalCells, Restrict
    <2>5. x = [key |-> r.key, origin |-> r.origin, cells |-> own]
      BY <1>3, <2>1, <2>3 DEF Row
    <2>6. Row(x)
      BY <2>4, <2>5 DEF Row
    <2>. QED
      BY <2>1, <2>3, <2>4, <2>5, <2>6
  <1>4. Unmarked(f) = {at[i] : i \in DOMAIN parquet[f.id]} /\ DOMAIN at = DOMAIN parquet[f.id]
    BY DEF Unmarked
  <1>5. IsFiniteSet(Unmarked(f)) /\ Unmarked(f) # {}
    <2>1. IsFiniteSet(DOMAIN parquet[f.id]) /\ 1 \in DOMAIN parquet[f.id]
      BY <1>1, FS_Interval
    <2>. HIDE DEF at
    <2>. QED
      BY <1>4, <2>1, FiniteImage
  <1>6. ASSUME NEW i \in DOMAIN parquet[f.id], NEW r, r = parquet[f.id][i], NEW x, x = at[i]
        PROVE  /\ Row(x) /\ x.key = r.key /\ x.origin = r.origin /\ x.cells = PhysicalCells(r)
               /\ x.key[1] \in UsedIds /\ x.origin \in f.begin..last
               /\ Layout(f.table, x.origin) = layout /\ DOMAIN x.cells = NamesOf(layout)
    <2>1. x = bared(r)
      BY <1>6
    <2>. HIDE DEF bared, at
    <2>. QED
      BY <1>1, <1>3, <1>6, <2>1
  <1>. HIDE DEF bared, at
  <1>7. ASSUME NEW x \in Unmarked(f)
        PROVE  /\ Row(x) /\ x.key[1] \in UsedIds /\ x.origin \in f.begin..last
               /\ Layout(f.table, x.origin) = layout /\ DOMAIN x.cells = NamesOf(layout)
               /\ \E i \in DOMAIN parquet[f.id] : x.key = parquet[f.id][i].key
    BY <1>4, <1>6
  <1>8. ASSUME NEW x \in Unmarked(f), NEW y \in Unmarked(f), x.key = y.key
        PROVE  x = y
    <2>1. PICK i \in DOMAIN parquet[f.id] : x = at[i]
      BY <1>4
    <2>2. PICK j \in DOMAIN parquet[f.id] : y = at[j]
      BY <1>4
    <2>3. parquet[f.id][i].key = parquet[f.id][j].key
      BY <1>6, <1>8, <2>1, <2>2
    <2>4. i = j
      BY <2>3 DEF HInv, KeysOnce
    <2>. QED
      BY <2>1, <2>2, <2>4
  <1>9. ASSUME NEW s
        PROVE  FileRows(f, s) = {Plain(x, layout) : x \in {y \in Unmarked(f) : y.origin <= s}}
    <2>1. \A i \in DOMAIN parquet[f.id] : /\ StoredRow(f, i) = Plain(at[i], layout)
                                          /\ parquet[f.id][i].origin = at[i].origin
      BY <1>6 DEF StoredRow, Plain
    <2>2. \A p : ~Deleted(f.id, p, s)
      BY DEF Deleted
    <2>3. KeptIn(f, s) = {i \in DOMAIN parquet[f.id] : at[i].origin <= s}
      BY <2>1, <2>2 DEF KeptIn
    <2>4. FileRows(f, s) = {Plain(at[i], layout) : i \in {j \in DOMAIN parquet[f.id] : at[j].origin <= s}}
      BY <2>1, <2>3 DEF FileRows
    <2>. QED
      BY <1>4, <2>4
  <1>. QED
    BY <1>5, <1>7, <1>8, <1>9

(* Files of one layout without delete files: the sources of a compaction.  *)
Sources(F, t, layout) ==
    /\ IsFiniteSet(F) /\ F # {} /\ F \subseteq files
    /\ \A f \in F : f.table = t /\ Layout(t, f.begin) = layout /\ \A d \in deletes : d.file # f.id

LEMMA SourcesMerge ==
  ASSUME HInv, NEW F, NEW table, NEW layout, Sources(F, table, layout),
         NEW X, X = UNION {Unmarked(f) : f \in F}
  PROVE  Mergeable(X, table, layout)
  <1>1. IsFiniteSet(F) /\ F # {} /\ F \subseteq files
    BY DEF Sources
  <1>2. ASSUME NEW f \in F
        PROVE  /\ f \in files /\ IsFiniteSet(Unmarked(f)) /\ Unmarked(f) # {}
               /\ \A x \in Unmarked(f) :
                     /\ Row(x) /\ x.key[1] \in UsedIds /\ x.origin \in f.begin..last
                     /\ Layout(table, x.origin) = layout /\ DOMAIN x.cells = NamesOf(layout)
                     /\ \E i \in DOMAIN parquet[f.id] : x.key = parquet[f.id][i].key
               /\ \A x, y \in Unmarked(f) : x.key = y.key => x = y
               /\ \A s : FileRows(f, s) = {Plain(x, layout) : x \in {y \in Unmarked(f) : y.origin <= s}}
    <2>1. f.table = table /\ layout = Layout(f.table, f.begin) /\ f \in files
      BY DEF Sources
    <2>2. \A d \in deletes : d.file # f.id
      BY DEF Sources
    <2>. QED
      BY <2>1, <2>2, UnmarkedRows
  <1>3. IsFiniteSet(X)
    <2>. DEFINE unmarked == [f \in F |-> Unmarked(f)]
                sets == {unmarked[f] : f \in F}
    <2>1. X = UNION sets /\ DOMAIN unmarked = F /\ \A S \in sets : IsFiniteSet(S)
      BY <1>2
    <2>2. IsFiniteSet(sets)
      <3>. HIDE DEF unmarked
      <3>. QED
        BY <1>1, <2>1, FiniteImage
    <2>. HIDE DEF sets
    <2>. QED
      BY <2>1, <2>2, FS_UNION
  <1>4. X # {}
    BY <1>1, <1>2
  <1>5. ASSUME NEW x \in X
        PROVE  /\ Row(x) /\ x.key[1] \in UsedIds /\ x.origin \in 1..last
               /\ Layout(table, x.origin) = layout /\ DOMAIN x.cells = NamesOf(layout)
    <2>1. PICK f \in F : x \in Unmarked(f)
      OBVIOUS
    <2>2. f.begin \in 1..last /\ x.origin \in f.begin..last
      BY <1>2, <2>1 DEF HInv, FilesKnown, Dates
    <2>. QED
      BY <1>2, <2>1, <2>2
  <1>6. ASSUME NEW x \in X, NEW y \in X, x.key = y.key PROVE x = y
    <2>1. PICK f \in F : x \in Unmarked(f)
      OBVIOUS
    <2>2. PICK g \in F : y \in Unmarked(g)
      OBVIOUS
    <2>3. PICK i \in DOMAIN parquet[f.id] : x.key = parquet[f.id][i].key
      BY <1>2, <2>1
    <2>4. PICK j \in DOMAIN parquet[g.id] : y.key = parquet[g.id][j].key
      BY <1>2, <2>2
    <2>5. f \in files /\ g \in files
      BY <1>1
    <2>6. parquet[f.id][i].key = parquet[g.id][j].key
      BY <1>6, <2>3, <2>4
    <2>7. f = g
      BY <2>5, <2>6 DEF HInv, KeysOnce
    <2>. QED
      BY <1>2, <1>6, <2>1, <2>2, <2>7
  <1>. QED
    BY <1>3, <1>4, <1>5, <1>6 DEF Mergeable

LEMMA HCompact ==
  ASSUME HInv, Grows, NEW n \in DOMAIN Now, Compact(n)
  PROVE  HInv'
  <1>. last \in Nat /\ nextId \in Nat \ {0}
    BY DEF Grows
  <1>a. PICK t : t = LiveTable(n)
    OBVIOUS
  <1>1. t \in Live(tables) /\ t.name = n /\ t.id \in UsedIds
    BY <1>a, LakeNow
  <1>b. PICK table : table = t.id
    OBVIOUS
  <1>2. PICK F \in SUBSET {f \in LiveFiles(table) : \A d \in deletes : d.file # f.id} :
           /\ Cardinality(F) > 1
           /\ \A f, g \in F : Layout(table, f.begin) = Layout(table, g.begin)
           /\ LET rows == SetToSeq(UNION {Unmarked(f) : f \in F})
              IN /\ files' = (files \ F) \cup {MergedFile(table, rows, \A f \in F : f.stats # NULL)}
                 /\ parquet' = Put(parquet, nextId, MergedRows(rows))
           /\ nextId' = nextId + 1
           /\ Record(Now)
           /\ UNCHANGED <<tables, columns, deletes, inlined, posfiles>>
    BY <1>a, <1>b DEF Compact
  <1>c. PICK X : X = UNION {Unmarked(f) : f \in F}
    OBVIOUS
  <1>d. PICK rows : rows = SetToSeq(X)
    OBVIOUS
  <1>e. PICK phys : phys = MergedRows(rows)
    OBVIOUS
  <1>f. PICK measured : measured = \A f \in F : f.stats # NULL
    OBVIOUS
  <1>g. PICK m : m = MergedFile(table, rows, measured)
    OBVIOUS
  <1>h. PICK now : now = Now
    OBVIOUS
  <1>3. /\ files' = (files \ F) \cup {m} /\ parquet' = Put(parquet, nextId, phys)
        /\ nextId' = nextId + 1 /\ Record(now)
        /\ UNCHANGED <<tables, columns, deletes, inlined, posfiles>>
    BY <1>2, <1>c, <1>d, <1>e, <1>f, <1>g, <1>h
  <1>4. /\ F \subseteq files
        /\ \A f \in F : f.table = table /\ f.end = NULL /\ \A d \in deletes : d.file # f.id
    BY <1>2 DEF LiveFiles, Live
  <1>5. IsFiniteSet(F) /\ F # {}
    <2>1. IsFiniteSet(F)
      BY <1>4, FS_Subset DEF HInv, Bounded
    <2>. QED
      BY <1>2, <2>1, FS_EmptySet
  <1>i. PICK first \in F : TRUE
    BY <1>5
  <1>j. PICK layout : layout = Layout(table, first.begin)
    OBVIOUS
  <1>6. ASSUME NEW f \in F
        PROVE  /\ f \in files /\ IsFiniteSet(Unmarked(f)) /\ Unmarked(f) # {}
               /\ \A x \in Unmarked(f) :
                     /\ Row(x) /\ x.key[1] \in UsedIds /\ x.origin \in f.begin..last
                     /\ Layout(table, x.origin) = layout /\ DOMAIN x.cells = NamesOf(layout)
                     /\ \E i \in DOMAIN parquet[f.id] : x.key = parquet[f.id][i].key
               /\ \A x, y \in Unmarked(f) : x.key = y.key => x = y
               /\ \A s : FileRows(f, s) = {Plain(x, layout) : x \in {y \in Unmarked(f) : y.origin <= s}}
    <2>1. f.table = table /\ layout = Layout(f.table, f.begin) /\ f \in files
      BY <1>2, <1>4, <1>j
    <2>2. \A d \in deletes : d.file # f.id
      BY <1>4
    <2>. QED
      BY <2>1, <2>2, UnmarkedRows
  <1>7. Mergeable(X, table, layout)
    <2>1. Sources(F, table, layout)
      BY <1>2, <1>4, <1>5, <1>j DEF Sources
    <2>. QED
      BY <1>c, <2>1, SourcesMerge
  <1>8. /\ DataRow(m) /\ m.id = nextId /\ m.table = table /\ Dates(m)' /\ m.table \in UsedIds'
        /\ Len(phys) \in Nat \ {0} /\ DOMAIN phys = 1..Len(phys)
        /\ \A r \in {phys[i] : i \in DOMAIN phys} : FileHolds(m, r)'
        /\ \A i \in DOMAIN phys : \E x \in X : phys[i].key = x.key
        /\ \A i, j \in DOMAIN phys : phys[i].key = phys[j].key => i = j
        /\ layout = Layout(m.table, m.begin)'
        /\ \A s \in Nat : {y \in Stored(phys, layout, s) : VisibleAt(m, s)}
                             = {Plain(x, layout) : x \in {y \in X : y.origin <= s}}
    <2>1. table \in UsedIds
      BY <1>1, <1>b
    <2>2. nextId' = nextId + 1
      BY <1>3
    <2>3. Holds(m, phys, table, layout, X)
      BY <1>7, <1>d, <1>e, <1>g, <2>1, <2>2, Merged
    <2>. QED
      BY <2>3 DEF Holds
  <1>9. Writes(m, phys, F)
    BY <1>3, <1>4, <1>8 DEF Writes
  <1>10. \A j \in DOMAIN phys : \E f \in F : \E i \in DOMAIN parquet[f.id] : phys[j].key = parquet[f.id][i].key
    <2>1. ASSUME NEW j \in DOMAIN phys
          PROVE  \E f \in F : \E i \in DOMAIN parquet[f.id] : phys[j].key = parquet[f.id][i].key
      <3>1. PICK x \in X : phys[j].key = x.key
        BY <1>8
      <3>2. PICK f \in F : x \in Unmarked(f)
        BY <1>c
      <3>3. PICK i \in DOMAIN parquet[f.id] : x.key = parquet[f.id][i].key
        BY <1>6, <3>2
      <3>. QED
        BY <3>1, <3>3
    <2>. QED
      BY <2>1
  <1>11. OwnKeys(phys, F)
    <2>1. ASSUME NEW f \in files \ F, NEW i \in DOMAIN parquet[f.id], NEW j \in DOMAIN phys
          PROVE  parquet[f.id][i].key # phys[j].key
      <3>1. PICK g \in F : \E k \in DOMAIN parquet[g.id] : phys[j].key = parquet[g.id][k].key
        BY <1>10
      <3>2. PICK k \in DOMAIN parquet[g.id] : phys[j].key = parquet[g.id][k].key
        BY <3>1
      <3>. QED
        BY <1>4, <3>2 DEF HInv, KeysOnce
    <2>2. ASSUME NEW tr \in DOMAIN inlined, NEW r \in inlined[tr], NEW j \in DOMAIN phys
          PROVE  phys[j].key # r.key
      <3>1. PICK g \in F : \E k \in DOMAIN parquet[g.id] : phys[j].key = parquet[g.id][k].key
        BY <1>10
      <3>2. PICK k \in DOMAIN parquet[g.id] : phys[j].key = parquet[g.id][k].key
        BY <3>1
      <3>. QED
        BY <1>4, <3>2 DEF HInv, KeysOnce
    <2>. QED
      BY <1>3, <1>8, <2>1, <2>2 DEF OwnKeys
  <1>12. /\ FilesKnown' /\ RowsKnown' /\ IsFiniteSet(files') /\ KeysOnce' /\ DeletesKnown'
         /\ \A u, s : FiledAt(u, s)' = (UNION {FileRows(f, s) : f \in VisibleFiles(u, s) \ F})
                         \cup {x \in Stored(phys, layout, s) : m.table = u /\ VisibleAt(m, s)}
    BY <1>8, <1>9, <1>11, FileCommit
  <1>13. TrackersKnown' /\ \A u, s : WaitingAt(u, s)' = WaitingAt(u, s)
    BY <1>3, KeptTrackers, SameWaiting DEF HInv
  <1>14. ASSUME NEW u, NEW s, s \in 1..last \/ s = last + 1
         PROVE  RowsAt(u, s)' = RowsAt(u, s)
    <2>1. s \in Nat
      BY <1>14
    <2>. DEFINE merged == {Plain(x, layout) : x \in {y \in X : y.origin <= s}}
                kept == UNION {FileRows(f, s) : f \in VisibleFiles(u, s) \ F}
                sources == UNION {FileRows(f, s) : f \in VisibleFiles(u, s) \cap F}
    <2>2. FiledAt(u, s)' = kept \cup {x \in merged : u = table}
      <3>1. {x \in Stored(phys, layout, s) : m.table = u /\ VisibleAt(m, s)}
               = {x \in {y \in Stored(phys, layout, s) : VisibleAt(m, s)} : u = table}
        BY <1>8
      <3>2. {y \in Stored(phys, layout, s) : VisibleAt(m, s)} = merged
        BY <1>8, <2>1
      <3>3. FiledAt(u, s)' = kept \cup {x \in Stored(phys, layout, s) : m.table = u /\ VisibleAt(m, s)}
        BY <1>12
      <3>. HIDE DEF merged, kept
      <3>. QED
        BY <3>1, <3>2, <3>3
    <2>3. sources = {x \in merged : u = table}
      <3>1. ASSUME NEW f \in F, NEW x \in FileRows(f, s) PROVE x \in merged
        <4>1. x \in {Plain(z, layout) : z \in {y \in Unmarked(f) : y.origin <= s}}
          BY <1>6, <3>1
        <4>. QED
          BY <1>c, <4>1
      <3>2. ASSUME NEW x \in merged, u = table PROVE x \in sources
        <4>1. PICK y \in X : y.origin <= s /\ x = Plain(y, layout)
          BY <3>2
        <4>2. PICK f \in F : y \in Unmarked(f)
          BY <1>c
        <4>3. x \in FileRows(f, s)
          BY <1>6, <4>1, <4>2
        <4>4. f.begin \in 1..last /\ y.origin \in f.begin..last
          BY <1>6, <4>2 DEF HInv, FilesKnown, Dates
        <4>5. VisibleAt(f, s)
          BY <1>4, <2>1, <4>1, <4>4 DEF VisibleAt
        <4>6. f \in VisibleFiles(u, s) \cap F
          BY <1>4, <3>2, <4>5 DEF VisibleFiles
        <4>. QED
          BY <4>3, <4>6
      <3>3. \A f \in VisibleFiles(u, s) \cap F : u = table
        BY <1>4 DEF VisibleFiles
      <3>. HIDE DEF merged
      <3>. QED
        BY <3>1, <3>2, <3>3
    <2>4. FiledAt(u, s) = kept \cup sources
      BY DEF FiledAt
    <2>. HIDE DEF merged, kept, sources
    <2>. QED
      BY <1>13, <2>2, <2>3, <2>4 DEF RowsAt
  <1>. QED
    BY <1>3, <1>12, <1>13, <1>14, <1>h, HSameRows


LEMMA HDropTable ==
  ASSUME HInv, Grows, NEW n \in DOMAIN Now, DropTable(n)
  PROVE  HInv'
  <1>. last \in Nat
    BY DEF Grows
  <1>a. PICK t : t = LiveTable(n)
    OBVIOUS
  <1>b. PICK now : now = Restrict(Now, DOMAIN Now \ {n})
    OBVIOUS
  <1>c. PICK R : R = LiveColumns(t.id)
    OBVIOUS
  <1>d. PICK F : F = LiveFiles(t.id)
    OBVIOUS
  <1>e. PICK e : e = [t EXCEPT !.end = last + 1]
    OBVIOUS
  <1>1. t \in Live(tables) /\ t.name = n /\ t.id \in UsedIds
    BY <1>a, LakeNow
  <1>2. t \in tables /\ t.end = NULL /\ TableRow(t) /\ Dates(t) /\ t.name \in TableNames
    BY <1>1 DEF Live, HInv, TablesKnown
  <1>3. /\ tables' = (tables \ {t}) \cup {e}
        /\ columns' = Close(columns, R, last + 1)
        /\ files' = Close(files, F, last + 1)
        /\ Record(now) /\ last' = last + 1 /\ last < MaxSnapshot
        /\ UNCHANGED <<deletes, inlined, parquet, posfiles, nextId>>
    BY <1>a, <1>b, <1>c, <1>d, <1>e DEF DropTable, Close, Record
  <1>4. /\ TableRow(e) /\ e.id = t.id /\ e.name = t.name /\ e.begin = t.begin /\ e.end = last + 1
        /\ ~VisibleAt(e, last + 1) /\ \A s \in 1..last : VisibleAt(e, s) <=> VisibleAt(t, s)
    <2>1. TableRow(e) /\ e.id = t.id /\ e.name = t.name /\ e.begin = t.begin /\ e.end = last + 1
      BY <1>2, <1>e, EndedTable
    <2>. QED
      BY <1>2, <2>1, ClosedRow
  <1>5. TablesKnown'
    <2>1. Dates(e)'
      BY <1>2, <1>3, <1>4, GrowingBounds DEF Dates
    <2>2. \A u \in tables : TableRow(u) /\ Dates(u)' /\ u.id \in UsedIds' /\ u.name \in TableNames
      BY GrowingBounds DEF HInv, TablesKnown
    <2>3. \A u \in tables' : u = e \/ (u \in tables /\ u # t)
      BY <1>3
    <2>4. \A u \in tables' : TableRow(u) /\ Dates(u)' /\ u.id \in UsedIds' /\ u.name \in TableNames
      BY <1>2, <1>4, <2>1, <2>2, <2>3
    <2>5. \A u, v \in tables' : u.id = v.id => u = v
      BY <1>2, <1>4, <2>3 DEF HInv, TablesKnown
    <2>. QED
      BY <2>4, <2>5 DEF TablesKnown
  <1>6. NamesKnown'
    <2>. SUFFICES ASSUME NEW s \in 1..last'
                  PROVE  /\ DOMAIN history'[s] = {u.name : u \in {v \in tables' : VisibleAt(v, s)}}
                         /\ \A u, v \in tables' :
                               VisibleAt(u, s) /\ VisibleAt(v, s) /\ u.name = v.name => u = v
      BY DEF NamesKnown
    <2>1. CASE s \in 1..last
      <3>1. history'[s] = history[s]
        BY <1>3, <2>1, RecordKeeps DEF HInv
      <3>2. VisibleAt(e, s) <=> VisibleAt(t, s)
        BY <1>4, <2>1
      <3>3. {u.name : u \in {v \in tables' : VisibleAt(v, s)}}
               = {u.name : u \in {v \in tables : VisibleAt(v, s)}}
        BY <1>2, <1>3, <1>4, <3>2
      <3>. QED
        BY <1>2, <1>3, <1>4, <2>1, <3>1, <3>2, <3>3 DEF HInv, NamesKnown
    <2>2. CASE s = last + 1
      <3>1. history'[s] = now /\ DOMAIN now = DOMAIN Now \ {n}
        BY <1>3, <1>b, <2>2, RecordKeeps DEF HInv, Restrict
      <3>2. \A u \in tables : VisibleAt(u, s) <=> u.end = NULL
        BY <2>2, VisibleNow DEF HInv, TablesKnown
      <3>3. {v \in tables' : VisibleAt(v, s)} = Live(tables) \ {t}
        BY <1>3, <1>4, <2>2, <3>2 DEF Live
      <3>4. \A u, v \in Live(tables) : u.name = v.name => u = v
        BY LakeNow
      <3>5. DOMAIN Now = {u.name : u \in Live(tables)}
        BY LakeNow
      <3>6. {u.name : u \in Live(tables) \ {t}} = DOMAIN Now \ {n}
        BY <1>1, <3>4, <3>5
      <3>. QED
        BY <3>1, <3>3, <3>4, <3>6
    <2>. QED
      BY <1>3, <2>1, <2>2
  <1>7. R \subseteq Live(columns) /\ EditsColumns(R, {})
    BY <1>3, <1>c DEF LiveColumns, EditsColumns
  <1>8. /\ ColumnsKnown'
        /\ {c \in columns' : VisibleAt(c, last + 1)} = Live(columns) \ R
    <2>1. \A c, d \in (Live(columns) \ R) \cup {} :
             c.table = d.table /\ (c.id = d.id \/ c.name = d.name) => c = d
      <3>1. ASSUME NEW c \in Live(columns), NEW d \in Live(columns),
                   c.table = d.table, c.id = d.id \/ c.name = d.name
            PROVE  c = d
        <4>1. c \in LiveColumns(c.table) /\ d \in LiveColumns(c.table)
          BY <3>1 DEF LiveColumns
        <4>. QED
          BY <3>1, <4>1, LiveLayout
      <3>. QED
        BY <3>1
    <2>2. ColumnsKnown
      BY DEF HInv
    <2>3. PICK N : N = {}
      OBVIOUS
    <2>4. /\ EditsColumns(R, N) /\ \A c, d \in (Live(columns) \ R) \cup N :
                c.table = d.table /\ (c.id = d.id \/ c.name = d.name) => c = d
      BY <1>7, <2>1, <2>3
    <2>5. \A c \in N : c.table \in UsedIds' /\ c.id \in Nat /\ c.name \in ColumnNames
      BY <2>3
    <2>6. ColumnsKnown' /\ {c \in columns' : VisibleAt(c, last + 1)} = (Live(columns) \ R) \cup N
      BY <1>3, <2>2, <2>4, <2>5, EditedColumns
    <2>. QED
      BY <2>3, <2>6
  <1>9. /\ FilesKnown' /\ RowsKnown' /\ IsFiniteSet(files')
        /\ TrackersKnown' /\ KeysOnce' /\ DeletesKnown'
        /\ \A u, s : s \in 1..last \/ (s = last + 1 /\ u # t.id) => RowsAt(u, s)' = RowsAt(u, s)
    <2>1. F \in SUBSET Live(files) /\ \A f \in F : f.table = t.id
      BY <1>d DEF LiveFiles
    <2>. QED
      BY <1>3, <2>1, FilesLeave
  <1>10. Bounded' /\ TablesHaveColumns' /\ Numbered'
    <2>. DEFINE close == [c \in R |-> [c EXCEPT !.end = last + 1]]
                ended == {close[c] : c \in R}
    <2>1. R \subseteq columns /\ IsFiniteSet(R) /\ IsFiniteSet(columns \ R)
      BY <1>7, FS_Subset DEF Live, HInv, Bounded
    <2>2. columns' = (columns \ R) \cup ended /\ DOMAIN close = R
      BY <1>3 DEF Close
    <2>3. \A c \in R : close[c].table = c.table
      BY <2>1, EndedColumn DEF HInv, ColumnsKnown
    <2>. HIDE DEF close
    <2>4. IsFiniteSet(ended)
      BY <2>1, <2>2, FiniteImage
    <2>5. IsFiniteSet(columns')
      <3>. HIDE DEF ended
      <3>. QED
        BY <2>1, <2>2, <2>4, FS_Union
    <2>6. IsFiniteSet(files') /\ last' <= MaxSnapshot /\ nextId' \in Nat \ {0}
      <3>1. IsFiniteSet(files')
        BY <1>9
      <3>. QED
        BY <1>3, <3>1, CatalogAssumption DEF HInv, Bounded
    <2>7. \A u \in tables' : \E v \in tables : v.id = u.id
      BY <1>2, <1>3, <1>4
    <2>8. \A c \in columns : \E d \in columns' : d.table = c.table
      BY <2>2, <2>3
    <2>9. TablesHaveColumns'
      BY <2>7, <2>8 DEF HInv, TablesHaveColumns
    <2>10. Numbered'
      BY <1>3, RecordKeeps DEF HInv
    <2>. QED
      BY <2>5, <2>6, <2>9, <2>10 DEF Bounded
  <1>11. HistoriesKnown'
    <2>1. ASSUME NEW s \in 1..last, NEW u PROVE SeenAt(u, s)' = SeenAt(u, s)
      <3>1. RowsAt(u, s)' = RowsAt(u, s)
        BY <1>9
      <3>2. Layout(u, s)' = Layout(u, s)
        BY DEF Grows
      <3>. QED
        BY <3>1, <3>2 DEF SeenAt
    <2>2. ASSUME NEW u \in tables', NEW s \in 1..last, VisibleAt(u, s)
          PROVE  \E v \in tables : VisibleAt(v, s) /\ v.id = u.id /\ v.name = u.name
      BY <1>2, <1>3, <1>4, <2>2
    <2>3. ASSUME NEW u \in tables', NEW s, s = last + 1, VisibleAt(u, s)
          PROVE  now[u.name] = SeenAt(u.id, s)'
      <3>1. u \in tables /\ u # t
        BY <1>3, <1>4, <2>3
      <3>2. u \in Live(tables)
        BY <2>3, <3>1, VisibleNow DEF Live, HInv, TablesKnown
      <3>3. u.id # t.id /\ u.name # n
        BY <1>1, <1>2, <3>1, <3>2, LakeNow DEF HInv, TablesKnown
      <3>4. u.name \in DOMAIN Now /\ Now[u.name] = SeenAt(u.id, s)
        BY <2>3, <3>2, LakeNow
      <3>5. now[u.name] = Now[u.name]
        BY <1>b, <3>3, <3>4 DEF Restrict
      <3>6. RowsAt(u.id, s)' = RowsAt(u.id, s)
        BY <1>9, <2>3, <3>3
      <3>7. Layout(u.id, s)' = {[id |-> c.id, name |-> c.name] :
                                   c \in {d \in Live(columns) \ R : d.table = u.id}}
        BY <1>8, <2>3 DEF Layout, ColumnsOf
      <3>8. {d \in Live(columns) \ R : d.table = u.id} = LiveColumns(u.id)
        BY <1>c, <3>3 DEF LiveColumns
      <3>9. Layout(u.id, s)' = Layout(u.id, s)
        BY <2>3, <3>7, <3>8, LayoutNow DEF HInv
      <3>10. SeenAt(u.id, s)' = SeenAt(u.id, s)
        BY <3>6, <3>9 DEF SeenAt
      <3>. QED
        BY <3>4, <3>5, <3>10
    <2>. QED
      BY <1>3, <2>1, <2>2, <2>3, HistoriesGoOn DEF HInv
  <1>. QED
    BY <1>5, <1>6, <1>8, <1>9, <1>10, <1>11 DEF HInv


-----------------------------------------------------------------------------
(* The invariant.                                                          *)

LEMMA HInvInit ==
  ASSUME CatalogInit
  PROVE  HInv
  <1>. last = 0 /\ tables = {} /\ columns = {} /\ files = {} /\ deletes = {} /\ nextId = 1
    BY DEF CatalogInit
  <1>. inlined = <<>> /\ posfiles = <<>> /\ history = <<>>
    BY DEF CatalogInit
  <1>1. 1..last = {} /\ DOMAIN inlined = {} /\ DOMAIN posfiles = {}
    OBVIOUS
  <1>2. Numbered
    BY DatedInit DEF Dated
  <1>3. Bounded
    BY FS_EmptySet, CatalogAssumption DEF Bounded
  <1>4. TablesKnown /\ NamesKnown /\ HistoriesKnown /\ TablesHaveColumns
    BY <1>1 DEF TablesKnown, NamesKnown, HistoriesKnown, TablesHaveColumns
  <1>5. ColumnsKnown /\ FilesKnown /\ RowsKnown /\ TrackersKnown
    BY <1>1 DEF ColumnsKnown, FilesKnown, RowsKnown, TrackersKnown
  <1>6. KeysOnce /\ DeletesKnown
    BY <1>1 DEF KeysOnce, DeletesKnown
  <1>. QED
    BY <1>2, <1>3, <1>4, <1>5, <1>6 DEF HInv

LEMMA HInvStep ==
  ASSUME HInv, [CatalogNext]_catalogVars
  PROVE  HInv'
  <1>. Grows
    BY StepGrows
  <1>1. CASE \E n \in TableNames : CreateTable(n)
    BY <1>1, HCreateTable
  <1>2. ASSUME NEW n \in DOMAIN Now, TableCommit(n)
        PROVE  HInv'
    <2>1. CASE AppendRows(n)
      BY <2>1, HAppendRows
    <2>2. CASE DeleteRows(n)
      BY <2>2, HDeleteRows
    <2>3. CASE DropFile(n)
      BY <2>3, HDropFile
    <2>4. CASE \E name \in ColumnNames : AddColumn(n, name)
      BY <2>4, HAddColumn
    <2>5. CASE \E c \in LiveColumns(LiveTable(n).id) :
                  DropColumn(n, c) \/ \E name \in ColumnNames : RenameColumn(n, c, name)
      <3>1. PICK c \in LiveColumns(LiveTable(n).id) :
                    DropColumn(n, c) \/ \E name \in ColumnNames : RenameColumn(n, c, name)
        BY <2>5
      <3>. QED
        BY <3>1, HDropColumn, HRenameColumn
    <2>6. CASE Compact(n)
      BY <2>6, HCompact
    <2>7. CASE InlineRow(n)
      BY <2>7, HInlineRow
    <2>8. CASE FlushInlined(n)
      BY <2>8, HFlushInlined
    <2>9. CASE DropTable(n)
      BY <2>9, HDropTable
    <2>. QED
      BY <1>2, <2>1, <2>2, <2>3, <2>4, <2>5, <2>6, <2>7, <2>8, <2>9 DEF TableCommit
  <1>3. CASE Cleanup \/ UNCHANGED catalogVars
    BY <1>3, HQuiet
  <1>. QED
    BY <1>1, <1>2, <1>3 DEF CatalogNext

-----------------------------------------------------------------------------
(* The walk of an expression and its value, as the functions they are.     *)

WalkAt(e, walk, i) ==
    LET node == e[i]
        arg(k) == e[node.args[k]]
    IN CASE Splits(node) -> walk[node.args[1]] \cup walk[node.args[2]]
         [] ~Splits(node) /\ node.kind = "BinaryExpr" -> Comparison(node.label, arg(1), arg(2))
         [] node.kind = "Function" -> NullCheck(node.label, arg(1))
         [] OTHER -> {}

ValueAt(e, cells, value, i) ==
    LET arg(k) == value[e[i].args[k]]
    IN CASE e[i].kind = "Column"     -> cells[e[i].label]
         [] e[i].kind = "Literal"    -> e[i].label
         [] e[i].kind = "Function"   -> Invoke(e[i].label, arg(1))
         [] e[i].kind = "BinaryExpr" -> Apply(e[i].label, arg(1), arg(2))

(* Either of them, so that what recursion needs is proved once.            *)
At(what, e, cells, g, i) ==
    IF what = "clauses" THEN WalkAt(e, g, i) ELSE ValueAt(e, cells, g, i)

Whole(what, e, cells) ==
    CHOOSE g : g = [i \in DOMAIN e |-> At(what, e, cells, g, i)]

LEMMA WalkIsWhole ==
  ASSUME NEW e, e # NULL, NEW cells
  PROVE  ExtractClauses(e) = Whole("clauses", e, cells)[Len(e)]
  BY DEF ExtractClauses, Whole, At, WalkAt

LEMMA ValueIsWhole ==
  ASSUME NEW e, NEW cells
  PROVE  Evaluate(e, cells) = Whole("value", e, cells)[Len(e)]
  BY DEF Evaluate, Whole, At, ValueAt

(* A node is worked out from its operands.                                 *)
LEMMA OperandsDecide ==
  ASSUME NEW e, WellFormed(e), NEW cells, NEW what \in {"clauses", "value"},
         NEW i \in DOMAIN e, NEW g, NEW h, \A j \in DOMAIN e : j < i => g[j] = h[j]
  PROVE  At(what, e, cells, g, i) = At(what, e, cells, h, i)
  <1>1. \A k \in DOMAIN e[i].args : g[e[i].args[k]] = h[e[i].args[k]]
    BY DEF WellFormed
  <1>2. e[i].kind = "Function" => 1 \in DOMAIN e[i].args
    BY DEF WellFormed, Arity
  <1>3. e[i].kind = "BinaryExpr" => 1 \in DOMAIN e[i].args /\ 2 \in DOMAIN e[i].args
    BY DEF WellFormed, Arity
  <1>4. WalkAt(e, g, i) = WalkAt(e, h, i)
    <2>1. CASE Splits(e[i])
      BY <1>1, <1>3, <2>1 DEF WalkAt, Splits
    <2>2. CASE ~Splits(e[i])
      BY <2>2 DEF WalkAt
    <2>. QED
      BY <2>1, <2>2
  <1>5. ValueAt(e, cells, g, i) = ValueAt(e, cells, h, i)
    BY <1>1, <1>2, <1>3 DEF ValueAt
  <1>. QED
    BY <1>4, <1>5 DEF At

LEMMA WholeUnfolds ==
  ASSUME NEW e, WellFormed(e), NEW cells, NEW what \in {"clauses", "value"}, NEW i \in DOMAIN e
  PROVE  Whole(what, e, cells)[i] = At(what, e, cells, Whole(what, e, cells), i)
  <1>. DEFINE Upto(g, k) == g = [j \in 1..k |-> At(what, e, cells, g, j)]
  <1>1. PICK n \in Nat : DOMAIN e = 1..n
    BY DEF WellFormed
  <1>. DEFINE missing == {k \in 0..n : ~\E g : Upto(g, k)}
  <1>2. missing = {}
    <2>. SUFFICES ASSUME missing # {} PROVE FALSE
      OBVIOUS
    <2>1. missing \in SUBSET Int /\ IsFiniteSet(missing)
      <3>1. missing \in SUBSET (0..n) /\ IsFiniteSet(0..n)
        BY <1>1, FS_Interval
      <3>2. missing \in SUBSET Int
        OBVIOUS
      <3>3. IsFiniteSet(missing)
        <4>. HIDE DEF missing
        <4>. QED
          BY <3>1, FS_Subset
      <3>. QED
        BY <3>2, <3>3
    <2>2. PICK k \in missing : \A j \in missing : k <= j
      <3>. HIDE DEF missing
      <3>. QED
        BY <2>1, MinIsLeast
    <2>3. k # 0
      <3>1. Upto([j \in 1..0 |-> {}], 0)
        OBVIOUS
      <3>. QED
        BY <3>1, <2>2
    <2>4. PICK g : Upto(g, k - 1)
      <3>1. k - 1 \in 0..n /\ k - 1 \notin missing
        BY <2>2, <2>3, <1>1
      <3>. QED
        BY <3>1
    <2>5. PICK h : h = [j \in 1..k |-> IF j = k THEN At(what, e, cells, g, k) ELSE g[j]]
      OBVIOUS
    <2>6. k \in 1..n
      BY <2>2, <2>3
    <2>7. \A j \in 1..k : At(what, e, cells, h, j) = At(what, e, cells, g, j)
      <3>1. ASSUME NEW j \in 1..k PROVE At(what, e, cells, h, j) = At(what, e, cells, g, j)
        <4>1. \A x \in DOMAIN e : x < j => h[x] = g[x]
          BY <1>1, <2>5, <2>6
        <4>2. j \in DOMAIN e
          BY <1>1, <2>6
        <4>. QED
          BY <4>1, <4>2, OperandsDecide
      <3>. QED
        BY <3>1
    <2>8. \A j \in 1..(k - 1) : g[j] = At(what, e, cells, g, j)
      BY <2>4
    <2>9. \A j \in 1..k : h[j] = At(what, e, cells, g, j)
      BY <2>5, <2>6, <2>8
    <2>10. Upto(h, k)
      BY <2>5, <2>7, <2>9
    <2>. QED
      BY <2>2, <2>10
  <1>3. \E g : Upto(g, n)
    BY <1>1, <1>2
  <1>4. \E g : g = [j \in DOMAIN e |-> At(what, e, cells, g, j)]
    BY <1>1, <1>3
  <1>5. Whole(what, e, cells) = [j \in DOMAIN e |-> At(what, e, cells, Whole(what, e, cells), j)]
    BY <1>4 DEF Whole
  <1>. QED
    BY <1>5

(* A clause of the walk, and a row's value for it.                         *)
ClauseOf(cl, e) ==
    /\ cl.op \in CompareOps \cup NullOps
    /\ cl.op \in CompareOps => cl.lit \in Int
    /\ cl.col \in Names(e)

LEMMA ComparisonTrue ==
  ASSUME NEW e, WellFormed(e), e # NULL, NEW cells, NEW value, value = Whole("value", e, cells),
         NEW i \in DOMAIN e, e[i].kind = "BinaryExpr", ~Splits(e[i]),
         NEW cl \in Comparison(e[i].label, e[e[i].args[1]], e[e[i].args[2]])
  PROVE  /\ ClauseOf(cl, e)
         /\ value[i] = TRUE => Satisfies(cl.op, cl.lit, cells[cl.col])
  <1>. DEFINE a == e[i].args[1]
              b == e[i].args[2]
  <1>1. /\ a \in DOMAIN e /\ b \in DOMAIN e
        /\ Labelled(e[a]) /\ Labelled(e[b])
    BY DEF WellFormed, Arity
  <1>2. /\ e[i].label \in DOMAIN BinopToAtomic
        /\ e[a].kind = "Column" /\ e[b].kind = "Literal" /\ e[b].label # NULL
        /\ cl = [col |-> e[a].label, op |-> BinopToAtomic[e[i].label], lit |-> e[b].label]
    BY DEF Comparison, AsColumn, AsLiteral
  <1>3. e[b].label \in Int
    BY <1>1, <1>2 DEF Labelled
  <1>4. value[a] = cells[e[a].label] /\ value[b] = e[b].label
    BY <1>1, <1>2, WholeUnfolds DEF At, ValueAt
  <1>5. value[i] = Apply(e[i].label, value[a], value[b])
    BY WholeUnfolds DEF At, ValueAt
  <1>6. value[i] = IF NULL \in {value[a], value[b]} THEN NULL
                   ELSE Satisfies(BinopToAtomic[e[i].label], value[b], value[a])
    BY <1>2, <1>5 DEF Apply, BinopToAtomic
  <1>7. cl.op \in CompareOps
    BY <1>2 DEF BinopToAtomic, CompareOps
  <1>8. cl.col \in Names(e)
    BY <1>1, <1>2 DEF Names
  <1>9. ASSUME value[i] = TRUE PROVE Satisfies(cl.op, cl.lit, cells[cl.col])
    BY <1>2, <1>4, <1>6, <1>9, MarkersAreNotValues
  <1>. QED
    BY <1>2, <1>3, <1>7, <1>8, <1>9 DEF ClauseOf

LEMMA NullCheckTrue ==
  ASSUME NEW e, WellFormed(e), e # NULL, NEW cells, NEW value, value = Whole("value", e, cells),
         NEW i \in DOMAIN e, e[i].kind = "Function",
         NEW cl \in NullCheck(e[i].label, e[e[i].args[1]])
  PROVE  /\ ClauseOf(cl, e)
         /\ value[i] = TRUE => Satisfies(cl.op, cl.lit, cells[cl.col])
  <1>. DEFINE a == e[i].args[1]
  <1>1. a \in DOMAIN e
    BY DEF WellFormed, Arity
  <1>2. /\ e[i].label \in {"IsNull", "IsNotNull"} /\ e[a].kind = "Column"
        /\ cl = [col |-> e[a].label,
                 op |-> IF e[i].label = "IsNull" THEN "is_null" ELSE "is_not_null", lit |-> NULL]
    BY DEF NullCheck, AsColumn
  <1>3. value[a] = cells[e[a].label]
    BY <1>1, <1>2, WholeUnfolds DEF At, ValueAt
  <1>4. value[i] = Invoke(e[i].label, value[a])
    BY WholeUnfolds DEF At, ValueAt
  <1>5. cl.op \in NullOps /\ cl.op \notin CompareOps
    BY <1>2 DEF NullOps, CompareOps
  <1>6. cl.col \in Names(e)
    BY <1>1, <1>2 DEF Names
  <1>7. value[i] = TRUE => Satisfies(cl.op, cl.lit, cells[cl.col])
    BY <1>2, <1>3, <1>4 DEF Invoke, Satisfies
  <1>. QED
    BY <1>5, <1>6, <1>7 DEF ClauseOf

LEMMA BooleanValue ==
  ASSUME NEW e, WellFormed(e), NEW cells, NEW value, value = Whole("value", e, cells),
         NEW i \in DOMAIN e, IsBoolean(e[i])
  PROVE  value[i] \in {TRUE, FALSE, NULL}
  <1>1. Labelled(e[i])
    BY DEF WellFormed
  <1>2. CASE e[i].kind = "Function"
    <2>1. value[i] = Invoke(e[i].label, value[e[i].args[1]])
      BY <1>2, WholeUnfolds DEF At, ValueAt
    <2>. QED
      BY <1>1, <1>2, <2>1 DEF Labelled, Invoke, Negation
  <1>3. CASE e[i].kind = "BinaryExpr"
    <2>1. PICK x, y : value[i] = Apply(e[i].label, x, y)
      BY <1>3, WholeUnfolds DEF At, ValueAt
    <2>2. e[i].label \in {"And", "Or"} \cup DOMAIN BinopToAtomic
      BY <1>1, <1>3 DEF Labelled, IsBoolean
    <2>3. CASE e[i].label \in {"And", "Or"}
      BY <2>1, <2>3 DEF Apply, Conjunction, Disjunction
    <2>4. CASE e[i].label \in DOMAIN BinopToAtomic
      <3>1. value[i] = IF NULL \in {x, y} THEN NULL ELSE Satisfies(BinopToAtomic[e[i].label], y, x)
        BY <2>1, <2>4 DEF Apply, BinopToAtomic
      <3>2. \A op \in CompareOps : Satisfies(op, y, x) \in BOOLEAN
        BY DEF Satisfies, CompareOps
      <3>3. BinopToAtomic[e[i].label] \in CompareOps
        BY <2>4 DEF BinopToAtomic, CompareOps
      <3>. QED
        BY <3>1, <3>2, <3>3
    <2>. QED
      BY <2>2, <2>3, <2>4
  <1>. QED
    BY <1>2, <1>3 DEF IsBoolean

(* What the walk takes of a node holds of every row for which the node is  *)
(* true.                                                                   *)
LEMMA NodeImpliesClauses ==
  ASSUME NEW e, WellFormed(e), e # NULL, NEW cells,
         NEW walk, walk = Whole("clauses", e, cells), NEW value, value = Whole("value", e, cells),
         NEW i \in DOMAIN e, NEW cl \in walk[i]
  PROVE  /\ ClauseOf(cl, e)
         /\ value[i] = TRUE => Satisfies(cl.op, cl.lit, cells[cl.col])
  <1>. DEFINE Sound(j) == \A c \in walk[j] : /\ ClauseOf(c, e)
                                             /\ value[j] = TRUE => Satisfies(c.op, c.lit, cells[c.col])
              unsound  == {j \in DOMAIN e : ~Sound(j)}
  <1>1. ASSUME NEW j \in DOMAIN e, \A k \in DOMAIN e : k < j => Sound(k)
        PROVE  Sound(j)
    <2>1. walk[j] = WalkAt(e, walk, j) /\ value[j] = ValueAt(e, cells, value, j)
      BY WholeUnfolds DEF At
    <2>2. CASE Splits(e[j])
      <3>1. PICK a, b : a = e[j].args[1] /\ b = e[j].args[2]
        OBVIOUS
      <3>2. e[j].kind = "BinaryExpr" /\ e[j].label = "And"
        BY <2>2 DEF Splits
      <3>3. a \in 1..(j - 1) /\ b \in 1..(j - 1) /\ IsBoolean(e[a]) /\ IsBoolean(e[b])
        BY <3>1, <3>2 DEF WellFormed, Arity
      <3>4. j \in Nat /\ a \in DOMAIN e /\ b \in DOMAIN e /\ a < j /\ b < j
        BY <3>3 DEF WellFormed
      <3>5. Sound(a) /\ Sound(b)
        BY <1>1, <3>4
      <3>6. walk[j] = walk[a] \cup walk[b]
        BY <2>1, <2>2, <3>1, <3>2 DEF WalkAt
      <3>7. value[j] = Conjunction(value[a], value[b])
        BY <2>1, <3>1, <3>2 DEF ValueAt, Apply
      <3>8. value[a] \in {TRUE, FALSE, NULL} /\ value[b] \in {TRUE, FALSE, NULL}
        BY <3>3, <3>4, BooleanValue
      <3>9. value[j] = TRUE => value[a] = TRUE /\ value[b] = TRUE
        BY <3>7, <3>8, MarkersAreNotValues DEF Conjunction
      <3>. QED
        BY <3>5, <3>6, <3>9
    <2>3. CASE ~Splits(e[j]) /\ e[j].kind = "BinaryExpr"
      <3>1. walk[j] = Comparison(e[j].label, e[e[j].args[1]], e[e[j].args[2]])
        BY <2>1, <2>3 DEF WalkAt
      <3>. QED
        BY <2>3, <3>1, ComparisonTrue
    <2>4. CASE e[j].kind = "Function"
      <3>1. walk[j] = NullCheck(e[j].label, e[e[j].args[1]])
        BY <2>1, <2>4 DEF WalkAt, Splits
      <3>. QED
        BY <2>4, <3>1, NullCheckTrue
    <2>5. CASE e[j].kind \notin {"BinaryExpr", "Function"}
      BY <2>1, <2>5 DEF WalkAt, Splits
    <2>. QED
      BY <2>2, <2>3, <2>4, <2>5
  <1>. HIDE DEF Sound
  <1>2. unsound = {}
    <2>. SUFFICES ASSUME unsound # {} PROVE FALSE
      OBVIOUS
    <2>1. PICK n \in Nat : DOMAIN e = 1..n
      BY DEF WellFormed
    <2>2. unsound \in SUBSET (1..n) /\ unsound \in SUBSET Int /\ IsFiniteSet(1..n)
      BY <2>1, FS_Interval
    <2>3. PICK j \in unsound : \A k \in unsound : j <= k
      <3>. HIDE DEF unsound
      <3>1. IsFiniteSet(unsound)
        BY <2>2, FS_Subset
      <3>. QED
        BY <2>2, <3>1, MinIsLeast
    <2>4. \A k \in DOMAIN e : k < j => Sound(k)
      BY <2>1, <2>3
    <2>. QED
      BY <1>1, <2>3, <2>4
  <1>3. Sound(i)
    BY <1>2
  <1>. QED
    BY <1>3 DEF Sound

(* Every clause that is pushed holds of every row the predicate keeps.     *)
LEMMA ClausesAreImplied ==
  ASSUME NEW predicate, predicate = NULL \/ WellFormed(predicate),
         NEW cl \in ExtractClauses(predicate)
  PROVE  /\ ClauseOf(cl, predicate)
         /\ \A row : Matches(row, predicate) => Satisfies(cl.op, cl.lit, row.cells[cl.col])
  <1>1. predicate # NULL /\ WellFormed(predicate)
    BY DEF ExtractClauses
  <1>2. Len(predicate) \in DOMAIN predicate
    BY <1>1 DEF WellFormed
  <1>3. ASSUME NEW cells
        PROVE  /\ ClauseOf(cl, predicate)
               /\ Evaluate(predicate, cells) = TRUE => Satisfies(cl.op, cl.lit, cells[cl.col])
    <2>1. cl \in Whole("clauses", predicate, cells)[Len(predicate)]
      BY <1>1, WalkIsWhole
    <2>. QED
      BY <1>1, <1>2, <2>1, NodeImpliesClauses, ValueIsWhole
  <1>. QED
    BY <1>1, <1>3 DEF Matches

-----------------------------------------------------------------------------
(* What the statistics of a file say of it.                                *)

Chunk(rows, name) == [i \in DOMAIN rows |-> rows[i].cells[name]]

ChunkStats(vals) == ColumnStats(vals, \E i \in DOMAIN vals : vals[i] = NaN, LAMBDA v : v)

Describes(stats, rows, layout) ==
    /\ DOMAIN stats = {c.id : c \in layout}
    /\ \A c \in layout : stats[c.id] = ChunkStats(Chunk(rows, c.name))

Valued(row, layout) == \A c \in layout : row.cells[c.name] \in CellValues

MeasuredBy(stats, rows, layout) ==
    /\ \A i \in DOMAIN rows : Valued(rows[i], layout)
    /\ stats = NULL \/ Describes(stats, rows, layout)

FilesMeasured == \A f \in files : MeasuredBy(f.stats, parquet[f.id], Layout(f.table, f.begin))

WaitingValued == \A tr \in DOMAIN inlined : \A r \in inlined[tr] : Valued(r, tr.layout)

Measured == FilesMeasured /\ WaitingValued

LEMMA StatsDescribe ==
  ASSUME NEW cols, NEW layout, layout = LayoutOf(cols), Unambiguous(layout), NEW rows
  PROVE  Describes(FileStats(cols, rows), rows, layout)
  <1>1. {c.id : c \in cols} = {c.id : c \in layout}
    <2>1. ASSUME NEW c \in cols PROVE \E d \in layout : d.id = c.id
      <3>1. PICK d \in layout : d = [id |-> c.id, name |-> c.name]
        BY DEF LayoutOf
      <3>. QED
        BY <3>1
    <2>2. \A d \in layout : \E c \in cols : d.id = c.id
      BY DEF LayoutOf
    <2>. QED
      BY <2>1, <2>2
  <1>2. ASSUME NEW d \in layout
        PROVE  (CHOOSE c \in cols : c.id = d.id).name = d.name
    <2>1. PICK chosen : chosen = CHOOSE c \in cols : c.id = d.id
      OBVIOUS
    <2>2. \E c \in cols : c.id = d.id
      BY DEF LayoutOf
    <2>3. chosen \in cols /\ chosen.id = d.id
      BY <2>1, <2>2
    <2>4. PICK e \in layout : e = [id |-> chosen.id, name |-> chosen.name]
      BY <2>3 DEF LayoutOf
    <2>5. e.id = d.id /\ e.name = chosen.name
      BY <2>3, <2>4
    <2>6. e = d
      BY <2>5 DEF Unambiguous
    <2>. QED
      BY <2>1, <2>5, <2>6
  <1>3. ASSUME NEW d \in layout
        PROVE  FileStats(cols, rows)[d.id] = ChunkStats(Chunk(rows, d.name))
    <2>1. PICK id : id = d.id
      OBVIOUS
    <2>2. PICK name : name = (CHOOSE c \in cols : c.id = id).name
      OBVIOUS
    <2>3. PICK vals : vals = [i \in DOMAIN rows |-> rows[i].cells[name]]
      OBVIOUS
    <2>4. id \in {c.id : c \in cols} /\ name = d.name /\ vals = Chunk(rows, d.name)
      BY <1>1, <1>2, <2>1, <2>2, <2>3 DEF Chunk
    <2>5. FileStats(cols, rows)[id] = ColumnStats(vals, \E i \in DOMAIN vals : vals[i] = NaN, LAMBDA v : v)
      BY <2>2, <2>3, <2>4 DEF FileStats
    <2>. QED
      BY <2>1, <2>4, <2>5 DEF ChunkStats
  <1>4. DOMAIN FileStats(cols, rows) = {c.id : c \in cols}
    BY DEF FileStats
  <1>. QED
    BY <1>1, <1>3, <1>4 DEF Describes

(* A file that stays, or is closed, stays measured.                        *)
LEMMA MeasuredGoesOn ==
  ASSUME HInv, Grows, Measured,
         \A g \in files' :
            \/ \E f \in files : /\ g.id = f.id /\ g.table = f.table /\ g.begin = f.begin
                                /\ g.stats = f.stats /\ parquet'[g.id] = parquet[f.id]
            \/ MeasuredBy(g.stats, parquet'[g.id], Layout(g.table, g.begin)'),
         \A tr \in DOMAIN inlined' : \A r \in inlined'[tr] :
            (tr \in DOMAIN inlined /\ r \in inlined[tr]) \/ Valued(r, tr.layout)
  PROVE  Measured'
  <1>1. ASSUME NEW g \in files'
        PROVE  MeasuredBy(g.stats, parquet'[g.id], Layout(g.table, g.begin)')
    <2>. SUFFICES ASSUME NEW f \in files, g.id = f.id, g.table = f.table, g.begin = f.begin,
                         g.stats = f.stats, parquet'[g.id] = parquet[f.id]
                  PROVE  MeasuredBy(g.stats, parquet'[g.id], Layout(g.table, g.begin)')
      BY <1>1
    <2>1. MeasuredBy(f.stats, parquet[f.id], Layout(f.table, f.begin))
      BY DEF Measured, FilesMeasured
    <2>2. f.begin \in 1..last
      BY DEF HInv, FilesKnown, Dates
    <2>3. Layout(f.table, f.begin)' = Layout(f.table, f.begin)
      BY <2>2 DEF Grows
    <2>4. Layout(g.table, g.begin)' = Layout(f.table, f.begin)'
      OBVIOUS
    <2>. QED
      BY <2>1, <2>3, <2>4
  <1>2. WaitingValued'
    BY DEF Measured, WaitingValued, Valued
  <1>3. FilesMeasured'
    BY <1>1 DEF FilesMeasured, MeasuredBy, Describes, Valued
  <1>. QED
    BY <1>2, <1>3 DEF Measured

(* What is merged is measured as it was.                                   *)
LEMMA MergedMeasured ==
  ASSUME HInv, last \in Nat, NEW t, NEW layout, NEW X, Mergeable(X, t, layout),
         NEW rows, rows = SetToSeq(X), NEW measured, NEW m, m = MergedFile(t, rows, measured),
         NEW phys, phys = MergedRows(rows), \A x \in X : Valued(x, layout)
  PROVE  MeasuredBy(m.stats, phys, layout)
  <1>1. /\ \A i \in DOMAIN rows : rows[i] \in X
        /\ Origins(rows) = {x.origin : x \in X}
        /\ Min(Origins(rows)) \in Origins(rows)
    BY MergedOrigins
  <1>a. PICK from : from = Min(Origins(rows))
    OBVIOUS
  <1>2. from \in 1..last /\ Layout(t, from) = layout
    <2>1. \E x \in X : from = x.origin
      BY <1>1, <1>a
    <2>. QED
      BY <2>1 DEF Mergeable
  <1>b. PICK cols : cols = ColumnsOf(t, from)
    OBVIOUS
  <1>3. Unambiguous(layout) /\ layout = LayoutOf(cols)
    <2>1. from \in 1..(last + 1)
      BY <1>2
    <2>. QED
      BY <1>2, <1>b, <2>1, LayoutsUnambiguous DEF HInv, Layout, LayoutOf
  <1>4. m.stats = IF measured THEN FileStats(cols, rows) ELSE NULL
    BY <1>a, <1>b DEF MergedFile, FileRow
  <1>5. /\ DOMAIN phys = DOMAIN rows
        /\ \A i \in DOMAIN rows : \A c \in layout : phys[i].cells[c.name] = rows[i].cells[c.name]
    <2>1. CASE phys = rows
      BY <2>1
    <2>2. CASE phys = [i \in DOMAIN rows |-> WithOrigin(rows[i])]
      <3>1. ASSUME NEW i \in DOMAIN rows, NEW c \in layout
            PROVE  phys[i].cells[c.name] = rows[i].cells[c.name]
        <4>1. PICK x \in X : x = rows[i]
          BY <1>1
        <4>2. Row(x) /\ DOMAIN x.cells = NamesOf(layout) /\ c.name \in NamesOf(layout)
          BY DEF Mergeable, NamesOf
        <4>3. PARTIAL_SNAPSHOT_COL \notin NamesOf(layout)
          BY <1>3, NameInLayout
        <4>4. PICK r : r = WithOrigin(x)
          OBVIOUS
        <4>5. PhysicalCells(r) = x.cells /\ DOMAIN r.cells = DOMAIN x.cells \cup {PARTIAL_SNAPSHOT_COL}
          BY <4>2, <4>3, <4>4, OriginBeside
        <4>6. PhysicalCells(r)[c.name] = r.cells[c.name]
          BY <4>2, <4>3, <4>5 DEF PhysicalCells, Restrict
        <4>. QED
          BY <2>2, <4>1, <4>4, <4>5, <4>6
      <3>. QED
        BY <2>2, <3>1
    <2>. QED
      BY <2>1, <2>2 DEF MergedRows
  <1>6. \A i \in DOMAIN phys : Valued(phys[i], layout)
    BY <1>1, <1>5 DEF Valued
  <1>7. \A c \in layout : Chunk(phys, c.name) = Chunk(rows, c.name)
    BY <1>5 DEF Chunk
  <1>8. Describes(FileStats(cols, rows), rows, layout)
    BY <1>3, StatsDescribe
  <1>9. Describes(FileStats(cols, rows), phys, layout)
    BY <1>7, <1>8 DEF Describes
  <1>. QED
    BY <1>4, <1>6, <1>9 DEF MeasuredBy

LEMMA MeasuredAppend ==
  ASSUME HInv, Grows, Measured, NEW n \in DOMAIN Now, AppendRows(n)
  PROVE  Measured'
  <1>. last \in Nat /\ nextId \in Nat \ {0}
    BY DEF Grows
  <1>a. PICK cols : cols = LiveColumns(LiveTable(n).id)
    OBVIOUS
  <1>b. PICK names : names = {c.name : c \in cols}
    OBVIOUS
  <1>1. PICK k \in 1..MaxRows, measured \in BOOLEAN : \E cells \in [1..k -> [names -> CellValues]] :
           LET rows == [i \in 1..k |-> [key |-> <<nextId, i>>, origin |-> last + 1,
                                        cells |-> cells[i]]]
           IN /\ files' = files \cup {FileRow(LiveTable(n).id, last + 1, NULL,
                                              IF measured THEN FileStats(cols, rows) ELSE NULL)}
              /\ parquet' = Put(parquet, nextId, rows)
              /\ UNCHANGED <<tables, columns, deletes, inlined, posfiles>>
    BY <1>a, <1>b DEF AppendRows
  <1>2. PICK cells \in [1..k -> [names -> CellValues]] :
           LET rows == [i \in 1..k |-> [key |-> <<nextId, i>>, origin |-> last + 1,
                                        cells |-> cells[i]]]
           IN /\ files' = files \cup {FileRow(LiveTable(n).id, last + 1, NULL,
                                              IF measured THEN FileStats(cols, rows) ELSE NULL)}
              /\ parquet' = Put(parquet, nextId, rows)
              /\ UNCHANGED <<tables, columns, deletes, inlined, posfiles>>
    BY <1>1
  <1>c. PICK rows : rows = [i \in 1..k |-> [key |-> <<nextId, i>>, origin |-> last + 1,
                                            cells |-> cells[i]]]
    OBVIOUS
  <1>d. PICK stats : stats = IF measured THEN FileStats(cols, rows) ELSE NULL
    OBVIOUS
  <1>e. PICK m : m = FileRow(LiveTable(n).id, last + 1, NULL, stats)
    OBVIOUS
  <1>f. PICK layout : layout = Layout(m.table, last + 1)
    OBVIOUS
  <1>3. /\ files' = files \cup {m} /\ parquet' = Put(parquet, nextId, rows)
        /\ UNCHANGED <<columns, inlined>>
    BY <1>2, <1>c, <1>d, <1>e
  <1>4. m.id = nextId /\ m.table = LiveTable(n).id /\ m.begin = last + 1 /\ m.stats = stats
    BY <1>e DEF FileRow
  <1>5. Layout(m.table, m.begin)' = layout
    BY <1>3, <1>4, <1>f, KeptColumns DEF HInv
  <1>6. layout = LayoutOf(cols) /\ Unambiguous(layout)
    BY <1>a, <1>f, <1>4, LiveLayout DEF LayoutOf
  <1>7. \A i \in DOMAIN rows : Valued(rows[i], layout)
    <2>1. \A c \in layout : c.name \in names
      <3>1. NamesOf(layout) = names
        BY <1>6, <1>b, NamesOfColumns
      <3>. QED
        BY <3>1 DEF NamesOf
    <2>2. \A i \in DOMAIN rows : rows[i].cells \in [names -> CellValues]
      BY <1>c
    <2>. QED
      BY <2>1, <2>2 DEF Valued
  <1>8. MeasuredBy(m.stats, rows, layout)
    BY <1>4, <1>6, <1>7, <1>d, StatsDescribe DEF MeasuredBy
  <1>9. /\ parquet'[m.id] = rows
        /\ \A f \in files : f.id # m.id /\ f.id \in DOMAIN parquet /\ parquet'[f.id] = parquet[f.id]
    <2>1. \A f \in files : f.id # m.id /\ f.id \in DOMAIN parquet
      BY <1>4 DEF HInv, FilesKnown, RowsKnown, FileSound, UsedIds
    <2>. QED
      BY <1>3, <1>4, <2>1 DEF Put
  <1>10. \A g \in files' :
            \/ \E f \in files : /\ g.id = f.id /\ g.table = f.table /\ g.begin = f.begin
                                /\ g.stats = f.stats /\ parquet'[g.id] = parquet[f.id]
            \/ MeasuredBy(g.stats, parquet'[g.id], Layout(g.table, g.begin)')
    BY <1>3, <1>5, <1>8, <1>9
  <1>11. \A tr \in DOMAIN inlined' : \A r \in inlined'[tr] : tr \in DOMAIN inlined /\ r \in inlined[tr]
    BY <1>3
  <1>. QED
    BY <1>10, <1>11, MeasuredGoesOn

LEMMA MeasuredMerge ==
  ASSUME HInv, Grows, Measured, NEW t \in UsedIds, NEW layout, NEW X, Mergeable(X, t, layout),
         NEW rows, rows = SetToSeq(X), NEW measured, NEW m, m = MergedFile(t, rows, measured),
         NEW phys, phys = MergedRows(rows), nextId' = nextId + 1,
         \A x \in X : Valued(x, layout),
         files' \subseteq files \cup {m}, parquet' = Put(parquet, nextId, phys),
         \A tr \in DOMAIN inlined' : tr \in DOMAIN inlined /\ inlined'[tr] \subseteq inlined[tr]
  PROVE  Measured'
  <1>. last \in Nat /\ nextId \in Nat \ {0}
    BY DEF Grows
  <1>1. MeasuredBy(m.stats, phys, layout)
    BY MergedMeasured
  <1>2. Holds(m, phys, t, layout, X)
    BY Merged
  <1>3. m.id = nextId /\ layout = Layout(m.table, m.begin)'
    BY <1>2 DEF Holds
  <1>4. /\ parquet'[m.id] = phys
        /\ \A f \in files : f.id # m.id /\ f.id \in DOMAIN parquet /\ parquet'[f.id] = parquet[f.id]
    <2>1. \A f \in files : f.id # m.id /\ f.id \in DOMAIN parquet
      BY <1>3 DEF HInv, FilesKnown, RowsKnown, FileSound, UsedIds
    <2>. QED
      BY <1>3, <2>1 DEF Put
  <1>5. \A g \in files' :
            \/ \E f \in files : /\ g.id = f.id /\ g.table = f.table /\ g.begin = f.begin
                                /\ g.stats = f.stats /\ parquet'[g.id] = parquet[f.id]
            \/ MeasuredBy(g.stats, parquet'[g.id], Layout(g.table, g.begin)')
    BY <1>1, <1>3, <1>4
  <1>. QED
    BY <1>5, MeasuredGoesOn

LEMMA MeasuredCompact ==
  ASSUME HInv, Grows, Measured, NEW n \in DOMAIN Now, Compact(n)
  PROVE  Measured'
  <1>. last \in Nat
    BY DEF Grows
  <1>a. PICK t : t = LiveTable(n).id
    OBVIOUS
  <1>1. t \in UsedIds
    BY <1>a, LakeNow
  <1>2. PICK F \in SUBSET {f \in LiveFiles(t) : \A d \in deletes : d.file # f.id} :
           /\ Cardinality(F) > 1
           /\ \A f, g \in F : Layout(t, f.begin) = Layout(t, g.begin)
           /\ LET rows == SetToSeq(UNION {Unmarked(f) : f \in F})
              IN /\ files' = (files \ F) \cup {MergedFile(t, rows, \A f \in F : f.stats # NULL)}
                 /\ parquet' = Put(parquet, nextId, MergedRows(rows))
           /\ nextId' = nextId + 1
           /\ UNCHANGED <<tables, columns, deletes, inlined, posfiles>>
    BY <1>a DEF Compact
  <1>b. PICK X : X = UNION {Unmarked(f) : f \in F}
    OBVIOUS
  <1>c. PICK rows : rows = SetToSeq(X)
    OBVIOUS
  <1>d. PICK measured : measured = \A f \in F : f.stats # NULL
    OBVIOUS
  <1>e. PICK m : m = MergedFile(t, rows, measured)
    OBVIOUS
  <1>f. PICK phys : phys = MergedRows(rows)
    OBVIOUS
  <1>3. /\ files' = (files \ F) \cup {m} /\ parquet' = Put(parquet, nextId, phys)
        /\ nextId' = nextId + 1 /\ UNCHANGED inlined
    BY <1>2, <1>b, <1>c, <1>d, <1>e, <1>f
  <1>4. /\ F \subseteq files
        /\ \A f \in F : f.table = t /\ \A d \in deletes : d.file # f.id
    BY <1>2 DEF LiveFiles, Live
  <1>5. IsFiniteSet(F) /\ F # {}
    <2>1. IsFiniteSet(F)
      BY <1>4, FS_Subset DEF HInv, Bounded
    <2>. QED
      BY <1>2, <2>1, FS_EmptySet
  <1>g. PICK first \in F : TRUE
    BY <1>5
  <1>h. PICK layout : layout = Layout(t, first.begin)
    OBVIOUS
  <1>6. Sources(F, t, layout)
    BY <1>2, <1>4, <1>5, <1>h DEF Sources
  <1>7. Mergeable(X, t, layout)
    BY <1>6, <1>b, SourcesMerge
  <1>8. ASSUME NEW x \in X PROVE Valued(x, layout)
    <2>1. PICK f \in F : x \in Unmarked(f)
      BY <1>b
    <2>2. f \in files /\ Layout(f.table, f.begin) = layout
      BY <1>2, <1>4, <1>h
    <2>3. PICK i \in DOMAIN parquet[f.id] :
             x = [parquet[f.id][i] EXCEPT !.cells = PhysicalCells(parquet[f.id][i])]
      BY <2>1 DEF Unmarked
    <2>4. PICK r : r = parquet[f.id][i]
      OBVIOUS
    <2>5. Row(r) /\ NamesOf(layout) \subseteq DOMAIN r.cells
      <3>1. FileHolds(f, r)
        BY <2>2, <2>4 DEF HInv, RowsKnown, FileSound
      <3>. QED
        BY <2>2, <3>1 DEF FileHolds
    <2>6. x.cells = PhysicalCells(r)
      BY <2>3, <2>4, <2>5 DEF Row
    <2>7. PARTIAL_SNAPSHOT_COL \notin NamesOf(layout)
      <3>1. f.begin \in 1..(last + 1)
        BY <2>2 DEF HInv, FilesKnown, Dates
      <3>2. Unambiguous(layout)
        BY <2>2, <3>1, LayoutsUnambiguous DEF HInv
      <3>. QED
        BY <3>2, NameInLayout
    <2>8. Valued(r, layout)
      BY <2>2, <2>4 DEF Measured, FilesMeasured, MeasuredBy
    <2>9. \A c \in layout : PhysicalCells(r)[c.name] = r.cells[c.name]
      BY <2>5, <2>7 DEF PhysicalCells, Restrict, NamesOf
    <2>. QED
      BY <2>6, <2>8, <2>9 DEF Valued
  <1>. QED
    BY <1>1, <1>3, <1>7, <1>8, <1>c, <1>e, <1>f, MeasuredMerge

LEMMA MeasuredFlush ==
  ASSUME HInv, Grows, Measured, NEW n \in DOMAIN Now, FlushInlined(n)
  PROVE  Measured'
  <1>a. PICK t : t = LiveTable(n).id
    OBVIOUS
  <1>1. t \in UsedIds
    BY <1>a, LakeNow
  <1>2. PICK tracker \in DOMAIN inlined :
           /\ tracker.table = t /\ inlined[tracker] # {}
           /\ files' = files \cup {MergedFile(t, SetToSeq(inlined[tracker]), TRUE)}
           /\ parquet' = Put(parquet, nextId, MergedRows(SetToSeq(inlined[tracker])))
           /\ inlined' = [inlined EXCEPT ![tracker] = {}]
           /\ nextId' = nextId + 1
    BY <1>a DEF FlushInlined
  <1>b. PICK X : X = inlined[tracker]
    OBVIOUS
  <1>c. PICK rows : rows = SetToSeq(X)
    OBVIOUS
  <1>d. PICK measured : measured = TRUE
    OBVIOUS
  <1>e. PICK m : m = MergedFile(t, rows, measured)
    OBVIOUS
  <1>f. PICK phys : phys = MergedRows(rows)
    OBVIOUS
  <1>g. PICK layout : layout = tracker.layout
    OBVIOUS
  <1>3. /\ files' \subseteq files \cup {m} /\ parquet' = Put(parquet, nextId, phys) /\ nextId' = nextId + 1
    BY <1>2, <1>b, <1>c, <1>d, <1>e, <1>f
  <1>4. Mergeable(X, t, layout)
    BY <1>2, <1>b, <1>g, WaitingMerge
  <1>5. \A x \in X : Valued(x, layout)
    BY <1>b, <1>g DEF Measured, WaitingValued
  <1>6. \A tr \in DOMAIN inlined' : tr \in DOMAIN inlined /\ inlined'[tr] \subseteq inlined[tr]
    BY <1>2
  <1>. QED
    BY <1>1, <1>3, <1>4, <1>5, <1>6, <1>c, <1>e, <1>f, MeasuredMerge

LEMMA MeasuredInline ==
  ASSUME HInv, Grows, Measured, NEW n \in DOMAIN Now, InlineRow(n)
  PROVE  Measured'
  <1>. last \in Nat
    BY DEF Grows
  <1>a. PICK t : t = LiveTable(n).id
    OBVIOUS
  <1>b. PICK layout : layout = Layout(t, last + 1)
    OBVIOUS
  <1>c. PICK tracker : tracker = [table |-> t, layout |-> layout]
    OBVIOUS
  <1>d. PICK names : names = {c.name : c \in LiveColumns(t)}
    OBVIOUS
  <1>1. tracker = Tracker(t, last) /\ tracker.table = t /\ tracker.layout = layout
    BY <1>b, <1>c, LayoutNow DEF HInv, Tracker
  <1>2. PICK cells \in [names -> CellValues] :
           LET row == [origin |-> last + 1, key |-> <<nextId, 1>>, cells |-> cells]
           IN /\ inlined' = Put(inlined, tracker, RowsIn(tracker) \cup {row})
              /\ UNCHANGED <<files, parquet>>
    BY <1>1, <1>a, <1>d DEF InlineRow
  <1>e. PICK row : row = [origin |-> last + 1, key |-> <<nextId, 1>>, cells |-> cells]
    OBVIOUS
  <1>3. inlined' = Put(inlined, tracker, RowsIn(tracker) \cup {row}) /\ UNCHANGED <<files, parquet>>
    BY <1>2, <1>e
  <1>4. row.cells \in [names -> CellValues]
    BY <1>e
  <1>5. NamesOf(layout) = names
    <2>1. layout = LayoutOf(LiveColumns(t))
      BY <1>b, LiveLayout DEF LayoutOf
    <2>. QED
      BY <2>1, <1>d, NamesOfColumns
  <1>6. Valued(row, tracker.layout)
    BY <1>1, <1>4, <1>5 DEF Valued, NamesOf
  <1>7. \A tr \in DOMAIN inlined' : \A r \in inlined'[tr] :
           (tr \in DOMAIN inlined /\ r \in inlined[tr]) \/ Valued(r, tr.layout)
    <2>1. \A tr \in DOMAIN inlined' : tr # tracker => tr \in DOMAIN inlined /\ inlined'[tr] = inlined[tr]
      BY <1>3 DEF Put
    <2>2. inlined'[tracker] = RowsIn(tracker) \cup {row}
      BY <1>3 DEF Put
    <2>. QED
      BY <1>6, <2>1, <2>2 DEF RowsIn
  <1>8. \A g \in files' : \E f \in files : /\ g.id = f.id /\ g.table = f.table /\ g.begin = f.begin
                                           /\ g.stats = f.stats /\ parquet'[g.id] = parquet[f.id]
    BY <1>3
  <1>. QED
    BY <1>7, <1>8, MeasuredGoesOn

(* A commit that writes no file and no inlined row.                        *)
LEMMA MeasuredClose ==
  ASSUME HInv, Grows, Measured, UNCHANGED <<inlined, parquet>>,
         NEW R \in SUBSET files, NEW s, files' = Close(files, R, s)
  PROVE  Measured'
  <1>1. ASSUME NEW g \in files'
        PROVE  \E f \in files : /\ g.id = f.id /\ g.table = f.table /\ g.begin = f.begin
                                /\ g.stats = f.stats /\ parquet'[g.id] = parquet[f.id]
    <2>1. CASE g \in files
      BY <2>1
    <2>2. ASSUME NEW f \in R, g = [f EXCEPT !.end = s]
          PROVE  \E h \in files : /\ g.id = h.id /\ g.table = h.table /\ g.begin = h.begin
                                  /\ g.stats = h.stats /\ parquet'[g.id] = parquet[h.id]
      <3>1. DataRow(f) /\ f \in files
        BY DEF HInv, FilesKnown
      <3>2. g.id = f.id /\ g.table = f.table /\ g.begin = f.begin /\ g.stats = f.stats
        BY <2>2, <3>1, EndedFile
      <3>. QED
        BY <3>1, <3>2
    <2>. QED
      BY <2>1, <2>2 DEF Close
  <1>2. \A tr \in DOMAIN inlined' : \A r \in inlined'[tr] : tr \in DOMAIN inlined /\ r \in inlined[tr]
    OBVIOUS
  <1>. QED
    BY <1>1, <1>2, MeasuredGoesOn

LEMMA MeasuredKept ==
  ASSUME HInv, Grows, Measured, UNCHANGED <<files, inlined>>,
         \A f \in files : parquet'[f.id] = parquet[f.id]
  PROVE  Measured'
  <1>1. \A g \in files' : \E f \in files : /\ g.id = f.id /\ g.table = f.table /\ g.begin = f.begin
                                           /\ g.stats = f.stats /\ parquet'[g.id] = parquet[f.id]
    OBVIOUS
  <1>2. \A tr \in DOMAIN inlined' : \A r \in inlined'[tr] : tr \in DOMAIN inlined /\ r \in inlined[tr]
    OBVIOUS
  <1>. QED
    BY <1>1, <1>2, MeasuredGoesOn

LEMMA MeasuredInit == CatalogInit => Measured
  BY DEF CatalogInit, Measured, FilesMeasured, WaitingValued

LEMMA MeasuredStep ==
  ASSUME HInv, Measured, [CatalogNext]_catalogVars
  PROVE  Measured'
  <1>. Grows
    BY StepGrows
  <1>1. CASE \E n \in TableNames : CreateTable(n)
    <2>1. UNCHANGED <<files, inlined, parquet>>
      BY <1>1 DEF CreateTable
    <2>. QED
      BY <2>1, MeasuredKept
  <1>2. ASSUME NEW n \in DOMAIN Now, TableCommit(n)
        PROVE  Measured'
    <2>1. CASE AppendRows(n)
      BY <2>1, MeasuredAppend
    <2>2. CASE DeleteRows(n)
      <3>1. UNCHANGED <<files, inlined, parquet>>
        BY <2>2 DEF DeleteRows
      <3>. QED
        BY <3>1, MeasuredKept
    <2>3. CASE DropFile(n)
      <3>1. PICK f \in LiveFiles(LiveTable(n).id) :
               files' = Close(files, {f}, last + 1) /\ UNCHANGED <<inlined, parquet>>
        BY <2>3 DEF DropFile
      <3>2. {f} \in SUBSET files
        BY DEF LiveFiles, Live
      <3>. QED
        BY <3>1, <3>2, MeasuredClose
    <2>4. CASE \E name \in ColumnNames : AddColumn(n, name)
      <3>1. UNCHANGED <<files, inlined, parquet>>
        BY <2>4 DEF AddColumn
      <3>. QED
        BY <3>1, MeasuredKept
    <2>5. CASE \E c \in LiveColumns(LiveTable(n).id) :
                  DropColumn(n, c) \/ \E name \in ColumnNames : RenameColumn(n, c, name)
      <3>1. UNCHANGED <<files, inlined, parquet>>
        BY <2>5 DEF DropColumn, RenameColumn
      <3>. QED
        BY <3>1, MeasuredKept
    <2>6. CASE Compact(n)
      BY <2>6, MeasuredCompact
    <2>7. CASE InlineRow(n)
      BY <2>7, MeasuredInline
    <2>8. CASE FlushInlined(n)
      BY <2>8, MeasuredFlush
    <2>9. CASE DropTable(n)
      <3>1. files' = Close(files, LiveFiles(LiveTable(n).id), last + 1) /\ UNCHANGED <<inlined, parquet>>
        BY <2>9 DEF DropTable
      <3>2. LiveFiles(LiveTable(n).id) \in SUBSET files
        BY DEF LiveFiles, Live
      <3>. QED
        BY <3>1, <3>2, MeasuredClose
    <2>. QED
      BY <1>2, <2>1, <2>2, <2>3, <2>4, <2>5, <2>6, <2>7, <2>8, <2>9 DEF TableCommit
  <1>3. CASE Cleanup
    <2>1. PICK id \in DOMAIN parquet \ {f.id : f \in files} :
             parquet' = Restrict(parquet, DOMAIN parquet \ {id}) /\ UNCHANGED <<files, inlined>>
      BY <1>3 DEF Cleanup
    <2>2. \A f \in files : f.id \in DOMAIN parquet /\ f.id # id
      BY DEF HInv, RowsKnown, FileSound
    <2>3. \A f \in files : parquet'[f.id] = parquet[f.id]
      BY <2>1, <2>2 DEF Restrict
    <2>. QED
      BY <2>1, <2>3, MeasuredKept
  <1>4. CASE UNCHANGED catalogVars
    BY <1>4, MeasuredKept DEF catalogVars
  <1>. QED
    BY <1>1, <1>2, <1>3, <1>4 DEF CatalogNext

-----------------------------------------------------------------------------
(* Every file has its place in the order, and every place its file.        *)
LEMMA FileOrder ==
  ASSUME NEW S, IsFiniteSet(S), \A f \in S : f.id \in Nat, \A f, g \in S : f.id = g.id => f = g,
         NEW order, order = InFileOrder(S)
  PROVE  /\ DOMAIN order = 1..Cardinality(S) /\ Cardinality(S) \in Nat
         /\ \A i \in DOMAIN order : order[i] \in S
         /\ \A f \in S : \E i \in DOMAIN order : order[i] = f
  <1>. DEFINE upto(f) == {g \in S : g.id <= f.id}
              rank    == [f \in S |-> Cardinality(upto(f))]
              n       == Cardinality(S)
  <1>0. n \in Nat
    BY FS_CardinalityType
  <1>1. ASSUME NEW f \in S
        PROVE  /\ IsFiniteSet(upto(f)) /\ Cardinality(upto(f)) \in 1..n
    <2>1. upto(f) \in SUBSET S /\ f \in upto(f)
      OBVIOUS
    <2>. HIDE DEF upto
    <2>2. /\ IsFiniteSet(upto(f)) /\ Cardinality(upto(f)) <= n
      BY <2>1, FS_Subset
    <2>3. Cardinality(upto(f)) \in Nat /\ Cardinality(upto(f)) # 0
      BY <2>1, <2>2, FS_CardinalityType, FS_EmptySet
    <2>. QED
      BY <1>0, <2>2, <2>3
  <1>2. ASSUME NEW f \in S, NEW g \in S, f.id <= g.id, Cardinality(upto(f)) = Cardinality(upto(g))
        PROVE  f = g
    <2>1. upto(f) \in SUBSET upto(g) /\ g \in upto(g)
      BY <1>2
    <2>2. upto(f) = upto(g)
      <3>. HIDE DEF upto
      <3>. QED
        BY <1>1, <1>2, <2>1, FS_Subset
    <2>3. g.id <= f.id
      BY <2>1, <2>2
    <2>. QED
      BY <1>2, <2>3
  <1>3. rank \in Injection(S, 1..n)
    <2>1. rank \in [S -> 1..n]
      BY <1>1
    <2>2. \A f, g \in S : rank[f] = rank[g] => f = g
      <3>1. \A f, g \in S : f.id <= g.id \/ g.id <= f.id
        OBVIOUS
      <3>. HIDE DEF upto
      <3>. QED
        BY <1>2, <3>1
    <2>. QED
      BY <2>1, <2>2 DEF Injection, IsInjective
  <1>4. rank \in Surjection(S, 1..n)
    <2>1. IsFiniteSet(1..n) /\ Cardinality(1..n) = n
      BY <1>0, FS_Interval
    <2>. HIDE DEF rank
    <2>. QED
      BY <1>3, <2>1, FS_Injection
  <1>5. /\ \A f \in S : rank[f] \in 1..n /\ \A g \in S : rank[f] = rank[g] => f = g
        /\ \A i \in 1..n : \E f \in S : rank[f] = i
    <2>. HIDE DEF rank
    <2>. QED
      BY <1>3, <1>4 DEF Injection, Surjection, IsInjective
  <1>6. DOMAIN order = 1..n /\ \A i \in 1..n : order[i] = CHOOSE f \in S : rank[f] = i
    BY DEF InFileOrder
  <1>. HIDE DEF rank
  <1>. QED
    BY <1>0, <1>5, <1>6


-----------------------------------------------------------------------------
(* What the plan of a file reads at a snapshot.                            *)

LEMMA SourceIsName ==
  ASSUME NEW layout, Unambiguous(layout), NEW tc
  PROVE  SourceName(tc, layout) = NameIn(layout, tc.id)
  <1>1. CASE \E c \in layout : c.id = tc.id
    <2>1. PICK c \in layout : c.id = tc.id
      BY <1>1
    <2>2. {h \in layout : h.id = tc.id} = {c}
      BY <2>1 DEF Unambiguous
    <2>3. (CHOOSE h \in {c} : TRUE) = c
      OBVIOUS
    <2>4. NameIn(layout, tc.id) = c.name
      BY <2>1, NamedById
    <2>. QED
      BY <2>2, <2>3, <2>4 DEF SourceName
  <1>2. CASE \A c \in layout : c.id # tc.id
    BY <1>2 DEF SourceName, NameIn
  <1>. QED
    BY <1>1, <1>2

Scanned(f, i) ==
    [file |-> f.id, pos |-> i - 1, key |-> parquet[f.id][i].key, cells |-> parquet[f.id][i].cells]

ReadRow(f, i, layout) ==
    [file |-> f.id, pos |-> i - 1, key |-> parquet[f.id][i].key,
     cells |-> Recast(PhysicalCells(parquet[f.id][i]), Layout(f.table, f.begin), layout)]

Candidate(f, s) ==
    [id |-> f.id, begin |-> f.begin, partialMax |-> f.partialMax,
     deleteFiles |-> {d.id : d \in {e \in VisibleDeletes(f.table, s) : e.file = f.id}}]

PlanOf(f, s) == PlanFile(Candidate(f, s), Layout(f.table, f.begin), s, Layout(f.table, s))

(* What is_pure asks of the columns.                                       *)
PureColumns(from, cols) ==
    Cardinality(from) = Cardinality(cols) /\ \A c \in cols : NameIn(from, c.id) = c.name

(* The fields of a plan.                                                   *)
LEMMA PlanFields ==
  ASSUME HInv, NEW s \in 1..last, NEW f \in files,
         NEW from, from = Layout(f.table, f.begin), NEW cols, cols = Layout(f.table, s)
  PROVE  /\ PlanOf(f, s).file = f.id
         /\ \A p : (\A d \in PlanOf(f, s).deleteFiles : p \notin posfiles[d]) <=> ~Deleted(f.id, p, s)
         /\ PlanOf(f, s).projection =
               [name \in NamesOf(cols) |-> NameIn(from, IdIn(cols, name))]
         /\ PlanOf(f, s).partialFilterAt =
               IF f.partialMax # NULL /\ s < f.partialMax THEN s ELSE NULL
         /\ PlanOf(f, s).isPure => /\ PlanOf(f, s).deleteFiles = {} /\ f.partialMax = NULL
                                   /\ PureColumns(from, cols)
  <1>. last \in Nat
    BY DEF HInv, Numbered
  <1>1. f.begin \in 1..last /\ Unambiguous(from) /\ Unambiguous(cols)
    BY LayoutsUnambiguous DEF HInv, FilesKnown, Dates
  <1>2. ASSUME NEW p
        PROVE  (\A d \in Candidate(f, s).deleteFiles : p \notin posfiles[d]) <=> ~Deleted(f.id, p, s)
    <2>1. \A d \in deletes : d.file = f.id => d.table = f.table
      BY DEF HInv, DeletesKnown
    <2>2. \A d : d \in {e \in VisibleDeletes(f.table, s) : e.file = f.id}
                    <=> d \in deletes /\ d.file = f.id /\ VisibleAt(d, s)
      BY <2>1 DEF VisibleDeletes
    <2>. QED
      BY <2>2 DEF Candidate, Deleted
  <1>3. \A c : SourceName(c, from) = NameIn(from, c.id)
    BY <1>1, SourceIsName
  <1>4. [name \in {tc.name : tc \in cols} |-> SourceName(CHOOSE tc \in cols : tc.name = name, from)]
           = [name \in NamesOf(cols) |-> NameIn(from, IdIn(cols, name))]
    BY <1>3 DEF NamesOf, IdIn
  <1>. QED
    BY <1>2, <1>3, <1>4 DEF PlanOf, PlanFile, IsPure, Candidate, PureColumns

(* A row of the file is read under the names of the target snapshot.       *)
LEMMA ProjectedCells ==
  ASSUME HInv, NEW s \in 1..last, NEW f \in files, NEW i \in DOMAIN parquet[f.id],
         NEW from, from = Layout(f.table, f.begin), NEW cols, cols = Layout(f.table, s),
         NEW projection, projection = [name \in NamesOf(cols) |-> NameIn(from, IdIn(cols, name))]
  PROVE  /\ ProjectCells(parquet[f.id][i].cells, projection)
               = Recast(PhysicalCells(parquet[f.id][i]), from, cols)
         /\ f.partialMax = NULL /\ from = cols =>
               Recast(PhysicalCells(parquet[f.id][i]), from, cols) = parquet[f.id][i].cells
  <1>. last \in Nat
    BY DEF HInv, Numbered
  <1>1. f.begin \in 1..last /\ Unambiguous(from) /\ Unambiguous(cols)
    BY LayoutsUnambiguous DEF HInv, FilesKnown, Dates
  <1>2. FileHolds(f, parquet[f.id][i])
    BY DEF HInv, RowsKnown, FileSound
  <1>3. ASSUME NEW name \in NamesOf(cols)
        PROVE  projection[name] = NULL
                 \/ /\ projection[name] # NULL /\ projection[name] # PARTIAL_SNAPSHOT_COL
                    /\ projection[name] \in DOMAIN parquet[f.id][i].cells
    <2>1. projection[name] = NameIn(from, IdIn(cols, name))
      OBVIOUS
    <2>2. projection[name] # NULL => projection[name] \in NamesOf(from)
      BY <1>1, <2>1, NameInLayout
    <2>3. NULL \notin NamesOf(from) /\ PARTIAL_SNAPSHOT_COL \notin NamesOf(from)
      BY <1>1, NameInLayout
    <2>4. NamesOf(from) \subseteq DOMAIN parquet[f.id][i].cells
      BY <1>2 DEF FileHolds
    <2>. QED
      BY <2>2, <2>3, <2>4
  <1>4. ProjectCells(parquet[f.id][i].cells, projection)
           = Recast(PhysicalCells(parquet[f.id][i]), from, cols)
    BY <1>3 DEF ProjectCells, Recast, PhysicalCells, Restrict
  <1>5. ASSUME f.partialMax = NULL, from = cols
        PROVE  Recast(PhysicalCells(parquet[f.id][i]), from, cols) = parquet[f.id][i].cells
    <2>1. /\ DOMAIN parquet[f.id][i].cells = NamesOf(from) /\ Row(parquet[f.id][i])
      BY <1>2, <1>5 DEF FileHolds
    <2>2. PhysicalCells(parquet[f.id][i]) = parquet[f.id][i].cells
      BY <1>1, <2>1, NameInLayout, PhysicalIsWritten
    <2>3. parquet[f.id][i].cells = [x \in NamesOf(from) |-> parquet[f.id][i].cells[x]]
      BY <2>1 DEF Row
    <2>. QED
      BY <1>1, <1>5, <2>2, <2>3, SeenAsWritten
  <1>. QED
    BY <1>4, <1>5

LEMMA PlannedRead ==
  ASSUME HInv, NEW s \in 1..last, NEW f \in files, VisibleAt(f, s)
  PROVE  BuildPlan(PlanOf(f, s)) = {ReadRow(f, i, Layout(f.table, s)) : i \in KeptIn(f, s)}
  <1>. last \in Nat
    BY DEF HInv, Numbered
  <1>a. PICK from : from = Layout(f.table, f.begin)
    OBVIOUS
  <1>b. PICK cols : cols = Layout(f.table, s)
    OBVIOUS
  <1>c. PICK plan : plan = PlanOf(f, s)
    OBVIOUS
  <1>d. PICK D : D = DOMAIN parquet[f.id]
    OBVIOUS
  <1>1. /\ plan.file = f.id
        /\ \A p : (\A d \in plan.deleteFiles : p \notin posfiles[d]) <=> ~Deleted(f.id, p, s)
        /\ plan.projection = [name \in NamesOf(cols) |-> NameIn(from, IdIn(cols, name))]
        /\ plan.partialFilterAt = IF f.partialMax # NULL /\ s < f.partialMax THEN s ELSE NULL
    BY <1>a, <1>b, <1>c, PlanFields
  <1>2. ScanParquet(plan.file) = {Scanned(f, i) : i \in D}
    BY <1>1, <1>d DEF ScanParquet, Scanned
  <1>3. \A i : Scanned(f, i).pos = i - 1 /\ Scanned(f, i).cells = parquet[f.id][i].cells
    BY DEF Scanned
  <1>4. PICK L : L = {i \in D : ~Deleted(f.id, i - 1, s)}
    OBVIOUS
  <1>5. ScanWithDeletes(ScanParquet(plan.file), plan.deleteFiles) = {Scanned(f, i) : i \in L}
    <2>1. \A i \in D : (\A d \in plan.deleteFiles : Scanned(f, i).pos \notin posfiles[d])
                          <=> ~Deleted(f.id, i - 1, s)
      BY <1>1, <1>3
    <2>. QED
      BY <1>2, <1>4, <2>1 DEF ScanWithDeletes
  <1>6. \A i \in D : FileHolds(f, parquet[f.id][i]) /\ f.begin <= s /\ i \in Nat
    BY <1>d DEF HInv, RowsKnown, FileSound, VisibleAt
  <1>7. PartialFilter({Scanned(f, i) : i \in L}, plan.partialFilterAt)
           = {Scanned(f, i) : i \in KeptIn(f, s)}
    <2>1. KeptIn(f, s) = {i \in L : parquet[f.id][i].origin <= s}
      BY <1>4, <1>d DEF KeptIn
    <2>2. CASE plan.partialFilterAt = NULL
      <3>1. f.partialMax = NULL \/ ~(s < f.partialMax)
        BY <1>1, <2>2, MarkersAreNotValues
      <3>2. \A i \in L : parquet[f.id][i].origin <= s
        <4>1. ASSUME NEW i \in L PROVE parquet[f.id][i].origin <= s
          <5>1. i \in D /\ FileHolds(f, parquet[f.id][i]) /\ f.begin <= s
            BY <1>4, <1>6
          <5>2. f.begin \in 1..last
            BY DEF HInv, FilesKnown, Dates
          <5>. QED
            BY <3>1, <5>1, <5>2 DEF FileHolds
        <4>. QED
          BY <4>1
      <3>. QED
        BY <2>1, <2>2, <3>2 DEF PartialFilter
    <2>3. CASE plan.partialFilterAt # NULL
      <3>1. plan.partialFilterAt = s /\ f.partialMax # NULL
        BY <1>1, <2>3
      <3>2. \A i \in L : Scanned(f, i).cells[PARTIAL_SNAPSHOT_COL] = parquet[f.id][i].origin
        BY <1>3, <1>4, <1>6, <3>1 DEF FileHolds
      <3>. QED
        BY <2>1, <2>3, <3>1, <3>2 DEF PartialFilter
    <2>. QED
      BY <2>2, <2>3
  <1>8. \A i \in KeptIn(f, s) :
           [Scanned(f, i) EXCEPT !.cells = ProjectCells(@, plan.projection)] = ReadRow(f, i, cols)
    <2>1. ASSUME NEW i \in KeptIn(f, s)
          PROVE  [Scanned(f, i) EXCEPT !.cells = ProjectCells(@, plan.projection)] = ReadRow(f, i, cols)
      <3>1. i \in DOMAIN parquet[f.id]
        BY DEF KeptIn
      <3>2. ProjectCells(parquet[f.id][i].cells, plan.projection)
               = Recast(PhysicalCells(parquet[f.id][i]), from, cols)
        BY <1>1, <1>a, <1>b, <3>1, ProjectedCells
      <3>. QED
        BY <1>a, <3>2 DEF Scanned, ReadRow
    <2>. QED
      BY <2>1
  <1>9. Project({Scanned(f, i) : i \in KeptIn(f, s)}, plan.projection)
           = {ReadRow(f, i, cols) : i \in KeptIn(f, s)}
    <2>. DEFINE after(i) == [Scanned(f, i) EXCEPT !.cells = ProjectCells(@, plan.projection)]
    <2>1. Project({Scanned(f, i) : i \in KeptIn(f, s)}, plan.projection)
             = {after(i) : i \in KeptIn(f, s)}
      BY DEF Project
    <2>2. \A i \in KeptIn(f, s) : after(i) = ReadRow(f, i, cols)
      BY <1>8
    <2>. HIDE DEF after
    <2>. QED
      BY <2>1, <2>2
  <1>10. BuildPlan(plan) = {ReadRow(f, i, cols) : i \in KeptIn(f, s)}
    BY <1>5, <1>7, <1>9 DEF BuildPlan
  <1>. QED
    BY <1>10, <1>b, <1>c


(* A file that needs no column changed and no row left out is its frame.   *)
LEMMA PureFile ==
  ASSUME HInv, NEW s \in 1..last, NEW f \in files, VisibleAt(f, s), PlanOf(f, s).isPure
  PROVE  BuildPlan(PlanOf(f, s)) = ScanParquet(f.id)
  <1>. last \in Nat
    BY DEF HInv, Numbered
  <1>a. PICK from : from = Layout(f.table, f.begin)
    OBVIOUS
  <1>b. PICK cols : cols = Layout(f.table, s)
    OBVIOUS
  <1>1. f.begin \in 1..last /\ f.begin <= s /\ Unambiguous(from) /\ Unambiguous(cols)
    BY <1>a, <1>b, LayoutsUnambiguous DEF HInv, FilesKnown, Dates, VisibleAt
  <1>2. /\ PlanOf(f, s).deleteFiles = {} /\ f.partialMax = NULL
        /\ Cardinality(from) = Cardinality(cols)
        /\ \A c \in cols : NameIn(from, c.id) = c.name
        /\ \A p : ~Deleted(f.id, p, s)
    <2>1. PlanOf(f, s).deleteFiles = {} /\ f.partialMax = NULL /\ PureColumns(from, cols)
      BY <1>a, <1>b, PlanFields
    <2>2. \A p : (\A d \in PlanOf(f, s).deleteFiles : p \notin posfiles[d]) <=> ~Deleted(f.id, p, s)
      BY <1>a, <1>b, PlanFields
    <2>. QED
      BY <2>1, <2>2 DEF PureColumns
  <1>3. cols \in SUBSET from
    <2>1. ASSUME NEW c \in cols PROVE c \in from
      <3>1. c = [id |-> c.id, name |-> c.name] /\ c.name # NULL
        BY <1>1, CatalogAssumption DEF Unambiguous
      <3>2. PICK h \in from : h.id = c.id
        BY <1>2, <3>1 DEF NameIn
      <3>3. h.name = c.name /\ h = [id |-> h.id, name |-> h.name]
        BY <1>1, <1>2, <3>2, NamedById DEF Unambiguous
      <3>. QED
        BY <3>1, <3>2, <3>3
    <2>. QED
      BY <2>1
  <1>4. IsFiniteSet(from)
    <2>. DEFINE C == ColumnsOf(f.table, f.begin)
                entry == [c \in C |-> [id |-> c.id, name |-> c.name]]
    <2>1. IsFiniteSet(C)
      BY FS_Subset DEF ColumnsOf, HInv, Bounded
    <2>2. from = {entry[c] : c \in C} /\ DOMAIN entry = C
      BY <1>a DEF Layout
    <2>. HIDE DEF entry, C
    <2>. QED
      BY <2>1, <2>2, FiniteImage
  <1>5. from = cols
    BY <1>2, <1>3, <1>4, FS_Subset
  <1>6. \A i \in DOMAIN parquet[f.id] : ReadRow(f, i, cols) = Scanned(f, i)
    <2>1. ASSUME NEW i \in DOMAIN parquet[f.id] PROVE ReadRow(f, i, cols) = Scanned(f, i)
      <3>1. PICK projection : projection = [name \in NamesOf(cols) |-> NameIn(from, IdIn(cols, name))]
        OBVIOUS
      <3>2. f.partialMax = NULL /\ from = cols =>
               Recast(PhysicalCells(parquet[f.id][i]), from, cols) = parquet[f.id][i].cells
        BY <1>a, <1>b, <3>1, ProjectedCells
      <3>3. Recast(PhysicalCells(parquet[f.id][i]), from, cols) = parquet[f.id][i].cells
        BY <1>2, <1>5, <3>2
      <3>. QED
        BY <1>a, <3>3 DEF ReadRow, Scanned
    <2>. QED
      BY <2>1
  <1>7. KeptIn(f, s) = DOMAIN parquet[f.id]
    <2>1. \A i \in DOMAIN parquet[f.id] : FileHolds(f, parquet[f.id][i])
      BY DEF HInv, RowsKnown, FileSound
    <2>2. \A i \in DOMAIN parquet[f.id] : parquet[f.id][i].origin = f.begin
      BY <1>2, <2>1 DEF FileHolds
    <2>. QED
      BY <1>1, <1>2, <2>2 DEF KeptIn
  <1>8. BuildPlan(PlanOf(f, s)) = {ReadRow(f, i, cols) : i \in DOMAIN parquet[f.id]}
    BY <1>7, <1>b, PlannedRead
  <1>9. ScanParquet(f.id) = {Scanned(f, i) : i \in DOMAIN parquet[f.id]}
    BY DEF ScanParquet, Scanned
  <1>. QED
    BY <1>6, <1>8, <1>9

(* The files the pushed clauses leave: a plan for each of them, and for no *)
(* other.  Without a predicate they are all the files.                     *)
Candidates(t, s, p) ==
    {f \in VisibleFiles(t, s) : FileMayMatch(f, Layout(t, s), ExtractClauses(p))}

LEMMA AllAreCandidates ==
  ASSUME NEW t, NEW s
  PROVE  Candidates(t, s, NULL) = VisibleFiles(t, s)
  <1>1. ExtractClauses(NULL) = {}
    BY DEF ExtractClauses
  <1>2. \A f : FileMayMatch(f, Layout(t, s), {})
    BY DEF FileMayMatch
  <1>. QED
    BY <1>1, <1>2 DEF Candidates

LEMMA PlansOfFiles ==
  ASSUME HInv, NEW s \in 1..last, NEW t, NEW p, NEW plans, plans = PlansAt(t, s, p)
  PROVE  /\ \E n \in Nat : DOMAIN plans = 1..n
         /\ \A i \in DOMAIN plans : \E f \in Candidates(t, s, p) : plans[i] = PlanOf(f, s)
         /\ \A f \in Candidates(t, s, p) : \E i \in DOMAIN plans : plans[i] = PlanOf(f, s)
  <1>a. PICK cols : cols = Layout(t, s)
    OBVIOUS
  <1>b. PICK S : S = Candidates(t, s, p)
    OBVIOUS
  <1>c. PICK order : order = InFileOrder(S)
    OBVIOUS
  <1>d. PICK clauses : clauses = ExtractClauses(p)
    OBVIOUS
  <1>e. PICK cands : cands = FetchCandidateFiles(t, s, cols, clauses)
    OBVIOUS
  <1>2. {f \in VisibleFiles(t, s) : FileMayMatch(f, cols, clauses)} = S
    BY <1>a, <1>b, <1>d DEF Candidates
  <1>3. /\ IsFiniteSet(S) /\ \A f \in S : f \in files /\ f.table = t /\ f.id \in Nat
        /\ \A f, g \in S : f.id = g.id => f = g
    <2>1. S \in SUBSET files /\ \A f \in S : f.table = t
      BY <1>b DEF Candidates, VisibleFiles
    <2>. QED
      BY <2>1, FS_Subset DEF HInv, Bounded, FilesKnown, UsedIds
  <1>4. /\ DOMAIN order = 1..Cardinality(S) /\ Cardinality(S) \in Nat
        /\ \A i \in DOMAIN order : order[i] \in S
        /\ \A f \in S : \E i \in DOMAIN order : order[i] = f
    BY <1>3, <1>c, FileOrder
  <1>5. /\ DOMAIN cands = DOMAIN order
        /\ \A i \in DOMAIN order : cands[i] = Candidate(order[i], s)
    <2>1. cands = [i \in DOMAIN order |->
             [id |-> order[i].id, begin |-> order[i].begin, partialMax |-> order[i].partialMax,
              deleteFiles |-> {d.id : d \in {e \in VisibleDeletes(t, s) : e.file = order[i].id}}]]
      BY <1>2, <1>c, <1>e DEF FetchCandidateFiles
    <2>2. \A i \in DOMAIN order : order[i].table = t
      BY <1>3, <1>4
    <2>. QED
      BY <2>1, <2>2 DEF Candidate
  <1>6. plans = [i \in DOMAIN cands |-> PlanFile(cands[i], Layout(t, cands[i].begin), s, cols)]
    BY <1>a, <1>d, <1>e DEF PlansAt
  <1>7. ASSUME NEW i \in DOMAIN order PROVE plans[i] = PlanOf(order[i], s)
    <2>1. plans[i] = PlanFile(cands[i], Layout(t, cands[i].begin), s, cols)
      BY <1>5, <1>6
    <2>2. cands[i] = Candidate(order[i], s) /\ order[i].table = t
      BY <1>3, <1>4, <1>5
    <2>3. cands[i].begin = order[i].begin
      BY <2>2 DEF Candidate
    <2>. QED
      BY <1>a, <2>1, <2>2, <2>3 DEF PlanOf
  <1>8. DOMAIN plans = 1..Cardinality(S)
    BY <1>4, <1>5, <1>6
  <1>. QED
    BY <1>4, <1>7, <1>8, <1>b


(* The collapsed scan reads what the plans would.                          *)
LEMMA FastPathRead ==
  ASSUME HInv, NEW s \in 1..last, NEW t, NEW p, NEW plans, plans = PlansAt(t, s, p),
         FastPathEligible(plans), NEW i \in DOMAIN plans
  PROVE  BuildPlan(plans[i]) = ScanParquet(plans[i].file)
  <1>1. PICK f \in Candidates(t, s, p) : plans[i] = PlanOf(f, s)
    BY PlansOfFiles
  <1>2. f \in files /\ VisibleAt(f, s)
    BY DEF Candidates, VisibleFiles
  <1>3. PlanOf(f, s).isPure
    BY <1>1 DEF FastPathEligible
  <1>4. PlanOf(f, s).file = f.id
    BY DEF PlanOf, PlanFile, Candidate
  <1>. QED
    BY <1>1, <1>2, <1>3, <1>4, PureFile

(* The rows of a file that a read at s delivers.                           *)
ReadOf(f, s) == {ReadRow(f, i, Layout(f.table, s)) : i \in KeptIn(f, s)}

(* A read delivers the rows of the candidate files that the predicate      *)
(* keeps.                                                                  *)
LEMMA FramesRead ==
  ASSUME HInv, NEW s \in 1..last, NEW t, NEW p, NEW rows, rows = ReadPlans(PlansAt(t, s, p), p)
  PROVE  rows = Filter(UNION {ReadOf(f, s) : f \in Candidates(t, s, p)}, p)
  <1>a. PICK plans : plans = PlansAt(t, s, p)
    OBVIOUS
  <1>b. PICK S : S = Candidates(t, s, p)
    OBVIOUS
  <1>1. \A f \in S : f \in files /\ f.table = t /\ VisibleAt(f, s)
    BY <1>b DEF Candidates, VisibleFiles
  <1>2. \A f \in S : BuildPlan(PlanOf(f, s)) = ReadOf(f, s)
    BY <1>1, PlannedRead DEF ReadOf
  <1>3. /\ \A i \in DOMAIN plans : \E f \in S : plans[i] = PlanOf(f, s)
        /\ \A f \in S : \E i \in DOMAIN plans : plans[i] = PlanOf(f, s)
    BY <1>a, <1>b, PlansOfFiles
  <1>. DEFINE frame(i) == IF FastPathEligible(plans) THEN ScanParquet(plans[i].file)
                                                    ELSE BuildPlan(plans[i])
  <1>4. rows = Filter(UNION {frame(i) : i \in DOMAIN plans}, p)
    BY <1>a DEF ReadPlans
  <1>5. \A i \in DOMAIN plans : frame(i) = BuildPlan(plans[i])
    BY <1>a, FastPathRead
  <1>. HIDE DEF frame
  <1>6. \A i \in DOMAIN plans : \E f \in S : frame(i) = ReadOf(f, s)
    BY <1>2, <1>3, <1>5
  <1>7. \A f \in S : \E i \in DOMAIN plans : frame(i) = ReadOf(f, s)
    BY <1>2, <1>3, <1>5
  <1>8. UNION {frame(i) : i \in DOMAIN plans} = UNION {ReadOf(f, s) : f \in S}
    BY <1>6, <1>7
  <1>. QED
    BY <1>4, <1>8, <1>b

(* A read without a predicate delivers the rows of the visible files, and  *)
(* each at one place.                                                      *)
LEMMA RowsRead ==
  ASSUME HInv, NEW s \in 1..last, NEW t, NEW rows, rows = ReadPlans(PlansAt(t, s, NULL), NULL)
  PROVE  /\ rows = UNION {ReadOf(f, s) : f \in VisibleFiles(t, s)}
         /\ {Bare(r) : r \in rows} = {Seen(x, Layout(t, s)) : x \in FiledAt(t, s)}
         /\ IsFiniteSet(rows)
         /\ \A q, r \in rows : q.key = r.key => q = r
  <1>b. PICK S : S = VisibleFiles(t, s)
    OBVIOUS
  <1>c. PICK cols : cols = Layout(t, s)
    OBVIOUS
  <1>1. \A f \in S : f \in files /\ f.table = t /\ VisibleAt(f, s)
    BY <1>b DEF VisibleFiles
  <1>4. rows = UNION {ReadOf(f, s) : f \in S}
    <2>. DEFINE all == UNION {ReadOf(f, s) : f \in S}
    <2>1. rows = Filter(all, NULL)
      BY <1>b, FramesRead, AllAreCandidates
    <2>. HIDE DEF all
    <2>2. Filter(all, NULL) = all
      BY DEF Filter, Matches
    <2>. QED
      BY <2>1, <2>2 DEF all
  <1>5. ASSUME NEW f \in S, NEW i \in DOMAIN parquet[f.id]
        PROVE  /\ Bare(ReadRow(f, i, cols)) = Seen(StoredRow(f, i), cols)
               /\ ReadRow(f, i, cols).key = parquet[f.id][i].key
    BY DEF Bare, ReadRow, Seen, StoredRow
  <1>6. \A f \in S : \A i \in KeptIn(f, s) : i \in DOMAIN parquet[f.id]
    BY DEF KeptIn
  <1>7. \A f \in S : ReadOf(f, s) = {ReadRow(f, i, cols) : i \in KeptIn(f, s)}
    BY <1>1, <1>c DEF ReadOf
  <1>8. {Bare(r) : r \in rows} = {Seen(x, cols) : x \in FiledAt(t, s)}
    <2>1. \A r \in rows : \E f \in S : \E i \in KeptIn(f, s) : r = ReadRow(f, i, cols)
      BY <1>4, <1>7
    <2>2. \A f \in S : \A i \in KeptIn(f, s) : ReadRow(f, i, cols) \in rows
      BY <1>4, <1>7
    <2>3. \A x \in FiledAt(t, s) : \E f \in S : \E i \in KeptIn(f, s) : x = StoredRow(f, i)
      BY <1>b DEF FiledAt, FileRows
    <2>4. \A f \in S : \A i \in KeptIn(f, s) : StoredRow(f, i) \in FiledAt(t, s)
      BY <1>b DEF FiledAt, FileRows
    <2>5. \A r \in rows : \E x \in FiledAt(t, s) : Bare(r) = Seen(x, cols)
      BY <1>5, <1>6, <2>1, <2>4
    <2>6. \A x \in FiledAt(t, s) : \E r \in rows : Bare(r) = Seen(x, cols)
      BY <1>5, <1>6, <2>2, <2>3
    <2>. QED
      BY <2>5, <2>6
  <1>9. IsFiniteSet(rows)
    <2>1. ASSUME NEW f \in S PROVE IsFiniteSet(ReadOf(f, s))
      <3>. DEFINE K == KeptIn(f, s)
                  read == [i \in K |-> ReadRow(f, i, cols)]
      <3>1. FileSound(f)
        BY <1>1 DEF HInv, RowsKnown
      <3>2. IsFiniteSet(DOMAIN parquet[f.id])
        BY <3>1, FS_Interval DEF FileSound
      <3>3. IsFiniteSet(K)
        BY <3>2, FS_Subset DEF KeptIn
      <3>4. ReadOf(f, s) = {read[i] : i \in K} /\ DOMAIN read = K
        BY <1>7
      <3>. HIDE DEF read, K
      <3>. QED
        BY <3>3, <3>4, FiniteImage
    <2>2. IsFiniteSet(S)
      BY <1>1, FS_Subset DEF HInv, Bounded
    <2>. DEFINE frames == [f \in S |-> ReadOf(f, s)]
                sets == {frames[f] : f \in S}
    <2>3. rows = UNION sets /\ DOMAIN frames = S /\ \A T \in sets : IsFiniteSet(T)
      BY <1>4, <2>1
    <2>4. IsFiniteSet(sets)
      <3>. HIDE DEF frames
      <3>. QED
        BY <2>2, <2>3, FiniteImage
    <2>. HIDE DEF sets
    <2>. QED
      BY <2>3, <2>4, FS_UNION
  <1>10. ASSUME NEW q \in rows, NEW r \in rows, q.key = r.key
         PROVE  q = r
    <2>1. PICK f \in S : \E i \in KeptIn(f, s) : q = ReadRow(f, i, cols)
      BY <1>4, <1>7
    <2>2. PICK i \in KeptIn(f, s) : q = ReadRow(f, i, cols)
      BY <2>1
    <2>3. PICK g \in S : \E j \in KeptIn(g, s) : r = ReadRow(g, j, cols)
      BY <1>4, <1>7
    <2>4. PICK j \in KeptIn(g, s) : r = ReadRow(g, j, cols)
      BY <2>3
    <2>5. parquet[f.id][i].key = parquet[g.id][j].key
      BY <1>5, <1>6, <1>10, <2>2, <2>4
    <2>6. f = g /\ i = j
      BY <1>1, <1>6, <2>5 DEF HInv, KeysOnce
    <2>. QED
      BY <2>2, <2>4, <2>6
  <1>. QED
    BY <1>4, <1>8, <1>9, <1>10, <1>b, <1>c

(* The name of a table at a snapshot, and what the lake held under it.     *)
LEMMA NamedThen ==
  ASSUME HInv, NEW s \in 1..last, NEW n
  PROVE  /\ n \in DOMAIN history[s] <=> TablesNamed(n, s) # {}
         /\ TablesNamed(n, s) # {} =>
               \E t \in tables : /\ TablesNamed(n, s) = {t} /\ ResolveTable(n, s) = t.id
                                 /\ t.name = n /\ VisibleAt(t, s) /\ t.id \in UsedIds
                                 /\ history[s][n] = SeenAt(t.id, s)
         /\ TablesNamed(n, s) = {} => ResolveTable(n, s) = NULL
  <1>1. /\ DOMAIN history[s] = {t.name : t \in {u \in tables : VisibleAt(u, s)}}
        /\ \A t, u \in tables : VisibleAt(t, s) /\ VisibleAt(u, s) /\ t.name = u.name => t = u
    BY DEF HInv, NamesKnown
  <1>2. n \in DOMAIN history[s] <=> TablesNamed(n, s) # {}
    BY <1>1 DEF TablesNamed
  <1>3. ASSUME TablesNamed(n, s) # {}
        PROVE  \E t \in tables : /\ TablesNamed(n, s) = {t} /\ ResolveTable(n, s) = t.id
                                 /\ t.name = n /\ VisibleAt(t, s) /\ t.id \in UsedIds
                                 /\ history[s][n] = SeenAt(t.id, s)
    <2>1. PICK t \in TablesNamed(n, s) : TRUE
      BY <1>3
    <2>2. t \in tables /\ t.name = n /\ VisibleAt(t, s)
      BY DEF TablesNamed
    <2>3. TablesNamed(n, s) = {t}
      BY <1>1, <2>2 DEF TablesNamed
    <2>4. (CHOOSE u \in {t} : TRUE) = t
      OBVIOUS
    <2>5. ResolveTable(n, s) = t.id
      BY <2>3, <2>4 DEF ResolveTable
    <2>6. t.id \in UsedIds /\ history[s][n] = SeenAt(t.id, s)
      BY <2>2 DEF HInv, TablesKnown, HistoriesKnown
    <2>. QED
      BY <2>2, <2>3, <2>5, <2>6
  <1>4. TablesNamed(n, s) = {} => ResolveTable(n, s) = NULL
    BY DEF ResolveTable
  <1>. QED
    BY <1>2, <1>3, <1>4

(* Where nothing waits to be flushed, every row of the past is in a file.  *)
LEMMA NothingWaits ==
  ASSUME NEW t, NEW s, ~HasInlinedData(t)
  PROVE  SeenAt(t, s) = {Seen(x, Layout(t, s)) : x \in FiledAt(t, s)}
  <1>1. \A tr \in Trackers(t) : inlined[tr] = {}
    BY DEF HasInlinedData
  <1>2. WaitingAt(t, s) = {}
    BY <1>1 DEF WaitingAt
  <1>. QED
    BY <1>2 DEF SeenAt, RowsAt

-----------------------------------------------------------------------------
(* Pushdown.  A file with a row that satisfies every pushed clause is not  *)
(* ruled out by its statistics.                                            *)

LEMMA ChunkTells ==
  ASSUME NEW k \in Nat, NEW vals \in [1..k -> Int \cup {NULL, NaN}], NEW i \in 1..k,
         NEW op, NEW lit, op \in CompareOps => lit \in Int
  PROVE  Tells(ChunkStats(vals), vals[i], op, lit, lit)
  <1>a. PICK st : st = ChunkStats(vals)
    OBVIOUS
  <1>b. PICK vs : vs = {vals[j] : j \in DOMAIN vals} \ {NULL, NaN}
    OBVIOUS
  <1>c. PICK n : n = Cardinality({j \in DOMAIN vals : vals[j] = NULL})
    OBVIOUS
  <1>1. /\ st.min = IF vs = {} THEN NULL ELSE Min(vs)
        /\ st.max = IF vs = {} THEN NULL ELSE Max(vs)
        /\ st.nullCount = n /\ st.valueCount = Len(vals)
        /\ st.containsNan = \E j \in DOMAIN vals : vals[j] = NaN
    BY <1>a, <1>b, <1>c DEF ChunkStats, ColumnStats
  <1>2. /\ n \in Nat /\ Len(vals) = k
        /\ vals[i] = NULL => 0 < n
        /\ vals[i] # NULL => n < k
    BY <1>c, CountsTell
  <1>3. vals[i] = NaN => st.containsNan = TRUE
    BY <1>1
  <1>4. ASSUME op \in CompareOps, vals[i] \in Int PROVE Faithful(st, vals[i], lit, lit)
    <2>1. vs # {} /\ Min(vs) \in Int /\ Max(vs) \in Int /\ Min(vs) <= vals[i] /\ vals[i] <= Max(vs)
      BY <1>4, <1>b, PlainEnclosed
    <2>. QED
      BY <1>1, <1>4, <2>1 DEF Faithful
  <1>5. Tells(st, vals[i], op, lit, lit)
    BY <1>1, <1>2, <1>3, <1>4 DEF Tells
  <1>. QED
    BY <1>5, <1>a

LEMMA MatchingFileStays ==
  ASSUME HInv, Measured, NEW s \in 1..last, NEW f \in files, NEW i \in DOMAIN parquet[f.id],
         NEW cols, cols = Layout(f.table, s),
         NEW clauses, \A cl \in clauses : /\ cl.op \in CompareOps \cup NullOps
                                          /\ cl.op \in CompareOps => cl.lit \in Int
                                          /\ cl.col \in NamesOf(cols) =>
                                                Satisfies(cl.op, cl.lit, ReadRow(f, i, cols).cells[cl.col])
  PROVE  FileMayMatch(f, cols, clauses)
  <1>. last \in Nat
    BY DEF HInv, Numbered
  <1>a. PICK from : from = Layout(f.table, f.begin)
    OBVIOUS
  <1>b. PICK rows : rows = parquet[f.id]
    OBVIOUS
  <1>1. f.begin \in 1..last /\ Unambiguous(from) /\ Unambiguous(cols)
    BY <1>a, LayoutsUnambiguous DEF HInv, FilesKnown, Dates
  <1>2. /\ \A j \in DOMAIN rows : Valued(rows[j], from)
        /\ f.stats = NULL \/ Describes(f.stats, rows, from)
    BY <1>a, <1>b DEF Measured, FilesMeasured, MeasuredBy
  <1>3. Len(rows) \in Nat /\ DOMAIN rows = 1..Len(rows) /\ i \in 1..Len(rows)
    BY <1>b DEF HInv, RowsKnown, FileSound
  <1>4. ASSUME NEW c \in cols, NEW cl \in clauses, cl.col = c.name,
               f.stats # NULL, c.id \in DOMAIN f.stats
        PROVE  KeepByStats(cl.op, cl.lit, f.stats[c.id])
    <2>1. PICK h \in from : h.id = c.id
      BY <1>2, <1>4 DEF Describes
    <2>a. PICK vals : vals = Chunk(rows, h.name)
      OBVIOUS
    <2>2. f.stats[c.id] = ChunkStats(vals)
      BY <1>2, <1>4, <2>1, <2>a DEF Describes
    <2>3. vals \in [1..Len(rows) -> Int \cup {NULL, NaN}] /\ vals[i] = rows[i].cells[h.name]
      <3>1. \A j \in DOMAIN rows : rows[j].cells[h.name] \in CellValues
        BY <1>2 DEF Valued
      <3>. QED
        BY <1>3, <2>a, <3>1, CatalogAssumption DEF Chunk
    <2>4. ReadRow(f, i, cols).cells[c.name] = rows[i].cells[h.name]
      <3>1. c.name \in NamesOf(cols) /\ IdIn(cols, c.name) = c.id
        BY <1>1, NamedById DEF NamesOf
      <3>2. NameIn(from, c.id) = h.name /\ h.name # NULL /\ h.name # PARTIAL_SNAPSHOT_COL
        BY <1>1, <2>1, NamedById, CatalogAssumption DEF Unambiguous
      <3>3. PhysicalCells(rows[i])[h.name] = rows[i].cells[h.name]
        <4>1. h.name \in NamesOf(from)
          BY DEF NamesOf
        <4>2. FileHolds(f, rows[i])
          BY <1>b DEF HInv, RowsKnown, FileSound
        <4>3. NamesOf(from) \subseteq DOMAIN rows[i].cells
          BY <1>a, <4>2 DEF FileHolds
        <4>. QED
          BY <3>2, <4>1, <4>3 DEF PhysicalCells, Restrict
      <3>4. ReadRow(f, i, cols).cells = Recast(PhysicalCells(rows[i]), from, cols)
        BY <1>a, <1>b DEF ReadRow
      <3>. QED
        BY <3>1, <3>2, <3>3, <3>4 DEF Recast
    <2>5. Satisfies(cl.op, cl.lit, vals[i]) /\ cl.op \in CompareOps \cup NullOps
      BY <1>4, <2>3, <2>4 DEF NamesOf
    <2>6. Tells(ChunkStats(vals), vals[i], cl.op, cl.lit, cl.lit)
      BY <1>3, <1>4, <2>3, ChunkTells
    <2>. QED
      BY <1>3, <2>2, <2>3, <2>5, <2>6, KeepsMatch
  <1>5. ASSUME NEW c \in cols, NEW onColumn, onColumn = {cl \in clauses : cl.col = c.name},
               NEW st, st = IF f.stats # NULL /\ c.id \in DOMAIN f.stats THEN f.stats[c.id] ELSE NULL
        PROVE  StatsCte(onColumn, "int", st, LAMBDA v : v)
    BY <1>4, <1>5 DEF StatsCte
  <1>. QED
    BY <1>5 DEF FileMayMatch

(* A read with a predicate delivers the rows that satisfy it, of all the   *)
(* rows that a read without one would.                                     *)
LEMMA RowsKept ==
  ASSUME HInv, Measured, NEW s \in 1..last, NEW t, NEW p, p = NULL \/ WellFormed(p),
         Names(p) \subseteq NamesOf(Layout(t, s)),
         NEW rows, rows = ReadPlans(PlansAt(t, s, p), p)
  PROVE  rows = Filter(UNION {ReadOf(f, s) : f \in VisibleFiles(t, s)}, p)
  <1>1. rows = Filter(UNION {ReadOf(f, s) : f \in Candidates(t, s, p)}, p)
    BY FramesRead
  <1>2. Candidates(t, s, p) \subseteq VisibleFiles(t, s)
    BY DEF Candidates
  <1>3. ASSUME NEW f \in VisibleFiles(t, s), NEW r \in ReadOf(f, s), Matches(r, p)
        PROVE  f \in Candidates(t, s, p)
    <2>a. PICK cols : cols = Layout(t, s)
      OBVIOUS
    <2>1. f \in files /\ f.table = t
      BY DEF VisibleFiles
    <2>2. PICK i \in KeptIn(f, s) : r = ReadRow(f, i, cols)
      BY <2>1, <2>a DEF ReadOf
    <2>3. i \in DOMAIN parquet[f.id]
      BY DEF KeptIn
    <2>4. ASSUME NEW cl \in ExtractClauses(p)
          PROVE  /\ cl.op \in CompareOps \cup NullOps
                 /\ cl.op \in CompareOps => cl.lit \in Int
                 /\ Satisfies(cl.op, cl.lit, r.cells[cl.col])
      BY <1>3, ClausesAreImplied DEF ClauseOf
    <2>5. FileMayMatch(f, cols, ExtractClauses(p))
      BY <2>1, <2>2, <2>3, <2>4, <2>a, MatchingFileStays
    <2>. QED
      BY <2>5, <2>a DEF Candidates
  <1>4. \A r : r \in rows <=> r \in Filter(UNION {ReadOf(f, s) : f \in VisibleFiles(t, s)}, p)
    BY <1>1, <1>2, <1>3 DEF Filter
  <1>5. rows \subseteq Filter(UNION {ReadOf(f, s) : f \in VisibleFiles(t, s)}, p)
    BY <1>4
  <1>. QED
    BY <1>4, <1>5

=============================================================================
