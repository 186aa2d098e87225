--------------------------- MODULE DuckLakeCatalog ---------------------------
(***************************************************************************)
(* The state a scan reads: the DuckLake metadata catalog (a SQL database)  *)
(* and the Parquet files it names, with the writers that change them.      *)
(*                                                                         *)
(* Every catalog row carries the interval of snapshots at which it is      *)
(* visible, [begin, end), end being NULL while the row is live.  A commit  *)
(* is one database transaction that creates snapshot last + 1, closes rows *)
(* and opens others; a Parquet file never changes once written.  The       *)
(* writers are those the repository drives: the lake builder of            *)
(* tests/conftest.py and, for compaction and inlined data, the DuckDB      *)
(* writer of the integration tests.                                        *)
(*                                                                         *)
(* history is a ghost: what the lake contained at each snapshot, kept with *)
(* no use of the interval rows, the files or the column ids.               *)
(***************************************************************************)
EXTENDS StatsPruning, Functions, SequencesExt

CONSTANTS
    TableNames,      \* names a table can be created under
    ColumnNames,     \* names a column can have
    CellValues,      \* what a cell can hold: integers, NULL, NaN
    InitialColumns,  \* the columns a table is created with, as a sequence of names
    Kinds,           \* the kinds of commit this instance explores
    MaxSnapshot,     \* bound: snapshots ever committed
    MaxRows          \* bound: rows of one written file

AllKinds ==
    {"create", "append", "unmeasured", "delete", "dropfile", "add", "drop", "rename",
     "compact", "inline", "flush", "droptable", "cleanup"}

(* The physical column the compactor adds to a merged file.                *)
PARTIAL_SNAPSHOT_COL == "_ducklake_internal_snapshot_id"

ASSUME CatalogAssumption ==
    /\ ColumnNames \cap {PARTIAL_SNAPSHOT_COL, NULL} = {}
    /\ CellValues \subseteq Int \cup {NULL, NaN}
    /\ Len(InitialColumns) > 0
    /\ InitialColumns \in Seq(ColumnNames)
    /\ IsInjective(InitialColumns)
    /\ Kinds \subseteq AllKinds
    /\ MaxSnapshot \in Nat
    /\ MaxRows \in Nat

VARIABLES
    last,      \* the newest snapshot id, 0 in a lake without one
    tables,    \* ducklake_table: id, name, begin, end
    columns,   \* ducklake_column: table, id, name, begin, end (top level)
    files,     \* ducklake_data_file and its ducklake_file_column_stats
    deletes,   \* ducklake_delete_file
    inlined,   \* ducklake_inlined_data_tables: tracker -> the rows it holds
    parquet,   \* data_file_id -> the rows of the Parquet file, in order
    posfiles,  \* delete_file_id -> the 0-based positions it lists
    nextId,    \* next table, data file or delete file id
    history    \* ghost: snapshot -> table name -> set of rows

catalogVars ==
    <<last, tables, columns, files, deletes, inlined, parquet, posfiles, nextId, history>>

(* The function f with one more value, or another one.                     *)
Put(f, k, v) == [x \in DOMAIN f \cup {k} |-> IF x = k THEN v ELSE f[x]]

-----------------------------------------------------------------------------
(* MVCC visibility.  The clause every catalog query repeats.               *)

(* Mutant of VisibleAt: a row is still visible at its end_snapshot.        *)
VisibleThroughEnd(row, s) == s >= row.begin /\ (row.end = NULL \/ s <= row.end)

VisibleAt(row, s) == s >= row.begin /\ (row.end = NULL \/ s < row.end)

Live(rows) == {r \in rows : r.end = NULL}

(* UPDATE ... SET end_snapshot = s on the rows R of a catalog table.       *)
Close(rows, R, s) == (rows \ R) \cup {[r EXCEPT !.end = s] : r \in R}

ColumnsOf(t, s) == {c \in columns : c.table = t /\ VisibleAt(c, s)}

(* The layout of a table at a snapshot: stable column id and name.         *)
Layout(t, s) == {[id |-> c.id, name |-> c.name] : c \in ColumnsOf(t, s)}

LiveColumns(t) == {c \in Live(columns) : c.table = t}

LiveFiles(t) == {f \in Live(files) : f.table = t}

-----------------------------------------------------------------------------
(* Rows of a merged file keep the snapshot they came from in that column.  *)
WithOrigin(row) ==
    [row EXCEPT !.cells = Put(@, PARTIAL_SNAPSHOT_COL, row.origin)]

PhysicalCells(row) == Restrict(row.cells, DOMAIN row.cells \ {PARTIAL_SNAPSHOT_COL})

Unmarked(f) ==
    {[parquet[f.id][i] EXCEPT !.cells = PhysicalCells(parquet[f.id][i])] : i \in DOMAIN parquet[f.id]}

Origins(rows) == {rows[i].origin : i \in DOMAIN rows}

(* min and max over a file's column chunk, by column id.                   *)
FileStats(cols, rows) ==
    [id \in {c.id : c \in cols} |->
        LET name == (CHOOSE c \in cols : c.id = id).name
            vals == [i \in DOMAIN rows |-> rows[i].cells[name]]
        IN ColumnStats(vals, \E i \in DOMAIN vals : vals[i] = NaN, LAMBDA v : v)]

(* One ducklake_data_file row; stats is NULL when none were recorded.      *)
FileRow(t, begin, partialMax, stats) ==
    [id |-> nextId, table |-> t, begin |-> begin, end |-> NULL,
     partialMax |-> partialMax, stats |-> stats]

(* Mutant of MergedFile: the file answers from its own commit on.          *)
MergedFromNow(t, rows, measured) == FileRow(t, last + 1, NULL, NULL)

(* A file merged from rows of several snapshots is a partial file.         *)
MergedFile(t, rows, measured) ==
    LET from  == Min(Origins(rows))
        upto  == Max(Origins(rows))
        cols  == ColumnsOf(t, from)
        stats == IF measured THEN FileStats(cols, rows) ELSE NULL
    IN FileRow(t, from, IF from = upto THEN NULL ELSE upto, stats)

MergedRows(rows) ==
    IF Cardinality(Origins(rows)) = 1 THEN rows ELSE [i \in DOMAIN rows |-> WithOrigin(rows[i])]

-----------------------------------------------------------------------------
(* The ghost side of a commit.                                             *)

Now == IF last = 0 THEN <<>> ELSE history[last]

LiveTable(n) == CHOOSE t \in Live(tables) : t.name = n

Record(contents) ==
    /\ last < MaxSnapshot
    /\ last' = last + 1
    /\ history' = Append(history, contents)

Keys(rows) == {r.key : r \in rows}

-----------------------------------------------------------------------------
(* Commits.                                                                *)

CreateTable(n) ==
    /\ "create" \in Kinds
    /\ n \notin DOMAIN Now
    /\ tables' = tables \cup {[id |-> nextId, name |-> n, begin |-> last + 1, end |-> NULL]}
    /\ columns' = columns \cup
          {[table |-> nextId, id |-> i, name |-> InitialColumns[i],
            begin |-> last + 1, end |-> NULL] : i \in DOMAIN InitialColumns}
    /\ nextId' = nextId + 1
    /\ Record(Put(Now, n, {}))
    /\ UNCHANGED <<files, deletes, inlined, parquet, posfiles>>

DropTable(n) ==
    LET t == LiveTable(n).id
    IN /\ "droptable" \in Kinds
       /\ tables' = Close(tables, {LiveTable(n)}, last + 1)
       /\ columns' = Close(columns, LiveColumns(t), last + 1)
       /\ files' = Close(files, LiveFiles(t), last + 1)
       /\ Record(Restrict(Now, DOMAIN Now \ {n}))
       /\ UNCHANGED <<deletes, inlined, parquet, posfiles, nextId>>

(* write_data_file: the rows are new, so their keys are too.               *)
AppendRows(n) ==
    LET t    == LiveTable(n).id
        cols == LiveColumns(t)
    IN \E k \in 1..MaxRows, measured \in BOOLEAN :
       \E cells \in [1..k -> [{c.name : c \in cols} -> CellValues]] :
          LET rows == [i \in 1..k |-> [key |-> <<nextId, i>>, origin |-> last + 1,
                                       cells |-> cells[i]]]
          IN /\ IF measured THEN "append" \in Kinds ELSE "unmeasured" \in Kinds
             /\ files' = files \cup
                   {FileRow(t, last + 1, NULL, IF measured THEN FileStats(cols, rows) ELSE NULL)}
             /\ parquet' = Put(parquet, nextId, rows)
             /\ nextId' = nextId + 1
             /\ Record([Now EXCEPT ![n] = @ \cup
                   {[key |-> rows[i].key, cells |-> rows[i].cells] : i \in 1..k}])
             /\ UNCHANGED <<tables, columns, deletes, inlined, posfiles>>

(* add_delete_file: a delete file for positions of one live data file,     *)
(* beside the live ones, or a cumulative one that supersedes them.         *)
DeleteRows(n) ==
    LET t == LiveTable(n).id
    IN \E f \in LiveFiles(t), supersede \in BOOLEAN :
       LET rows == parquet[f.id]
           old  == {d \in Live(deletes) : d.file = f.id}
       IN \E gone \in SUBSET {i \in DOMAIN rows : rows[i].key \in Keys(Now[n])} :
          /\ "delete" \in Kinds
          /\ gone # {}
          /\ supersede => old # {}
          /\ deletes' = (IF supersede THEN Close(deletes, old, last + 1) ELSE deletes) \cup
                {[id |-> nextId, table |-> t, file |-> f.id, begin |-> last + 1, end |-> NULL]}
          /\ posfiles' = Put(posfiles, nextId,
                {i - 1 : i \in gone} \cup
                    (IF supersede THEN UNION {posfiles[d.id] : d \in old} ELSE {}))
          /\ nextId' = nextId + 1
          /\ Record([Now EXCEPT ![n] = {r \in @ : r.key \notin {rows[i].key : i \in gone}}])
          /\ UNCHANGED <<tables, columns, files, inlined, parquet>>

(* expire_data_file: the data file leaves the table.                       *)
DropFile(n) ==
    \E f \in LiveFiles(LiveTable(n).id) :
       /\ "dropfile" \in Kinds
       /\ files' = Close(files, {f}, last + 1)
       /\ Record([Now EXCEPT ![n] =
             {r \in @ : r.key \notin {parquet[f.id][i].key : i \in DOMAIN parquet[f.id]}}])
       /\ UNCHANGED <<tables, columns, deletes, inlined, parquet, posfiles, nextId>>

(* ALTER TABLE ADD / DROP / RENAME COLUMN.  Column ids are never reused    *)
(* within a table; a rename keeps the id.                                  *)
AddColumn(n, name) ==
    LET t  == LiveTable(n).id
        id == 1 + Max({c.id : c \in {d \in columns : d.table = t}})
    IN /\ "add" \in Kinds
       /\ name \notin {c.name : c \in LiveColumns(t)}
       /\ columns' = columns \cup
             {[table |-> t, id |-> id, name |-> name, begin |-> last + 1, end |-> NULL]}
       /\ Record([Now EXCEPT ![n] = {[r EXCEPT !.cells = Put(@, name, NULL)] : r \in @}])
       /\ UNCHANGED <<tables, files, deletes, inlined, parquet, posfiles, nextId>>

DropColumn(n, c) ==
    /\ "drop" \in Kinds
    /\ LiveColumns(c.table) # {c}
    /\ columns' = Close(columns, {c}, last + 1)
    /\ Record([Now EXCEPT ![n] =
          {[r EXCEPT !.cells = Restrict(@, DOMAIN @ \ {c.name})] : r \in @}])
    /\ UNCHANGED <<tables, files, deletes, inlined, parquet, posfiles, nextId>>

(* Mutant of RenameColumn: the live row is overwritten.                    *)
RenameInPlace(n, c, name) ==
    /\ "rename" \in Kinds
    /\ name \notin {d.name : d \in LiveColumns(c.table)}
    /\ columns' = (columns \ {c}) \cup {[c EXCEPT !.name = name]}
    /\ Record(Now)
    /\ UNCHANGED <<tables, files, deletes, inlined, parquet, posfiles, nextId>>

RenameColumn(n, c, name) ==
    /\ "rename" \in Kinds
    /\ name \notin {d.name : d \in LiveColumns(c.table)}
    /\ columns' = Close(columns, {c}, last + 1) \cup
          {[c EXCEPT !.name = name, !.begin = last + 1]}
    /\ Record([Now EXCEPT ![n] =
          {[r EXCEPT !.cells = Put(Restrict(@, DOMAIN @ \ {c.name}), name, @[c.name])] : r \in @}])
    /\ UNCHANGED <<tables, files, deletes, inlined, parquet, posfiles, nextId>>

(* ducklake_merge_adjacent_files: live files of one layout, none with a    *)
(* delete file, become one file; the catalog rows of the sources go, and   *)
(* the merged file answers for every snapshot the sources answered for.    *)
(* Its rows are in an order of the compactor's choosing.                   *)
Compact(n) ==
    LET t == LiveTable(n).id
    IN \E F \in SUBSET {f \in LiveFiles(t) : \A d \in deletes : d.file # f.id} :
       /\ "compact" \in Kinds
       /\ Cardinality(F) > 1
       /\ \A f, g \in F : Layout(t, f.begin) = Layout(t, g.begin)
       /\ LET rows == SetToSeq(UNION {Unmarked(f) : f \in F})
          IN /\ files' = (files \ F) \cup {MergedFile(t, rows, \A f \in F : f.stats # NULL)}
             /\ parquet' = Put(parquet, nextId, MergedRows(rows))
       /\ nextId' = nextId + 1
       /\ Record(Now)
       /\ UNCHANGED <<tables, columns, deletes, inlined, posfiles>>

(* The tracker of a table under one schema version, named by its layout.   *)
(* It stays registered when it is empty.                                   *)
Tracker(t, s) == [table |-> t, layout |-> Layout(t, s)]

RowsIn(tracker) == IF tracker \in DOMAIN inlined THEN inlined[tracker] ELSE {}

(* A small insert that the writer keeps in the catalog.                    *)
InlineRow(n) ==
    LET tracker == Tracker(LiveTable(n).id, last)
    IN \E cells \in [{c.name : c \in LiveColumns(tracker.table)} -> CellValues] :
       LET row == [origin |-> last + 1, key |-> <<nextId, 1>>, cells |-> cells]
       IN /\ "inline" \in Kinds
          /\ inlined' = Put(inlined, tracker, RowsIn(tracker) \cup {row})
          /\ nextId' = nextId + 1
          /\ Record([Now EXCEPT ![n] = @ \cup {[key |-> row.key, cells |-> cells]}])
          /\ UNCHANGED <<tables, columns, files, deletes, parquet, posfiles>>

(* ducklake_flush_inlined_data: the rows of a tracker become a file that   *)
(* answers for the snapshots they were inserted at.                        *)
FlushInlined(n) ==
    LET t == LiveTable(n).id
    IN \E tracker \in {r \in DOMAIN inlined : r.table = t /\ inlined[r] # {}} :
       LET rows == SetToSeq(inlined[tracker])
       IN /\ "flush" \in Kinds
          /\ files' = files \cup {MergedFile(t, rows, TRUE)}
          /\ parquet' = Put(parquet, nextId, MergedRows(rows))
          /\ inlined' = [inlined EXCEPT ![tracker] = {}]
          /\ nextId' = nextId + 1
          /\ Record(Now)
          /\ UNCHANGED <<tables, columns, deletes, posfiles>>

(* Mutant of Cleanup: what the newest snapshot does not name is removed.   *)
CleanupDead ==
    /\ "cleanup" \in Kinds
    /\ \E id \in DOMAIN parquet \ {f.id : f \in Live(files)} :
          parquet' = Restrict(parquet, DOMAIN parquet \ {id})
    /\ UNCHANGED <<last, tables, columns, files, deletes, inlined, posfiles, nextId, history>>

(* ducklake_cleanup_old_files: a Parquet file no catalog row names is      *)
(* removed from storage.                                                   *)
Cleanup ==
    /\ "cleanup" \in Kinds
    /\ \E id \in DOMAIN parquet \ {f.id : f \in files} :
          parquet' = Restrict(parquet, DOMAIN parquet \ {id})
    /\ UNCHANGED <<last, tables, columns, files, deletes, inlined, posfiles, nextId, history>>

-----------------------------------------------------------------------------
CatalogInit ==
    /\ last = 0
    /\ tables = {}
    /\ columns = {}
    /\ files = {}
    /\ deletes = {}
    /\ inlined = <<>>
    /\ parquet = <<>>
    /\ posfiles = <<>>
    /\ nextId = 1
    /\ history = <<>>

TableCommit(n) ==
    \/ AppendRows(n)
    \/ DeleteRows(n)
    \/ DropFile(n)
    \/ \E name \in ColumnNames : AddColumn(n, name)
    \/ \E c \in LiveColumns(LiveTable(n).id) :
          \/ DropColumn(n, c)
          \/ \E name \in ColumnNames : RenameColumn(n, c, name)
    \/ Compact(n)
    \/ InlineRow(n)
    \/ FlushInlined(n)
    \/ DropTable(n)

CatalogNext ==
    \/ \E n \in TableNames : CreateTable(n)
    \/ \E n \in DOMAIN Now : TableCommit(n)
    \/ Cleanup

=============================================================================
