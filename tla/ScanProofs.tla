----------------------------- MODULE ScanProofs -----------------------------
(***************************************************************************)
(* Proofs about DuckLakeScan, for any number of commits, of files and of   *)
(* evaluations: a scan implements SnapshotRead, and each frame it yields   *)
(* has the schema that was promised when it was called.                    *)
(*                                                                         *)
(* While an evaluation runs, some function content gives for each data     *)
(* file of its table the rows the snapshot has in it (Reading): taken      *)
(* together they are the table at the snapshot, the plans that are left    *)
(* read their files to them, and what was delivered is what the query      *)
(* picks from the files that are done.  The catalog is free to change      *)
(* between two statements; a commit leaves alone what content was made of. *)
(***************************************************************************)
EXTENDS DuckLakeScan, CatalogProofs

(* What a commit, or a clean-up, between two statements leaves alone: what *)
(* files on storage hold, what delete files list, who was where.           *)

StorageKept ==
    \A id \in UsedIds : id \in DOMAIN parquet' => id \in DOMAIN parquet /\ parquet'[id] = parquet[id]

PositionsKept ==
    \A id \in DOMAIN posfiles : id \in DOMAIN posfiles' /\ posfiles'[id] = posfiles[id]

NewRowsWait ==
    /\ DOMAIN inlined \subseteq DOMAIN inlined'
    /\ \A tr \in DOMAIN inlined' : \A r \in inlined'[tr] :
          r.origin = last + 1 \/ (tr \in DOMAIN inlined /\ r \in inlined[tr])

NamesStay ==
    \A t \in tables, s \in 1..last : VisibleAt(t, s) =>
       \E u \in tables' : VisibleAt(u, s) /\ u.id = t.id /\ u.name = t.name

HistoryGrows ==
    \/ UNCHANGED <<last, history>>
    \/ \E now : Record(now)

LEMMA StorageWritten ==
  ASSUME HInv, NEW rows, parquet' = Put(parquet, nextId, rows)
  PROVE  StorageKept
  <1>1. nextId \notin UsedIds
    BY DEF UsedIds, HInv, Bounded
  <1>2. \A x \in DOMAIN parquet : x # nextId => Put(parquet, nextId, rows)[x] = parquet[x]
    BY DEF Put
  <1>3. DOMAIN Put(parquet, nextId, rows) = DOMAIN parquet \cup {nextId}
    BY DEF Put
  <1>4. ASSUME NEW id \in UsedIds, id \in DOMAIN parquet'
        PROVE  id \in DOMAIN parquet /\ parquet'[id] = parquet[id]
    <2>1. id \in DOMAIN parquet /\ id # nextId
      BY <1>1, <1>3, <1>4
    <2>. QED
      BY <1>2, <2>1
  <1>. QED
    BY <1>4 DEF StorageKept

LEMMA PositionsWritten ==
  ASSUME HInv, NEW places, posfiles' = Put(posfiles, nextId, places)
  PROVE  PositionsKept
  <1>1. \A id \in DOMAIN posfiles : id # nextId
    BY DEF UsedIds, HInv, Bounded, DeletesKnown
  <1>2. \A x \in DOMAIN posfiles : x # nextId => Put(posfiles, nextId, places)[x] = posfiles[x]
    BY DEF Put
  <1>3. DOMAIN Put(posfiles, nextId, places) = DOMAIN posfiles \cup {nextId}
    BY DEF Put
  <1>. QED
    BY <1>1, <1>2, <1>3 DEF PositionsKept

LEMMA RowsWait ==
  ASSUME NEW tr, NEW row, row.origin = last + 1,
         inlined' = Put(inlined, tr, RowsIn(tr) \cup {row})
  PROVE  NewRowsWait
  <1>1. PICK new : new = RowsIn(tr) \cup {row}
    OBVIOUS
  <1>2. /\ DOMAIN Put(inlined, tr, new) = DOMAIN inlined \cup {tr}
        /\ Put(inlined, tr, new)[tr] = new
        /\ \A x \in DOMAIN inlined : x # tr => Put(inlined, tr, new)[x] = inlined[x]
    BY DEF Put
  <1>3. ASSUME NEW ur \in DOMAIN inlined', NEW r \in inlined'[ur]
        PROVE  r.origin = last + 1 \/ (ur \in DOMAIN inlined /\ r \in inlined[ur])
    <2>1. CASE ur = tr
      <3>1. r \in RowsIn(tr) \cup {row}
        BY <1>1, <1>2, <2>1
      <3>. QED
        BY <2>1, <3>1 DEF RowsIn
    <2>2. CASE ur # tr
      <3>1. ur \in DOMAIN inlined /\ inlined'[ur] = inlined[ur]
        BY <1>1, <1>2, <2>2
      <3>. QED
        BY <3>1
    <2>. QED
      BY <2>1, <2>2
  <1>. QED
    BY <1>1, <1>2, <1>3 DEF NewRowsWait

LEMMA RowsLeave ==
  ASSUME NEW tr, inlined' = [inlined EXCEPT ![tr] = {}]
  PROVE  NewRowsWait
  BY DEF NewRowsWait

LEMMA SameNames ==
  ASSUME UNCHANGED tables
  PROVE  NamesStay
  BY DEF NamesStay

LEMMA SameStorage ==
  ASSUME UNCHANGED parquet
  PROVE  StorageKept
  BY DEF StorageKept

LEMMA SamePositions ==
  ASSUME UNCHANGED posfiles
  PROVE  PositionsKept
  BY DEF PositionsKept

LEMMA SameWaitingRows ==
  ASSUME UNCHANGED inlined
  PROVE  NewRowsWait
  BY DEF NewRowsWait

CommitKeeps == StorageKept /\ PositionsKept /\ NewRowsWait /\ NamesStay /\ HistoryGrows

LEMMA RestKept ==
  ASSUME HInv, UNCHANGED <<tables, inlined, posfiles, parquet>>, NEW now, Record(now)
  PROVE  CommitKeeps
  BY SameNames, SameStorage, SamePositions, SameWaitingRows DEF CommitKeeps, HistoryGrows

LEMMA TableEnds ==
  ASSUME HInv, NEW t, t \in Live(tables), tables' = Close(tables, {t}, last + 1)
  PROVE  NamesStay
  <1>. last \in Nat
    BY DEF HInv, Numbered
  <1>. DEFINE ended == [t EXCEPT !.end = last + 1]
  <1>1. t \in tables /\ TableRow(t) /\ Dates(t) /\ t.end = NULL
    BY DEF Live, HInv, TablesKnown
  <1>2. /\ ended.id = t.id /\ ended.name = t.name /\ ended.begin = t.begin /\ ended.end = last + 1
    BY <1>1 DEF TableRow
  <1>3. tables' = (tables \ {t}) \cup {ended}
    BY DEF Close
  <1>. HIDE DEF ended
  <1>4. ASSUME NEW u \in tables, NEW s \in 1..last, VisibleAt(u, s)
        PROVE  \E w \in tables' : VisibleAt(w, s) /\ w.id = u.id /\ w.name = u.name
    <2>1. CASE u = t
      <3>1. VisibleAt(ended, s)
        BY <1>1, <1>2, <1>4, <2>1 DEF VisibleAt
      <3>. QED
        BY <1>2, <1>3, <2>1, <3>1
    <2>2. CASE u # t
      BY <1>3, <1>4, <2>2
    <2>. QED
      BY <2>1, <2>2
  <1>. QED
    BY <1>4 DEF NamesStay

LEMMA CatalogKeeps ==
  ASSUME HInv, [CatalogNext]_catalogVars
  PROVE  CommitKeeps
  <1>1. ASSUME NEW n, CreateTable(n) PROVE CommitKeeps
    <2>1. UNCHANGED <<inlined, parquet, posfiles>> /\ Record(Put(Now, n, {}))
      BY <1>1 DEF CreateTable
    <2>2. tables \subseteq tables'
      BY <1>1 DEF CreateTable
    <2>3. NamesStay
      BY <2>2 DEF NamesStay
    <2>. QED
      BY <2>1, <2>3, SameStorage, SamePositions, SameWaitingRows DEF CommitKeeps, HistoryGrows
  <1>2. ASSUME NEW n \in DOMAIN Now, TableCommit(n) PROVE CommitKeeps
    <2>1. CASE AppendRows(n)
      <3>1. UNCHANGED <<tables, inlined, posfiles>> /\ \E now : Record(now)
        BY <2>1 DEF AppendRows
      <3>2. \E rows : parquet' = Put(parquet, nextId, rows)
        BY <2>1 DEF AppendRows
      <3>. QED
        BY <3>1, <3>2, StorageWritten, SameNames, SamePositions, SameWaitingRows
           DEF CommitKeeps, HistoryGrows
    <2>2. CASE DeleteRows(n)
      <3>1. UNCHANGED <<tables, inlined, parquet>> /\ \E now : Record(now)
        BY <2>2 DEF DeleteRows
      <3>2. \E places : posfiles' = Put(posfiles, nextId, places)
        BY <2>2 DEF DeleteRows
      <3>. QED
        BY <3>1, <3>2, PositionsWritten, SameNames, SameStorage, SameWaitingRows
           DEF CommitKeeps, HistoryGrows
    <2>3. CASE DropFile(n)
      <3>1. UNCHANGED <<tables, inlined, posfiles, parquet>> /\ \E now : Record(now)
        BY <2>3 DEF DropFile
      <3>. QED
        BY <3>1, RestKept
    <2>4. CASE \E name \in ColumnNames : AddColumn(n, name)
      <3>1. UNCHANGED <<tables, inlined, posfiles, parquet>> /\ \E now : Record(now)
        BY <2>4 DEF AddColumn
      <3>. QED
        BY <3>1, RestKept
    <2>5. CASE \E c \in LiveColumns(LiveTable(n).id) :
                  DropColumn(n, c) \/ \E name \in ColumnNames : RenameColumn(n, c, name)
      <3>1. UNCHANGED <<tables, inlined, posfiles, parquet>> /\ \E now : Record(now)
        BY <2>5 DEF DropColumn, RenameColumn
      <3>. QED
        BY <3>1, RestKept
    <2>6. CASE Compact(n)
      <3>1. UNCHANGED <<tables, inlined, posfiles>> /\ \E now : Record(now)
        BY <2>6 DEF Compact
      <3>2. \E rows : parquet' = Put(parquet, nextId, rows)
        BY <2>6 DEF Compact
      <3>. QED
        BY <3>1, <3>2, StorageWritten, SameNames, SamePositions, SameWaitingRows
           DEF CommitKeeps, HistoryGrows
    <2>7. CASE InlineRow(n)
      <3>1. UNCHANGED <<tables, parquet, posfiles>> /\ \E now : Record(now)
        BY <2>7 DEF InlineRow
      <3>2. \E tr, row : row.origin = last + 1 /\ inlined' = Put(inlined, tr, RowsIn(tr) \cup {row})
        BY <2>7 DEF InlineRow
      <3>. QED
        BY <3>1, <3>2, RowsWait, SameNames, SamePositions, SameStorage
           DEF CommitKeeps, HistoryGrows
    <2>8. CASE FlushInlined(n)
      <3>1. UNCHANGED <<tables, posfiles>> /\ \E now : Record(now)
        BY <2>8 DEF FlushInlined
      <3>2. \E rows : parquet' = Put(parquet, nextId, rows)
        BY <2>8 DEF FlushInlined
      <3>3. \E tr : inlined' = [inlined EXCEPT ![tr] = {}]
        BY <2>8 DEF FlushInlined
      <3>. QED
        BY <3>1, <3>2, <3>3, StorageWritten, RowsLeave, SameNames, SamePositions
           DEF CommitKeeps, HistoryGrows
    <2>9. CASE DropTable(n)
      <3>1. UNCHANGED <<inlined, parquet, posfiles>> /\ \E now : Record(now)
        BY <2>9 DEF DropTable
      <3>2. tables' = Close(tables, {LiveTable(n)}, last + 1)
        BY <2>9 DEF DropTable
      <3>3. LiveTable(n) \in Live(tables)
        BY LakeNow
      <3>. QED
        BY <3>1, <3>2, <3>3, TableEnds, SameStorage, SamePositions, SameWaitingRows
           DEF CommitKeeps, HistoryGrows
    <2>. QED
      BY <1>2, <2>1, <2>2, <2>3, <2>4, <2>5, <2>6, <2>7, <2>8, <2>9 DEF TableCommit
  <1>3. CASE Cleanup
    <2>1. UNCHANGED <<last, history, tables, inlined, posfiles>>
      BY <1>3 DEF Cleanup
    <2>2. StorageKept
      BY <1>3 DEF Cleanup, Restrict, StorageKept
    <2>. QED
      BY <2>1, <2>2, SameNames, SamePositions, SameWaitingRows DEF CommitKeeps, HistoryGrows
  <1>4. CASE UNCHANGED catalogVars
    <2>1. UNCHANGED <<last, history, tables, inlined, posfiles, parquet>>
      BY <1>4 DEF catalogVars
    <2>. QED
      BY <2>1, SameNames, SameStorage, SamePositions, SameWaitingRows DEF CommitKeeps, HistoryGrows
  <1>. QED
    BY <1>1, <1>2, <1>3, <1>4 DEF CatalogNext

-----------------------------------------------------------------------------
(* What an evaluation has to read.  content gives the rows of each         *)
(* candidate file, as its plan reads them; it is fixed when the candidates *)
(* are fetched, and is all that the snapshot held.                         *)

FrameRow(r) == r = [file |-> r.file, pos |-> r.pos, key |-> r.key, cells |-> r.cells]

Part(content, ids) == UNION {content[id] : id \in ids}

Picked(rows) == {Selected(r, query.columns) : r \in Filter(rows, query.predicate)}

KeysApartIn(content) ==
    \A a, b \in DOMAIN content : \A q \in content[a], r \in content[b] : q.key = r.key => q = r

Contents(content) ==
    /\ IsFiniteSet(DOMAIN content)
    /\ \A id \in DOMAIN content :
          /\ id \in UsedIds
          /\ IsFiniteSet(content[id])
          /\ \A r \in content[id] : FrameRow(r) /\ r.file = id /\ DOMAIN r.cells = TargetNames
    /\ KeysApartIn(content)
    /\ {Bare(r) : r \in Filter(Part(content, DOMAIN content), query.predicate)} = Promise!Matching

(* SnapshotRead counts with an instance of its own of Cardinality.         *)
LEMMA PromisedCount ==
  ASSUME NEW S
  PROVE  Promise!Cardinality(S) = Cardinality(S)
  BY DEF Promise!Cardinality, Cardinality

LEMMA SelectedRow ==
  ASSUME NEW r, FrameRow(r), NEW cols
  PROVE  /\ FrameRow(Selected(r, cols))
         /\ Selected(r, cols).file = r.file
         /\ Selected(r, cols).key = r.key
         /\ DOMAIN Selected(r, cols).cells = IF cols = NULL THEN DOMAIN r.cells ELSE cols
         /\ Bare(Selected(r, cols)) = Selected(Bare(r), cols)
  <1>1. CASE cols = NULL
    BY <1>1 DEF Selected
  <1>2. CASE cols # NULL
    <2>. DEFINE c == Restrict(r.cells, cols)
    <2>1. Selected(r, cols) = [file |-> r.file, pos |-> r.pos, key |-> r.key, cells |-> c]
      BY <1>2 DEF Selected, FrameRow
    <2>2. Selected(Bare(r), cols) = [key |-> r.key, cells |-> c]
      BY <1>2 DEF Selected, Bare
    <2>3. DOMAIN c = cols
      BY DEF Restrict
    <2>. HIDE DEF c
    <2>4. Bare(Selected(r, cols)) = [key |-> r.key, cells |-> c]
      BY <2>1 DEF Bare
    <2>. QED
      BY <1>2, <2>1, <2>2, <2>3, <2>4 DEF FrameRow
  <1>. QED
    BY <1>1, <1>2

(* A picked row is a row of the content, and that row is one.              *)
LEMMA PickedRow ==
  ASSUME NEW content, Contents(content), NEW ids \in SUBSET DOMAIN content,
         NEW r \in Picked(Part(content, ids))
  PROVE  \E id \in ids : \E x \in content[id] :
            /\ r = Selected(x, query.columns) /\ Matches(x, query.predicate)
            /\ FrameRow(x) /\ x.file = id /\ r.file = id /\ r.key = x.key
            /\ DOMAIN x.cells = TargetNames
  <1>1. PICK x \in Filter(Part(content, ids), query.predicate) : r = Selected(x, query.columns)
    BY DEF Picked
  <1>2. PICK id \in ids : x \in content[id]
    BY <1>1 DEF Filter, Part
  <1>3. Matches(x, query.predicate) /\ id \in DOMAIN content
    BY <1>1 DEF Filter
  <1>4. FrameRow(x) /\ x.file = id /\ DOMAIN x.cells = TargetNames
    BY <1>2, <1>3 DEF Contents
  <1>. QED
    BY <1>1, <1>2, <1>3, <1>4, SelectedRow

LEMMA PickedOnce ==
  ASSUME NEW content, Contents(content), NEW ids \in SUBSET DOMAIN content,
         NEW q \in Picked(Part(content, ids)), NEW r \in Picked(Part(content, ids)), q.key = r.key
  PROVE  q = r
  <1>1. PICK a \in ids : \E x \in content[a] : q = Selected(x, query.columns) /\ q.key = x.key
    BY PickedRow
  <1>2. PICK x \in content[a] : q = Selected(x, query.columns) /\ q.key = x.key
    BY <1>1
  <1>3. PICK b \in ids : \E y \in content[b] : r = Selected(y, query.columns) /\ r.key = y.key
    BY PickedRow
  <1>4. PICK y \in content[b] : r = Selected(y, query.columns) /\ r.key = y.key
    BY <1>3
  <1>5. x = y
    BY <1>2, <1>4 DEF Contents, KeysApartIn
  <1>. QED
    BY <1>2, <1>4, <1>5

LEMMA PickedMore ==
  ASSUME NEW content, NEW less, NEW more, less \subseteq more
  PROVE  Picked(Part(content, less)) \subseteq Picked(Part(content, more))
  BY DEF Picked, Part, Filter

(* As many rows are picked, of all, as the snapshot has that match.        *)
LEMMA PickedCount ==
  ASSUME NEW content, Contents(content)
  PROVE  /\ IsFiniteSet(Picked(Part(content, DOMAIN content)))
         /\ Cardinality(Picked(Part(content, DOMAIN content))) = Cardinality(Promise!Matching)
         /\ Cardinality(Promise!Matching) \in Nat
  <1>a. PICK all : all = Part(content, DOMAIN content)
    OBVIOUS
  <1>b. PICK F : F = Filter(all, query.predicate)
    OBVIOUS
  <1>1. IsFiniteSet(all)
    <2>1. IsFiniteSet({content[id] : id \in DOMAIN content})
      BY FiniteImage DEF Contents
    <2>2. \A T \in {content[id] : id \in DOMAIN content} : IsFiniteSet(T)
      BY DEF Contents
    <2>3. IsFiniteSet(UNION {content[id] : id \in DOMAIN content})
      BY <2>1, <2>2, FS_UNION
    <2>. QED
      BY <2>3, <1>a DEF Part
  <1>2. IsFiniteSet(F)
    <2>1. F \in SUBSET all
      BY <1>b DEF Filter
    <2>. QED
      BY <1>1, <2>1, FS_Subset
  <1>3. \A q, r \in F : q.key = r.key => q = r
    BY <1>a, <1>b DEF Filter, Part, Contents, KeysApartIn
  <1>4. \A r \in F : FrameRow(r)
    BY <1>a, <1>b DEF Filter, Part, Contents
  <1>5. Cardinality({Bare(r) : r \in F}) = Cardinality(F)
    <2>. DEFINE bare == [r \in F |-> Bare(r)]
                T == {Bare(r) : r \in F}
    <2>1. bare \in Injection(F, T)
      BY <1>3 DEF Bare, Injection, IsInjective
    <2>2. bare \in Surjection(F, T)
      BY DEF Surjection
    <2>3. ExistsBijection(F, T)
      BY <2>1, <2>2 DEF Bijection, ExistsBijection
    <2>. QED
      BY <1>2, <2>3, FS_Bijection
  <1>6. {Bare(r) : r \in F} = Promise!Matching
    BY <1>a, <1>b DEF Contents
  <1>. DEFINE T == {Selected(r, query.columns) : r \in F}
              pick == [r \in F |-> Selected(r, query.columns)]
  <1>7. IsFiniteSet(T) /\ Cardinality(T) = Cardinality(F)
    <2>1. \A q, r \in F : pick[q] = pick[r] => q = r
      <3>1. \A r \in F : pick[r].key = r.key
        BY <1>4, SelectedRow
      <3>. QED
        BY <1>3, <3>1
    <2>2. pick \in Injection(F, T)
      BY <2>1 DEF Injection, IsInjective
    <2>3. pick \in Surjection(F, T)
      BY DEF Surjection
    <2>4. ExistsBijection(F, T)
      BY <2>2, <2>3 DEF Bijection, ExistsBijection
    <2>. QED
      BY <1>2, <2>4, FS_Bijection
  <1>8. Picked(all) = T
    BY <1>b DEF Picked
  <1>9. Cardinality(F) \in Nat
    BY <1>2, FS_CardinalityType
  <1>. HIDE DEF T, pick
  <1>. QED
    BY <1>5, <1>6, <1>7, <1>8, <1>9, <1>a

-----------------------------------------------------------------------------
(* What is still ahead of the evaluation, and what is behind it.           *)

NextPlan(file) == PlanFile(file, Layout(table, file.begin), target, targetColumns)

(* A plan whose file is still on storage reads the content of that file.   *)
Reads(plan, content) ==
    /\ plan.file \in DOMAIN content
    /\ plan.deleteFiles \subseteq DOMAIN posfiles
    /\ OnStorage(plan) => /\ BuildPlan(plan) = content[plan.file]
                          /\ plan.isPure => ScanParquet(plan.file) = content[plan.file]

Left == {pending[j].id : j \in DOMAIN pending} \cup {plans[i].file : i \in DOMAIN plans}

PlannedOnce ==
    /\ \A i, j \in DOMAIN plans : plans[i].file = plans[j].file => i = j
    /\ \A i, j \in DOMAIN pending : pending[i].id = pending[j].id => i = j
    /\ \A i \in DOMAIN plans, j \in DOMAIN pending : plans[i].file # pending[j].id

Ahead(content) ==
    /\ \E S : pending \in Seq(S)
    /\ \E S : plans \in Seq(S)
    /\ \A j \in DOMAIN pending : pending[j].begin \in 1..last /\ Reads(NextPlan(pending[j]), content)
    /\ \A i \in DOMAIN plans : Reads(plans[i], content)
    /\ PlannedOnce

Got == Promise!Rows(delivered)

Limited(got) ==
    IF query.limit = NULL THEN remaining = NULL
    ELSE remaining \in Nat /\ query.limit \in Nat /\ Cardinality(got) + remaining = query.limit

Behind(content) ==
    LET done == Picked(Part(content, DOMAIN content \ Left))
    IN /\ \E S : delivered \in Seq(S)
       /\ Promise!EachOnce(delivered)
       /\ Got \subseteq done
       /\ remaining # 0 => Got = done
       /\ Limited(Got)

Reading(content) == Contents(content) /\ Ahead(content) /\ Behind(content)

(* What has been delivered is of the snapshot, and no more than is due;    *)
(* and no less once nothing is left to read, or wanted.                    *)
Sound(frames) ==
    /\ Promise!EachOnce(frames)
    /\ \A r \in Promise!Rows(frames) :
          [key |-> r.key, cells |-> r.cells] \in {Selected(h, query.columns) : h \in Promise!Matching}
    /\ Cardinality(Promise!Rows(frames)) <= Promise!Due

LEMMA PickedIsPromised ==
  ASSUME NEW content, Contents(content), NEW ids \in SUBSET DOMAIN content,
         NEW r \in Picked(Part(content, ids))
  PROVE  [key |-> r.key, cells |-> r.cells] \in {Selected(h, query.columns) : h \in Promise!Matching}
  <1>1. PICK id \in ids : \E x \in content[id] :
            r = Selected(x, query.columns) /\ Matches(x, query.predicate) /\ FrameRow(x)
    BY PickedRow
  <1>2. PICK x \in content[id] :
            r = Selected(x, query.columns) /\ Matches(x, query.predicate) /\ FrameRow(x)
    BY <1>1
  <1>3. x \in Filter(Part(content, DOMAIN content), query.predicate)
    BY <1>2 DEF Filter, Part
  <1>4. Bare(x) \in Promise!Matching
    BY <1>3 DEF Contents
  <1>5. Bare(r) = Selected(Bare(x), query.columns)
    BY <1>2, SelectedRow
  <1>. QED
    BY <1>4, <1>5 DEF Bare

LEMMA DeliveredIsSound ==
  ASSUME NEW content, Contents(content), Behind(content)
  PROVE  /\ Sound(delivered)
         /\ DOMAIN content \cap Left = {} \/ remaining = 0 => Cardinality(Got) = Promise!Due
  <1>a. PICK done : done = DOMAIN content \ Left
    OBVIOUS
  <1>b. PICK all : all = Picked(Part(content, DOMAIN content))
    OBVIOUS
  <1>c. PICK got : got = Got
    OBVIOUS
  <1>d. PICK n : n = Cardinality(Promise!Matching)
    OBVIOUS
  <1>1. got \subseteq Picked(Part(content, done)) /\ (remaining # 0 => got = Picked(Part(content, done)))
    BY <1>a, <1>c DEF Behind
  <1>2. Picked(Part(content, done)) \subseteq all
    BY <1>a, <1>b, PickedMore
  <1>3. IsFiniteSet(all) /\ Cardinality(all) = n /\ n \in Nat
    BY <1>b, <1>d, PickedCount
  <1>4. IsFiniteSet(got) /\ Cardinality(got) <= n /\ Cardinality(got) \in Nat
    <2>1. got \in SUBSET all
      BY <1>1, <1>2
    <2>. QED
      BY <1>3, <2>1, FS_Subset, FS_CardinalityType
  <1>5. Limited(got)
    BY <1>c DEF Behind
  <1>6. Promise!Due = IF query.limit = NULL \/ n <= query.limit THEN n ELSE query.limit
    <2>1. n = Promise!Cardinality(Promise!Matching)
      BY <1>d, PromisedCount
    <2>. QED
      BY <2>1 DEF Promise!Due
  <1>7. Cardinality(got) <= Promise!Due
    BY <1>3, <1>4, <1>5, <1>6 DEF Limited
  <1>8. ASSUME DOMAIN content \cap Left = {}, remaining # 0
        PROVE  Cardinality(got) = Promise!Due
    <2>1. done = DOMAIN content
      BY <1>8, <1>a
    <2>2. Cardinality(got) = n
      BY <1>1, <1>3, <1>8, <1>b, <2>1
    <2>. QED
      BY <1>3, <1>5, <1>6, <2>2 DEF Limited
  <1>9. ASSUME remaining = 0
        PROVE  Cardinality(got) = Promise!Due
    BY <1>3, <1>4, <1>5, <1>6, <1>9, MarkersAreNotValues DEF Limited
  <1>10. \A r \in got : [key |-> r.key, cells |-> r.cells]
                            \in {Selected(h, query.columns) : h \in Promise!Matching}
    <2>1. done \in SUBSET DOMAIN content
      BY <1>a
    <2>2. \A r \in got : r \in Picked(Part(content, done))
      BY <1>1
    <2>. QED
      BY <2>1, <2>2, PickedIsPromised
  <1>. QED
    BY <1>7, <1>8, <1>9, <1>10, <1>c DEF Sound, Got, Behind

-----------------------------------------------------------------------------
(* Between two statements: the past, and what the plans read, stay.        *)

WorldKept ==
    /\ StorageKept
    /\ PositionsKept
    /\ UsedIds \subseteq UsedIds'
    /\ 1..last \subseteq 1..last'
    /\ \A s \in 1..last : history'[s] = history[s]
    /\ \A s \in 1..last : \A t : Layout(t, s)' = Layout(t, s)

LEMMA WorldGoesOn ==
  ASSUME HInv, [CatalogNext]_catalogVars
  PROVE  WorldKept
  <1>1. Grows
    BY StepGrows
  <1>2. StorageKept /\ PositionsKept /\ HistoryGrows
    BY CatalogKeeps DEF CommitKeeps
  <1>3. \A s \in 1..last : history'[s] = history[s]
    BY <1>2, RecordKeeps DEF HistoryGrows, HInv
  <1>. QED
    BY <1>1, <1>2, <1>3, GrowingBounds DEF WorldKept, Grows

LEMMA ContentsGoOn ==
  ASSUME WorldKept, NEW content, Contents(content), target \in 1..last,
         UNCHANGED <<request, target, targetColumns, query>>
  PROVE  Contents(content)'
  <1>1. Promise!Matching' = Promise!Matching
    BY DEF Promise!Matching, WorldKept
  <1>2. TargetNames' = TargetNames
    BY DEF TargetNames
  <1>. QED
    BY <1>1, <1>2 DEF Contents, WorldKept

LEMMA ReadsGoOn ==
  ASSUME WorldKept, NEW content, NEW plan, Reads(plan, content), plan.file \in UsedIds
  PROVE  Reads(plan, content)'
  <1>a. PICK id : id = plan.file
    OBVIOUS
  <1>1. \A d \in plan.deleteFiles : d \in DOMAIN posfiles' /\ posfiles'[d] = posfiles[d]
    BY DEF WorldKept, PositionsKept, Reads
  <1>2. ASSUME OnStorage(plan)'
        PROVE  /\ OnStorage(plan)
               /\ ScanParquet(id)' = ScanParquet(id)
               /\ BuildPlan(plan)' = BuildPlan(plan)
    <2>1. id \in DOMAIN parquet /\ parquet'[id] = parquet[id]
      BY <1>2, <1>a DEF WorldKept, StorageKept, OnStorage
    <2>2. ScanParquet(id)' = ScanParquet(id)
      BY <2>1 DEF ScanParquet
    <2>3. \A rows : ScanWithDeletes(rows, plan.deleteFiles)' = ScanWithDeletes(rows, plan.deleteFiles)
      BY <1>1 DEF ScanWithDeletes
    <2>4. BuildPlan(plan)' = BuildPlan(plan)
      BY <1>a, <2>2, <2>3 DEF BuildPlan, PartialFilter, Project, ProjectCells
    <2>. QED
      BY <1>a, <2>1, <2>2, <2>4 DEF OnStorage
  <1>. QED
    BY <1>a, <1>1, <1>2 DEF Reads

LEMMA AheadGoesOn ==
  ASSUME WorldKept, NEW content, Contents(content), Ahead(content),
         UNCHANGED <<table, target, targetColumns, pending, plans>>
  PROVE  Ahead(content)'
  <1>1. \A plan : Reads(plan, content) => plan.file \in UsedIds
    BY DEF Reads, Contents
  <1>2. ASSUME NEW j \in DOMAIN pending
        PROVE  pending[j].begin \in 1..last' /\ Reads(NextPlan(pending[j]), content)'
    <2>1. PICK file : file = pending[j]
      OBVIOUS
    <2>2. file.begin \in 1..last /\ Reads(NextPlan(file), content)
      BY <1>2, <2>1 DEF Ahead
    <2>3. PICK plan : plan = NextPlan(file)
      OBVIOUS
    <2>4. Reads(plan, content)'
      BY <1>1, <2>2, <2>3, ReadsGoOn
    <2>5. NextPlan(file)' = plan
      BY <2>2, <2>3 DEF NextPlan, WorldKept
    <2>6. NextPlan(pending[j])' = plan
      BY <2>1, <2>5
    <2>. QED
      BY <2>1, <2>2, <2>4, <2>6 DEF WorldKept
  <1>3. ASSUME NEW i \in DOMAIN plans PROVE Reads(plans[i], content)'
    <2>1. PICK plan : plan = plans[i]
      OBVIOUS
    <2>2. Reads(plan, content)'
      BY <1>1, <2>1, ReadsGoOn DEF Ahead
    <2>. QED
      BY <2>1, <2>2
  <1>4. PlannedOnce'
    BY DEF Ahead, PlannedOnce
  <1>. QED
    BY <1>2, <1>3, <1>4 DEF Ahead

LEMMA BehindGoesOn ==
  ASSUME NEW content, Behind(content), UNCHANGED <<query, pending, plans, remaining, delivered>>
  PROVE  Behind(content)'
  <1>1. Left' = Left
    BY DEF Left
  <1>2. \A rows : Picked(rows)' = Picked(rows)
    BY DEF Picked
  <1>3. Got' = Got
    BY DEF Got, Promise!Rows
  <1>4. Promise!EachOnce(delivered)' <=> Promise!EachOnce(delivered)
    BY DEF Promise!EachOnce
  <1>5. Limited(Got)' <=> Limited(Got)
    BY <1>3 DEF Limited
  <1>. QED
    BY <1>1, <1>2, <1>3, <1>4, <1>5 DEF Behind

-----------------------------------------------------------------------------
(* Frames.                                                                 *)

LEMMA HeadOf ==
  ASSUME NEW P, IsFiniteSet(P), NEW n, n = NULL \/ n \in Nat, NEW frame \in Heads(P, n)
  PROVE  /\ frame \subseteq P /\ IsFiniteSet(frame)
         /\ Cardinality(frame) \in Nat /\ Cardinality(P) \in Nat
         /\ \/ frame = P /\ (n = NULL \/ Cardinality(P) <= n)
            \/ n \in Nat /\ n < Cardinality(P) /\ Cardinality(frame) = n
  <1>1. Cardinality(P) \in Nat
    BY FS_CardinalityType
  <1>2. \/ frame = P /\ (n = NULL \/ Cardinality(P) <= n)
        \/ n # NULL /\ ~(Cardinality(P) <= n) /\ frame \in SUBSET P /\ Cardinality(frame) = n
    BY DEF Heads
  <1>3. frame \in SUBSET P
    BY <1>2
  <1>4. IsFiniteSet(frame) /\ Cardinality(frame) \in Nat
    BY <1>3, FS_Subset, FS_CardinalityType
  <1>. QED
    BY <1>1, <1>2, <1>3, <1>4

LEMMA FrameDelivered ==
  ASSUME \E S : delivered \in Seq(S), NEW frame, NEW d, d = Delivered(frame)
  PROVE  /\ \E S : d \in Seq(S)
         /\ Promise!Rows(d) = Got \cup frame
         /\ /\ Promise!EachOnce(delivered)
            /\ \A q, r \in frame : q.key = r.key => q = r
            /\ \A q \in Got, r \in frame : q.key # r.key
            => Promise!EachOnce(d)
         /\ frame # {} => d = Append(delivered, frame)
         /\ frame = {} => d = delivered
  <1>1. PICK S : delivered \in Seq(S)
    OBVIOUS
  <1>2. CASE frame = {}
    BY <1>1, <1>2 DEF Delivered, Got, Promise!Rows
  <1>3. CASE frame # {}
    <2>1. d = Append(delivered, frame) /\ delivered \in Seq(S \cup {frame})
      BY <1>1, <1>3 DEF Delivered
    <2>2. /\ d \in Seq(S \cup {frame}) /\ Len(d) = Len(delivered) + 1
          /\ \A i \in 1..Len(delivered) : d[i] = delivered[i]
          /\ d[Len(delivered) + 1] = frame
      BY <2>1, AppendProperties
    <2>3. DOMAIN d = 1..Len(d) /\ DOMAIN delivered = 1..Len(delivered) /\ Len(delivered) \in Nat
      BY <1>1, <2>2, LenProperties
    <2>4. DOMAIN d = DOMAIN delivered \cup {Len(delivered) + 1} /\ Len(delivered) + 1 \notin DOMAIN delivered
      BY <2>2, <2>3
    <2>5. Promise!Rows(d) = Got \cup frame
      BY <2>2, <2>3, <2>4 DEF Got, Promise!Rows
    <2>6. ASSUME Promise!EachOnce(delivered),
                 \A q, r \in frame : q.key = r.key => q = r,
                 \A q \in Got, r \in frame : q.key # r.key
          PROVE  Promise!EachOnce(d)
      <3>. SUFFICES ASSUME NEW i \in DOMAIN d, NEW j \in DOMAIN d, NEW r \in d[i], NEW q \in d[j],
                           r.key = q.key
                    PROVE  i = j /\ r = q
        BY DEF Promise!EachOnce
      <3>1. CASE i \in DOMAIN delivered /\ j \in DOMAIN delivered
        <4>1. d[i] = delivered[i] /\ d[j] = delivered[j]
          BY <2>2, <2>3, <3>1
        <4>. QED
          BY <2>6, <3>1, <4>1 DEF Promise!EachOnce
      <3>2. CASE i \notin DOMAIN delivered /\ j \notin DOMAIN delivered
        <4>1. i = Len(delivered) + 1 /\ j = Len(delivered) + 1
          BY <2>4, <3>2
        <4>. QED
          BY <2>2, <2>6, <4>1
      <3>3. CASE i \in DOMAIN delivered /\ j \notin DOMAIN delivered
        <4>1. d[i] = delivered[i] /\ d[j] = frame
          BY <2>2, <2>3, <2>4, <3>3
        <4>2. r \in Got
          BY <3>3, <4>1 DEF Got, Promise!Rows
        <4>. QED
          BY <2>6, <4>1, <4>2
      <3>4. CASE i \notin DOMAIN delivered /\ j \in DOMAIN delivered
        <4>1. d[j] = delivered[j] /\ d[i] = frame
          BY <2>2, <2>3, <2>4, <3>4
        <4>2. q \in Got
          BY <3>4, <4>1 DEF Got, Promise!Rows
        <4>. QED
          BY <2>6, <4>1, <4>2
      <3>. QED
        BY <3>1, <3>2, <3>3, <3>4
    <2>. QED
      BY <1>3, <2>1, <2>2, <2>5, <2>6
  <1>. QED
    BY <1>2, <1>3

-----------------------------------------------------------------------------
(* The statements of an evaluation, one by one.                            *)

LEMMA OneMoreRead ==
  ASSUME NEW content, Reading(content), pc = "loop", pending = <<>>, ReadNext, WorldKept,
         target \in 1..last
  PROVE  Reading(content)' /\ Got' \subseteq Picked(Part(content, DOMAIN content))
  <1>a. PICK id : id = plans[1].file
    OBVIOUS
  <1>b. PICK left : left = Left
    OBVIOUS
  <1>c. PICK P : P = Picked(content[id])
    OBVIOUS
  <1>d. PICK done : done = DOMAIN content \ left
    OBVIOUS
  <1>e. PICK G : G = Picked(Part(content, done))
    OBVIOUS
  <1>f. PICK got : got = Got
    OBVIOUS
  <1>1. /\ plans # <<>> /\ remaining # 0 /\ OnStorage(plans[1]) /\ plans' = Tail(plans)
        /\ UNCHANGED <<catalogVars, request, target, table, targetColumns, query, pending>>
    BY DEF ReadNext, ctxVars
  <1>2. PICK frame \in Yields(BuildPlan(plans[1]), query, remaining) :
           /\ delivered' = Delivered(frame)
           /\ remaining' = IF remaining = NULL THEN NULL ELSE remaining - Cardinality(frame)
    BY DEF ReadNext
  <1>3. PICK S : plans \in Seq(S)
    BY DEF Reading, Ahead
  <1>4. /\ Len(plans) \in Nat \ {0} /\ DOMAIN plans = 1..Len(plans)
        /\ plans' \in Seq(S) /\ Len(plans') = Len(plans) - 1
        /\ DOMAIN plans' = 1..(Len(plans) - 1)
        /\ \A i \in 1..(Len(plans) - 1) : plans'[i] = plans[i + 1]
    <2>1. Len(plans) \in Nat \ {0} /\ DOMAIN plans = 1..Len(plans)
      BY <1>1, <1>3, EmptySeq, LenProperties
    <2>2. /\ plans' \in Seq(S) /\ Len(plans') = Len(plans) - 1
          /\ \A i \in 1..Len(plans') : plans'[i] = plans[i + 1]
      BY <1>1, <1>3, HeadTailProperties
    <2>3. DOMAIN plans' = 1..Len(plans')
      BY <2>2, LenProperties
    <2>. QED
      BY <2>1, <2>2, <2>3
  <1>5. Contents(content) /\ Ahead(content) /\ Behind(content)
    BY DEF Reading
  <1>6. /\ id \in DOMAIN content /\ id \in left /\ BuildPlan(plans[1]) = content[id]
        /\ \A i \in DOMAIN plans : i # 1 => plans[i].file # id
    <2>1. 1 \in DOMAIN plans
      BY <1>4
    <2>2. Reads(plans[1], content)
      BY <1>5, <2>1 DEF Ahead
    <2>3. \A i \in DOMAIN plans : plans[i].file = plans[1].file => i = 1
      BY <1>5, <2>1 DEF Ahead, PlannedOnce
    <2>. QED
      BY <1>1, <1>a, <1>b, <2>1, <2>2, <2>3 DEF Reads, Left
  <1>7. Left' = left \ {id}
    <2>1. left = {plans[i].file : i \in DOMAIN plans}
      BY <1>b DEF Left
    <2>2. Left' = {plans'[i].file : i \in DOMAIN plans'}
      BY <1>1 DEF Left
    <2>3. \A i \in DOMAIN plans' : i + 1 \in DOMAIN plans /\ i + 1 # 1 /\ plans'[i] = plans[i + 1]
      BY <1>4
    <2>4. \A i \in DOMAIN plans : i # 1 => i - 1 \in DOMAIN plans' /\ plans'[i - 1] = plans[i]
      BY <1>4
    <2>5. \A x \in Left' : x \in left \ {id}
      BY <1>6, <2>1, <2>2, <2>3
    <2>6. \A x \in left \ {id} : x \in Left'
      BY <1>a, <2>1, <2>2, <2>4
    <2>. QED
      BY <2>5, <2>6
  <1>8. Ahead(content)'
    <2>1. \A i \in DOMAIN plans' : plans'[i] \in {plans[j] : j \in DOMAIN plans}
      BY <1>4
    <2>2. ASSUME NEW i \in DOMAIN plans' PROVE Reads(plans[i], content)'
      <3>1. PICK plan : plan = plans'[i]
        OBVIOUS
      <3>2. Reads(plan, content) /\ plan.file \in UsedIds
        BY <1>5, <2>1, <3>1 DEF Ahead, Reads, Contents
      <3>3. Reads(plan, content)'
        BY <3>2, ReadsGoOn
      <3>. QED
        BY <3>1, <3>3
    <2>3. PlannedOnce'
      <3>1. \A i, j \in DOMAIN plans' : plans'[i].file = plans'[j].file => i = j
        <4>1. \A i \in DOMAIN plans' : i + 1 \in DOMAIN plans /\ plans'[i] = plans[i + 1] /\ i \in Nat
          BY <1>4
        <4>2. \A i, j \in DOMAIN plans : plans[i].file = plans[j].file => i = j
          BY <1>5 DEF Ahead, PlannedOnce
        <4>3. ASSUME NEW i \in DOMAIN plans', NEW j \in DOMAIN plans', plans'[i].file = plans'[j].file
              PROVE  i = j
          <5>1. i + 1 = j + 1
            BY <4>1, <4>2, <4>3
          <5>. QED
            BY <4>1, <5>1
        <4>. QED
          BY <4>3
      <3>. QED
        BY <1>1, <3>1 DEF PlannedOnce
    <2>. QED
      BY <1>1, <1>4, <2>2, <2>3 DEF Ahead
  <1>9. /\ IsFiniteSet(P) /\ P \subseteq Picked(Part(content, DOMAIN content))
        /\ P = Picked(Part(content, {id}))
    <2>1. Part(content, {id}) = content[id]
      BY DEF Part
    <2>2. P = Picked(Part(content, {id}))
      BY <1>c, <2>1
    <2>3. P \in SUBSET Picked(Part(content, DOMAIN content))
      BY <1>6, <2>2, PickedMore
    <2>4. IsFiniteSet(Picked(Part(content, DOMAIN content)))
      BY <1>5, PickedCount
    <2>. QED
      BY <2>2, <2>3, <2>4, FS_Subset
  <1>10. /\ frame \subseteq P /\ IsFiniteSet(frame)
         /\ Cardinality(frame) \in Nat /\ Cardinality(P) \in Nat
         /\ \/ frame = P /\ (remaining = NULL \/ Cardinality(P) <= remaining)
            \/ remaining \in Nat /\ remaining < Cardinality(P) /\ Cardinality(frame) = remaining
    <2>1. frame \in Heads(P, remaining)
      BY <1>2, <1>6, <1>c DEF Yields, Picked
    <2>2. remaining = NULL \/ remaining \in Nat
      BY <1>5 DEF Behind, Limited
    <2>. QED
      BY <1>9, <2>1, <2>2, HeadOf
  <1>11. Picked(Part(content, done \cup {id})) = G \cup P
    <2>1. Part(content, done \cup {id}) = Part(content, done) \cup content[id]
      BY DEF Part
    <2>. QED
      BY <1>c, <1>e, <2>1 DEF Picked, Filter
  <1>12. got = G /\ IsFiniteSet(got)
    <2>1. got = G
      BY <1>1, <1>5, <1>b, <1>d, <1>e, <1>f DEF Behind
    <2>2. G \in SUBSET Picked(Part(content, DOMAIN content))
      BY <1>d, <1>e, PickedMore
    <2>. QED
      BY <1>5, <2>1, <2>2, PickedCount, FS_Subset
  <1>13. /\ \A q, r \in frame : q.key = r.key => q = r
         /\ \A q \in got, r \in frame : q.key # r.key
    <2>1. P \subseteq Picked(Part(content, DOMAIN content)) /\ G \subseteq Picked(Part(content, DOMAIN content))
      BY <1>9, <1>d, <1>e, PickedMore
    <2>2. DOMAIN content \in SUBSET DOMAIN content
      OBVIOUS
    <2>3. \A q, r \in Picked(Part(content, DOMAIN content)) : q.key = r.key => q = r
      BY <1>5, <2>2, PickedOnce
    <2>4. \A r \in P : r.file = id
      <3>1. {id} \in SUBSET DOMAIN content
        BY <1>6
      <3>. QED
        BY <1>5, <1>9, <3>1, PickedRow
    <2>5. \A r \in G : r.file \in done
      <3>1. done \in SUBSET DOMAIN content
        BY <1>d
      <3>. QED
        BY <1>5, <1>e, <3>1, PickedRow
    <2>6. id \notin done
      BY <1>6, <1>d
    <2>. QED
      BY <1>10, <1>12, <2>1, <2>3, <2>4, <2>5, <2>6
  <1>14. /\ \E T : delivered' \in Seq(T)
         /\ Got' = got \cup frame
         /\ Promise!EachOnce(delivered)'
    <2>1. PICK d : d = Delivered(frame)
      OBVIOUS
    <2>2. /\ \E T : d \in Seq(T)
          /\ Promise!Rows(d) = got \cup frame
          /\ Promise!EachOnce(d)
      BY <1>5, <1>13, <1>f, <2>1, FrameDelivered DEF Behind
    <2>3. delivered' = d
      BY <1>2, <2>1
    <2>4. Got' = Promise!Rows(d)
      BY <2>3 DEF Got, Promise!Rows
    <2>5. Promise!EachOnce(delivered)' <=> Promise!EachOnce(d)
      BY <2>3 DEF Promise!EachOnce
    <2>. QED
      BY <2>2, <2>3, <2>4, <2>5
  <1>15. Cardinality(got \cup frame) = Cardinality(got) + Cardinality(frame) /\ Cardinality(got) \in Nat
    <2>1. got \cap frame = {}
      BY <1>13
    <2>2. Cardinality(got \cup frame) = Cardinality(got) + Cardinality(frame) - Cardinality(got \cap frame)
      BY <1>10, <1>12, FS_Union
    <2>3. Cardinality({}) = 0
      BY FS_EmptySet
    <2>4. Cardinality(got) \in Nat /\ Cardinality(frame) \in Nat
      BY <1>10, <1>12, FS_CardinalityType
    <2>5. PICK m : m = Cardinality(got \cap frame)
      OBVIOUS
    <2>6. m = 0
      BY <2>1, <2>3, <2>5
    <2>7. Cardinality(got \cup frame) = Cardinality(got) + Cardinality(frame) - m
      BY <2>2, <2>5
    <2>. QED
      BY <2>4, <2>6, <2>7
  <1>16. Limited(got)
    BY <1>5, <1>f DEF Behind
  <1>17. Limited(Got)'
    <2>1. query' = query
      BY <1>1
    <2>2. CASE query.limit = NULL
      BY <1>2, <1>16, <2>1, <2>2 DEF Limited
    <2>3. CASE query.limit # NULL
      <3>1. remaining \in Nat /\ query.limit \in Nat /\ Cardinality(got) + remaining = query.limit
        BY <1>16, <2>3 DEF Limited
      <3>2. remaining' = remaining - Cardinality(frame) /\ Cardinality(frame) <= remaining
        BY <1>2, <1>10, <3>1, MarkersAreNotValues
      <3>3. Cardinality(Got') = Cardinality(got) + Cardinality(frame)
        BY <1>14, <1>15
      <3>4. PICK m : m = Cardinality(Got')
        OBVIOUS
      <3>5. PICK left2 : left2 = remaining'
        OBVIOUS
      <3>6. left2 \in Nat /\ m + left2 = query.limit
        BY <1>10, <1>15, <3>1, <3>2, <3>3, <3>4, <3>5
      <3>7. remaining' \in Nat /\ query.limit \in Nat /\ Cardinality(Got') + remaining' = query.limit
        BY <3>1, <3>4, <3>5, <3>6
      <3>. QED
        BY <2>1, <2>3, <3>7 DEF Limited
    <2>. QED
      BY <2>2, <2>3
  <1>18. /\ Got' \subseteq G \cup P
         /\ remaining' # 0 => Got' = G \cup P
    <2>1. remaining' # 0 => frame = P
      BY <1>2, <1>10, MarkersAreNotValues
    <2>. QED
      BY <1>10, <1>12, <1>14, <2>1
  <1>19. Behind(content)'
    <2>1. DOMAIN content \ Left' = done \cup {id}
      BY <1>6, <1>7, <1>d
    <2>2. \A rows : Picked(rows)' = Picked(rows)
      BY <1>1 DEF Picked
    <2>3. PICK rows : rows = Part(content, done \cup {id})
      OBVIOUS
    <2>4. Part(content, DOMAIN content \ Left)' = rows
      BY <2>1, <2>3 DEF Part
    <2>5. Picked(rows) = G \cup P
      BY <1>11, <2>3
    <2>6. Picked(Part(content, DOMAIN content \ Left))' = G \cup P
      BY <1>1, <2>4, <2>5 DEF Picked
    <2>. QED
      BY <1>14, <1>17, <1>18, <2>6 DEF Behind
  <1>20. Contents(content)'
    BY <1>1, <1>5, ContentsGoOn
  <1>21. Got' \subseteq Picked(Part(content, DOMAIN content))
    <2>1. G \subseteq Picked(Part(content, DOMAIN content))
      BY <1>d, <1>e, PickedMore
    <2>. QED
      BY <1>9, <1>18, <2>1
  <1>. QED
    BY <1>8, <1>19, <1>20, <1>21 DEF Reading

-----------------------------------------------------------------------------
(* The candidate query.  What its files hold for the snapshot is fixed     *)
(* from then on.                                                           *)

ContentOf(t, s, p) ==
    [id \in {f.id : f \in Candidates(t, s, p)} |->
        ReadOf(CHOOSE f \in Candidates(t, s, p) : f.id = id, s)]

LEMMA ContentFiles ==
  ASSUME HInv, NEW s \in 1..last, NEW t, NEW p, NEW content, content = ContentOf(t, s, p)
  PROVE  /\ IsFiniteSet(Candidates(t, s, p))
         /\ \A f \in Candidates(t, s, p) :
               /\ f \in files /\ f.table = t /\ VisibleAt(f, s) /\ f.id \in UsedIds
               /\ f.id \in DOMAIN content /\ content[f.id] = ReadOf(f, s)
         /\ \A id \in DOMAIN content : \E f \in Candidates(t, s, p) : f.id = id
  <1>a. PICK S : S = Candidates(t, s, p)
    OBVIOUS
  <1>1. S \in SUBSET files /\ \A f \in S : f.table = t /\ VisibleAt(f, s)
    BY <1>a DEF Candidates, VisibleFiles
  <1>2. IsFiniteSet(S) /\ \A f \in S : f.id \in UsedIds
    BY <1>1, FS_Subset DEF HInv, Bounded, FilesKnown
  <1>3. \A f, g \in S : f.id = g.id => f = g
    BY <1>1 DEF HInv, FilesKnown
  <1>4. content = [id \in {f.id : f \in S} |-> ReadOf(CHOOSE f \in S : f.id = id, s)]
    BY <1>a DEF ContentOf
  <1>5. ASSUME NEW f \in S PROVE f.id \in DOMAIN content /\ content[f.id] = ReadOf(f, s)
    <2>1. (CHOOSE g \in S : g.id = f.id) = f
      BY <1>3
    <2>. QED
      BY <1>4, <2>1
  <1>6. \A id \in DOMAIN content : \E f \in S : f.id = id
    BY <1>4
  <1>. QED
    BY <1>1, <1>2, <1>5, <1>6, <1>a

LEMMA FileContent ==
  ASSUME HInv, NEW s \in 1..last, NEW f \in files, VisibleAt(f, s), NEW r \in ReadOf(f, s)
  PROVE  FrameRow(r) /\ r.file = f.id /\ DOMAIN r.cells = NamesOf(Layout(f.table, s))
  <1>1. PICK i \in KeptIn(f, s) : r = ReadRow(f, i, Layout(f.table, s))
    BY DEF ReadOf
  <1>. QED
    BY <1>1 DEF ReadRow, FrameRow, Recast

(* No row inserted at s or before is waiting in the catalog.               *)
FlushedAt(t, s) == \A tr \in Trackers(t) : \A r \in inlined[tr] : ~(r.origin <= s)

LEMMA FlushedIsFiled ==
  ASSUME NEW t, NEW s, FlushedAt(t, s)
  PROVE  SeenAt(t, s) = {Seen(x, Layout(t, s)) : x \in FiledAt(t, s)}
  <1>1. WaitingAt(t, s) = {}
    BY DEF FlushedAt, WaitingAt
  <1>. QED
    BY <1>1 DEF SeenAt, RowsAt

LEMMA ContentMatches ==
  ASSUME HInv, Measured, NEW s \in 1..last, NEW u \in tables, VisibleAt(u, s),
         NEW t, t = u.id, FlushedAt(t, s), NEW p, p = NULL \/ WellFormed(p),
         Names(p) \subseteq NamesOf(Layout(t, s)), NEW content, content = ContentOf(t, s, p)
  PROVE  {Bare(r) : r \in Filter(Part(content, DOMAIN content), p)}
            = {r \in history[s][u.name] : Matches(r, p)}
  <1>a. PICK rows : rows = ReadPlans(PlansAt(t, s, p), p)
    OBVIOUS
  <1>b. PICK whole : whole = ReadPlans(PlansAt(t, s, NULL), NULL)
    OBVIOUS
  <1>c. PICK all : all = Part(content, DOMAIN content)
    OBVIOUS
  <1>1. all = UNION {ReadOf(f, s) : f \in Candidates(t, s, p)}
    <2>1. /\ \A f \in Candidates(t, s, p) : f.id \in DOMAIN content /\ content[f.id] = ReadOf(f, s)
          /\ \A id \in DOMAIN content : \E f \in Candidates(t, s, p) : f.id = id
      BY ContentFiles
    <2>2. \A r : r \in all <=> \E f \in Candidates(t, s, p) : r \in ReadOf(f, s)
      BY <1>c, <2>1 DEF Part
    <2>3. all \subseteq UNION {ReadOf(f, s) : f \in Candidates(t, s, p)}
      BY <2>2
    <2>4. UNION {ReadOf(f, s) : f \in Candidates(t, s, p)} \subseteq all
      BY <2>2
    <2>. QED
      BY <2>3, <2>4
  <1>2. rows = Filter(all, p)
    BY <1>1, <1>a, FramesRead
  <1>3. whole = UNION {ReadOf(f, s) : f \in VisibleFiles(t, s)}
    BY <1>b, RowsRead
  <1>4. Filter(all, p) = Filter(whole, p)
    BY <1>2, <1>3, <1>a, RowsKept
  <1>5. {Bare(r) : r \in whole} = history[s][u.name]
    <2>1. {Bare(r) : r \in whole} = {Seen(x, Layout(t, s)) : x \in FiledAt(t, s)}
      BY <1>b, RowsRead
    <2>2. SeenAt(t, s) = history[s][u.name]
      BY DEF HInv, HistoriesKnown
    <2>. QED
      BY <2>1, <2>2, FlushedIsFiled
  <1>6. \A r : Matches(Bare(r), p) <=> Matches(r, p)
    BY DEF Matches, Bare
  <1>7. {Bare(r) : r \in Filter(whole, p)} = {r \in history[s][u.name] : Matches(r, p)}
    BY <1>5, <1>6 DEF Filter
  <1>. QED
    BY <1>4, <1>7, <1>c

(* What the scan knows of its table once the trackers are probed.          *)
Found ==
    /\ target \in 1..last
    /\ FlushedAt(table, target)
    /\ \E u \in tables : u.id = table /\ u.name = request.name /\ VisibleAt(u, target)

LEMMA CandidateContent ==
  ASSUME HInv, Measured, Found, targetColumns = Layout(table, target),
         NEW p, p = query.predicate, p = NULL \/ WellFormed(p), Names(p) \subseteq TargetNames,
         NEW content, content = ContentOf(table, target, p)
  PROVE  Contents(content)
  <1>a. PICK t : t = table
    OBVIOUS
  <1>b. PICK s : s = target
    OBVIOUS
  <1>c. PICK u \in tables : u.id = t /\ u.name = request.name /\ VisibleAt(u, s)
    BY <1>a, <1>b DEF Found
  <1>1. s \in 1..last /\ FlushedAt(t, s) /\ TargetNames = NamesOf(Layout(t, s))
    BY <1>a, <1>b DEF Found, TargetNames, NamesOf
  <1>2. /\ IsFiniteSet(Candidates(t, s, p))
        /\ \A f \in Candidates(t, s, p) :
              /\ f \in files /\ f.table = t /\ VisibleAt(f, s) /\ f.id \in UsedIds
              /\ f.id \in DOMAIN content /\ content[f.id] = ReadOf(f, s)
        /\ \A id \in DOMAIN content : \E f \in Candidates(t, s, p) : f.id = id
    BY <1>1, <1>a, <1>b, ContentFiles
  <1>b2. PICK whole : whole = ReadPlans(PlansAt(t, s, NULL), NULL)
    OBVIOUS
  <1>3. /\ IsFiniteSet(whole) /\ \A q, r \in whole : q.key = r.key => q = r
        /\ \A f \in VisibleFiles(t, s) : ReadOf(f, s) \subseteq whole
    BY <1>1, <1>b2, RowsRead
  <1>4. \A id \in DOMAIN content : content[id] \in SUBSET whole
    BY <1>2, <1>3 DEF VisibleFiles
  <1>5. IsFiniteSet(DOMAIN content)
    <2>. DEFINE ids == [f \in Candidates(t, s, p) |-> f.id]
    <2>1. DOMAIN content = {ids[f] : f \in DOMAIN ids}
      BY <1>2
    <2>2. IsFiniteSet(DOMAIN ids)
      BY <1>2
    <2>. HIDE DEF ids
    <2>. QED
      BY <2>1, <2>2, FiniteImage
  <1>6. ASSUME NEW id \in DOMAIN content
        PROVE  /\ id \in UsedIds /\ IsFiniteSet(content[id])
               /\ \A r \in content[id] : FrameRow(r) /\ r.file = id /\ DOMAIN r.cells = TargetNames
    <2>1. PICK f \in Candidates(t, s, p) : f.id = id
      BY <1>2
    <2>2. f \in files /\ f.table = t /\ VisibleAt(f, s) /\ id \in UsedIds /\ content[id] = ReadOf(f, s)
      BY <1>2, <2>1
    <2>3. \A r \in content[id] : FrameRow(r) /\ r.file = id /\ DOMAIN r.cells = TargetNames
      BY <1>1, <2>1, <2>2, FileContent
    <2>4. IsFiniteSet(content[id])
      BY <1>3, <1>4, FS_Subset
    <2>. QED
      BY <2>2, <2>3, <2>4
  <1>7. KeysApartIn(content)
    BY <1>3, <1>4 DEF KeysApartIn
  <1>8. {Bare(r) : r \in Filter(Part(content, DOMAIN content), p)} = Promise!Matching
    <2>1. {Bare(r) : r \in Filter(Part(content, DOMAIN content), p)}
             = {r \in history[s][u.name] : Matches(r, p)}
      BY <1>1, <1>a, <1>b, <1>c, ContentMatches
    <2>. QED
      BY <1>b, <1>c, <2>1 DEF Promise!Matching
  <1>. QED
    BY <1>5, <1>6, <1>7, <1>8 DEF Contents

(* The plan of a candidate reads its content.                              *)
LEMMA CandidatePlan ==
  ASSUME HInv, Found, targetColumns = Layout(table, target),
         NEW p, NEW content, content = ContentOf(table, target, p),
         NEW f \in Candidates(table, target, p)
  PROVE  /\ Reads(NextPlan(Candidate(f, target)), content)
         /\ f.begin \in 1..last
  <1>b. PICK s : s = target
    OBVIOUS
  <1>a. PICK plan : plan = PlanOf(f, s)
    OBVIOUS
  <1>1. /\ s \in 1..last
        /\ f \in files /\ f.table = table /\ VisibleAt(f, s)
        /\ f.id \in DOMAIN content /\ content[f.id] = ReadOf(f, s)
    BY <1>b, ContentFiles DEF Found
  <1>2. NextPlan(Candidate(f, target)) = plan
    <2>1. Candidate(f, s).begin = f.begin
      BY DEF Candidate
    <2>. QED
      BY <1>1, <1>a, <1>b, <2>1 DEF NextPlan, PlanOf
  <1>3. plan.file = f.id /\ plan.deleteFiles = {d.id : d \in {e \in VisibleDeletes(f.table, s) : e.file = f.id}}
    BY <1>a DEF PlanOf, PlanFile, Candidate
  <1>4. plan.deleteFiles \subseteq DOMAIN posfiles
    BY <1>3 DEF VisibleDeletes, HInv, DeletesKnown
  <1>5. BuildPlan(plan) = content[f.id]
    BY <1>1, <1>a, PlannedRead DEF ReadOf
  <1>6. plan.isPure => ScanParquet(f.id) = content[f.id]
    BY <1>1, <1>5, <1>a, PureFile
  <1>7. f.begin \in 1..last
    BY <1>1 DEF HInv, FilesKnown, Dates
  <1>. QED
    BY <1>1, <1>2, <1>3, <1>4, <1>5, <1>6, <1>7 DEF Reads

(* The answer of the candidate query.                                      *)
LEMMA CandidateOrder ==
  ASSUME HInv, NEW s \in 1..last, NEW t, NEW p, NEW cands,
         cands = FetchCandidateFiles(t, s, Layout(t, s), ExtractClauses(p))
  PROVE  /\ \E T : cands \in Seq(T)
         /\ \A j \in DOMAIN cands : \E f \in Candidates(t, s, p) : cands[j] = Candidate(f, s)
         /\ \A f \in Candidates(t, s, p) : \E j \in DOMAIN cands : cands[j].id = f.id
         /\ \A i, j \in DOMAIN cands : cands[i].id = cands[j].id => i = j
  <1>b. PICK S : S = Candidates(t, s, p)
    OBVIOUS
  <1>c. PICK order : order = InFileOrder(S)
    OBVIOUS
  <1>1. {f \in VisibleFiles(t, s) : FileMayMatch(f, Layout(t, s), ExtractClauses(p))} = S
    BY <1>b DEF Candidates
  <1>2. /\ IsFiniteSet(S) /\ \A f \in S : f \in files /\ f.table = t /\ f.id \in Nat
        /\ \A f, g \in S : f.id = g.id => f = g
    <2>1. S \in SUBSET files /\ \A f \in S : f.table = t
      BY <1>b DEF Candidates, VisibleFiles
    <2>. QED
      BY <2>1, FS_Subset DEF HInv, Bounded, FilesKnown, UsedIds
  <1>3. /\ DOMAIN order = 1..Cardinality(S) /\ Cardinality(S) \in Nat
        /\ \A i \in DOMAIN order : order[i] \in S
        /\ \A f \in S : \E i \in DOMAIN order : order[i] = f
    BY <1>2, <1>c, FileOrder
  <1>4. /\ DOMAIN cands = DOMAIN order
        /\ \A i \in DOMAIN order : cands[i] = Candidate(order[i], s)
    <2>1. cands = [i \in DOMAIN order |->
             [id |-> order[i].id, begin |-> order[i].begin, partialMax |-> order[i].partialMax,
              deleteFiles |-> {d.id : d \in {e \in VisibleDeletes(t, s) : e.file = order[i].id}}]]
      BY <1>1, <1>c DEF FetchCandidateFiles
    <2>2. \A i \in DOMAIN order : order[i].table = t
      BY <1>2, <1>3
    <2>. QED
      BY <2>1, <2>2 DEF Candidate
  <1>5. \A f : Candidate(f, s).id = f.id
    BY DEF Candidate
  <1>6. \A i, j \in DOMAIN order : order[i] = order[j] => i = j
    <2>. DEFINE n == Cardinality(S)
    <2>1. IsFiniteSet(1..n) /\ Cardinality(1..n) = n
      BY <1>3, FS_Interval
    <2>2. order \in [1..n -> S]
      <3>1. order = [i \in 1..n |-> CHOOSE f \in S : Cardinality({g \in S : g.id <= f.id}) = i]
        BY <1>c DEF InFileOrder
      <3>. QED
        BY <1>3, <3>1
    <2>3. order \in Surjection(1..n, S)
      BY <1>3, <2>2 DEF Surjection
    <2>4. order \in Injection(1..n, S)
      <3>. HIDE DEF n
      <3>. QED
        BY <1>2, <2>1, <2>3, FS_SurjSameCardinalityImpliesInj DEF n
    <2>. QED
      BY <1>3, <2>4 DEF Injection, IsInjective
  <1>7. \E T : cands \in Seq(T)
    <2>. DEFINE n == Cardinality(S)
                T == {Candidate(f, s) : f \in S}
    <2>1. DOMAIN cands = 1..n /\ \A i \in 1..n : cands[i] \in T
      BY <1>3, <1>4
    <2>2. cands = [i \in DOMAIN cands |-> cands[i]]
      BY DEF FetchCandidateFiles
    <2>3. cands \in [1..n -> T] /\ n \in Nat
      BY <1>3, <2>1, <2>2
    <2>. HIDE DEF n, T
    <2>4. cands \in Seq(T)
      BY <2>3
    <2>. QED
      BY <2>4
  <1>8. \A j \in DOMAIN cands : \E f \in S : cands[j] = Candidate(f, s)
    BY <1>3, <1>4
  <1>9. \A f \in S : \E j \in DOMAIN cands : cands[j].id = f.id
    BY <1>3, <1>4, <1>5
  <1>10. \A i, j \in DOMAIN cands : cands[i].id = cands[j].id => i = j
    <2>1. \A i \in DOMAIN cands : cands[i].id = order[i].id /\ order[i] \in S
      BY <1>3, <1>4, <1>5
    <2>. QED
      BY <1>2, <1>4, <1>6, <2>1
  <1>. QED
    BY <1>7, <1>8, <1>9, <1>10, <1>b

-----------------------------------------------------------------------------
(* The other statements of an evaluation.                                  *)

Underway == \E content : Reading(content)

Unread == \E content : Reading(content) /\ DOMAIN content \subseteq Left

LEMMA CandidatesFetched ==
  ASSUME HInv, Measured, Found, targetColumns = Layout(table, target),
         query.predicate = NULL \/ WellFormed(query.predicate),
         Names(query.predicate) \subseteq TargetNames,
         plans = <<>>, delivered = <<>>, Limited({}), Enumerate
  PROVE  Unread'
  <1>a. PICK p : p = query.predicate
    OBVIOUS
  <1>b. PICK held : held = ContentOf(table, target, p)
    OBVIOUS
  <1>c. PICK cands : cands = FetchCandidateFiles(table, target, targetColumns, ExtractClauses(p))
    OBVIOUS
  <1>1. /\ pending' = cands
        /\ UNCHANGED catalogVars
        /\ UNCHANGED <<request, target, table, targetColumns, query, plans, remaining, delivered>>
    BY <1>a, <1>c DEF Enumerate, ctxVars
  <1>2. WorldKept /\ target \in 1..last
    BY <1>1, WorldGoesOn DEF Found
  <1>3. Contents(held) /\ Contents(held)'
    <2>1. Contents(held)
      BY <1>a, <1>b, CandidateContent
    <2>. QED
      BY <1>1, <1>2, <2>1, ContentsGoOn
  <1>4. /\ \E T : cands \in Seq(T)
        /\ \A j \in DOMAIN cands : \E f \in Candidates(table, target, p) : cands[j] = Candidate(f, target)
        /\ \A f \in Candidates(table, target, p) : \E j \in DOMAIN cands : cands[j].id = f.id
        /\ \A i, j \in DOMAIN cands : cands[i].id = cands[j].id => i = j
    BY <1>2, <1>c, CandidateOrder
  <1>5. /\ \A f \in Candidates(table, target, p) : f.id \in DOMAIN held
        /\ \A id \in DOMAIN held : \E f \in Candidates(table, target, p) : f.id = id
    BY <1>2, <1>b, ContentFiles
  <1>6. DOMAIN plans = {} /\ DOMAIN delivered = {}
    OBVIOUS
  <1>7. Left' = DOMAIN held
    <2>1. Left' = {cands[j].id : j \in DOMAIN cands}
      BY <1>1, <1>6 DEF Left
    <2>2. \A j \in DOMAIN cands : cands[j].id \in DOMAIN held
      BY <1>4, <1>5 DEF Candidate
    <2>3. \A id \in DOMAIN held : \E j \in DOMAIN cands : cands[j].id = id
      BY <1>4, <1>5
    <2>4. \A x \in Left' : x \in DOMAIN held
      BY <2>1, <2>2
    <2>5. \A x \in DOMAIN held : x \in Left'
      BY <2>1, <2>3
    <2>. QED
      BY <2>4, <2>5
  <1>8. ASSUME NEW j \in DOMAIN cands
        PROVE  cands[j].begin \in 1..last /\ Reads(NextPlan(cands[j]), held)'
    <2>1. PICK f \in Candidates(table, target, p) : cands[j] = Candidate(f, target)
      BY <1>4
    <2>2. PICK plan : plan = NextPlan(Candidate(f, target))
      OBVIOUS
    <2>3. Reads(plan, held) /\ f.begin \in 1..last
      BY <1>b, <2>2, CandidatePlan
    <2>4. plan.file \in UsedIds
      BY <1>3, <2>3 DEF Reads, Contents
    <2>5. Reads(plan, held)'
      BY <1>2, <2>3, <2>4, ReadsGoOn
    <2>6. NextPlan(cands[j])' = plan
      <3>1. cands[j].begin = f.begin
        BY <2>1 DEF Candidate
      <3>2. Layout(table, f.begin)' = Layout(table, f.begin)
        BY <1>1, <1>2, <2>3 DEF WorldKept
      <3>. QED
        BY <1>1, <2>1, <2>2, <3>1, <3>2 DEF NextPlan
    <2>. QED
      BY <2>1, <2>3, <2>5, <2>6 DEF Candidate
  <1>9. Ahead(held)'
    <2>1. last' = last /\ \E T : plans \in Seq(T)
      BY <1>1 DEF catalogVars
    <2>2. PlannedOnce'
      BY <1>1, <1>4, <1>6 DEF PlannedOnce
    <2>3. \A j \in DOMAIN pending' : pending'[j].begin \in 1..last' /\ Reads(NextPlan(pending[j]), held)'
      BY <1>1, <1>8, <2>1
    <2>4. \A i \in DOMAIN plans' : Reads(plans[i], held)'
      BY <1>1, <1>6
    <2>. QED
      BY <1>1, <1>4, <2>1, <2>2, <2>3, <2>4 DEF Ahead
  <1>10. Behind(held)'
    <2>1. Got = {} /\ Promise!EachOnce(delivered) /\ \E T : delivered \in Seq(T)
      BY <1>6 DEF Got, Promise!Rows, Promise!EachOnce
    <2>2. Got' = Got /\ (Promise!EachOnce(delivered)' <=> Promise!EachOnce(delivered))
      BY <1>1 DEF Got, Promise!Rows, Promise!EachOnce
    <2>3. Limited({})'
      BY <1>1 DEF Limited
    <2>4. Limited(Got)'
      BY <2>1, <2>2, <2>3
    <2>5. Part(held, {}) = {}
      BY DEF Part
    <2>6. DOMAIN held \ Left' = {}
      BY <1>7
    <2>7. Part(held, DOMAIN held \ Left)' = {}
      BY <2>5, <2>6 DEF Part
    <2>8. Picked(Part(held, DOMAIN held \ Left))' = {}
      BY <2>7 DEF Picked, Filter
    <2>. QED
      BY <1>1, <2>1, <2>2, <2>4, <2>8 DEF Behind
  <1>11. Reading(held)' /\ DOMAIN held \subseteq Left'
    BY <1>3, <1>7, <1>9, <1>10 DEF Reading
  <1>. QED
    BY <1>11 DEF Unread

LEMMA OneMorePlan ==
  ASSUME WorldKept, target \in 1..last, NEW content, Reading(content), PlanNext
  PROVE  Reading(content)' /\ Left' = Left
  <1>a. PICK file : file = pending[1]
    OBVIOUS
  <1>b. PICK plan : plan = NextPlan(file)
    OBVIOUS
  <1>c. PICK left : left = Left
    OBVIOUS
  <1>1. /\ pending # <<>>
        /\ plans' = Append(plans, plan) /\ pending' = Tail(pending)
        /\ UNCHANGED catalogVars
        /\ UNCHANGED <<request, target, table, targetColumns, query, remaining, delivered>>
    BY <1>a, <1>b DEF PlanNext, NextPlan, ctxVars
  <1>2. Contents(content) /\ Ahead(content) /\ Behind(content)
    BY DEF Reading
  <1>3. PICK S : pending \in Seq(S)
    BY <1>2 DEF Ahead
  <1>4. PICK T : plans \in Seq(T)
    BY <1>2 DEF Ahead
  <1>5. /\ Len(pending) \in Nat \ {0} /\ DOMAIN pending = 1..Len(pending)
        /\ pending' \in Seq(S) /\ DOMAIN pending' = 1..(Len(pending) - 1)
        /\ \A j \in 1..(Len(pending) - 1) : pending'[j] = pending[j + 1]
    <2>1. Len(pending) \in Nat \ {0} /\ DOMAIN pending = 1..Len(pending)
      BY <1>1, <1>3, EmptySeq, LenProperties
    <2>2. /\ pending' \in Seq(S) /\ Len(pending') = Len(pending) - 1
          /\ \A j \in 1..Len(pending') : pending'[j] = pending[j + 1]
      BY <1>1, <1>3, HeadTailProperties
    <2>3. DOMAIN pending' = 1..Len(pending')
      BY <2>2, LenProperties
    <2>. QED
      BY <2>1, <2>2, <2>3
  <1>6. /\ plans' \in Seq(T \cup {plan}) /\ Len(plans) \in Nat
        /\ DOMAIN plans = 1..Len(plans) /\ DOMAIN plans' = 1..(Len(plans) + 1)
        /\ \A i \in 1..Len(plans) : plans'[i] = plans[i]
        /\ plans'[Len(plans) + 1] = plan
    <2>1. plans \in Seq(T \cup {plan})
      BY <1>4
    <2>2. /\ plans' \in Seq(T \cup {plan}) /\ Len(plans') = Len(plans) + 1
          /\ \A i \in 1..Len(plans) : plans'[i] = plans[i]
          /\ plans'[Len(plans) + 1] = plan
      BY <1>1, <2>1, AppendProperties
    <2>. QED
      BY <1>4, <2>2, LenProperties
  <1>7. plan.file = file.id /\ 1 \in DOMAIN pending
    BY <1>5, <1>b DEF NextPlan, PlanFile
  <1>8. /\ \A j \in DOMAIN pending' : j + 1 \in DOMAIN pending /\ j + 1 # 1 /\ j \in Nat
                                      /\ pending'[j] = pending[j + 1]
        /\ \A j \in DOMAIN pending : j # 1 => j - 1 \in DOMAIN pending' /\ pending'[j - 1] = pending[j]
        /\ \A i \in DOMAIN plans' : (i \in DOMAIN plans /\ plans'[i] = plans[i])
                                       \/ (i = Len(plans) + 1 /\ plans'[i] = plan)
        /\ \A i \in DOMAIN plans : i \in DOMAIN plans' /\ plans'[i] = plans[i]
        /\ Len(plans) + 1 \in DOMAIN plans' /\ plans'[Len(plans) + 1] = plan
    BY <1>5, <1>6
  <1>9. Left' = left
    <2>1. left = {pending[j].id : j \in DOMAIN pending} \cup {plans[i].file : i \in DOMAIN plans}
      BY <1>c DEF Left
    <2>2. Left' = {pending'[j].id : j \in DOMAIN pending'} \cup {plans'[i].file : i \in DOMAIN plans'}
      BY DEF Left
    <2>3. \A x \in Left' : x \in left
      BY <1>7, <1>8, <1>a, <2>1, <2>2
    <2>4. \A x \in left : x \in Left'
      BY <1>7, <1>8, <1>a, <2>1, <2>2
    <2>. QED
      BY <2>3, <2>4
  <1>10. Ahead(content)'
    <2>1. \A p : Reads(p, content) => Reads(p, content)'
      <3>1. ASSUME NEW p, Reads(p, content) PROVE Reads(p, content)'
        <4>1. p.file \in UsedIds
          BY <1>2, <3>1 DEF Reads, Contents
        <4>. QED
          BY <3>1, <4>1, ReadsGoOn
      <3>. QED
        BY <3>1
    <2>2. \A i \in DOMAIN plans' : Reads(plans[i], content)'
      <3>1. ASSUME NEW i \in DOMAIN plans' PROVE Reads(plans[i], content)'
        <4>1. PICK p : p = plans'[i]
          OBVIOUS
        <4>2. Reads(plan, content)
          BY <1>2, <1>7, <1>a, <1>b DEF Ahead
        <4>3. Reads(p, content)
          BY <1>2, <1>8, <4>1, <4>2 DEF Ahead
        <4>. QED
          BY <2>1, <4>1, <4>3
      <3>. QED
        BY <3>1
    <2>3. ASSUME NEW j \in DOMAIN pending'
          PROVE  pending'[j].begin \in 1..last' /\ Reads(NextPlan(pending[j]), content)'
      <3>1. PICK g : g = pending'[j]
        OBVIOUS
      <3>2. PICK p : p = NextPlan(g)
        OBVIOUS
      <3>3. g.begin \in 1..last /\ Reads(p, content)
        BY <1>2, <1>8, <3>1, <3>2 DEF Ahead
      <3>4. NextPlan(g)' = p
        BY <1>1, <3>2, <3>3 DEF NextPlan, WorldKept
      <3>5. Reads(p, content)'
        BY <2>1, <3>3
      <3>6. NextPlan(pending[j])' = p
        BY <3>1, <3>4
      <3>. QED
        BY <3>1, <3>3, <3>5, <3>6 DEF WorldKept
    <2>4. PlannedOnce'
      <3>0. /\ \A i, j \in DOMAIN plans : plans[i].file = plans[j].file => i = j
            /\ \A i, j \in DOMAIN pending : pending[i].id = pending[j].id => i = j
            /\ \A i \in DOMAIN plans, j \in DOMAIN pending : plans[i].file # pending[j].id
        BY <1>2 DEF Ahead, PlannedOnce
      <3>1. \A i, j \in DOMAIN plans' : plans'[i].file = plans'[j].file => i = j
        BY <1>7, <1>8, <1>a, <3>0
      <3>2. ASSUME NEW i \in DOMAIN pending', NEW j \in DOMAIN pending', pending'[i].id = pending'[j].id
            PROVE  i = j
        <4>1. i + 1 = j + 1 /\ i \in Nat /\ j \in Nat
          BY <1>8, <3>0, <3>2
        <4>. QED
          BY <4>1
      <3>3. \A i \in DOMAIN plans', j \in DOMAIN pending' : plans'[i].file # pending'[j].id
        BY <1>7, <1>8, <1>a, <3>0
      <3>. QED
        BY <3>1, <3>2, <3>3 DEF PlannedOnce
    <2>. QED
      BY <1>5, <1>6, <2>2, <2>3, <2>4 DEF Ahead
  <1>11. Behind(content)'
    <2>1. PICK done : done = DOMAIN content \ left
      OBVIOUS
    <2>2. (DOMAIN content \ Left)' = done
      BY <1>9, <2>1
    <2>3. PICK rows : rows = Picked(Part(content, done))
      OBVIOUS
    <2>4. Picked(Part(content, DOMAIN content \ Left))' = rows
      BY <1>1, <2>2, <2>3 DEF Picked, Part
    <2>5. Got' = Got /\ (Promise!EachOnce(delivered)' <=> Promise!EachOnce(delivered))
      BY <1>1 DEF Got, Promise!Rows, Promise!EachOnce
    <2>6. Limited(Got)' <=> Limited(Got)
      BY <1>1, <2>5 DEF Limited
    <2>7. /\ \E X : delivered \in Seq(X)
          /\ Promise!EachOnce(delivered)
          /\ Got \subseteq rows
          /\ remaining # 0 => Got = rows
          /\ Limited(Got)
      BY <1>2, <1>c, <2>1, <2>3 DEF Behind
    <2>. QED
      BY <1>1, <2>4, <2>5, <2>6, <2>7 DEF Behind
  <1>12. Contents(content)'
    BY <1>1, <1>2, ContentsGoOn
  <1>. QED
    BY <1>9, <1>10, <1>11, <1>12, <1>c DEF Reading

(* The rows of an evaluation have the columns that were asked for.         *)
LEMMA PickedColumns ==
  ASSUME NEW content, Contents(content), NEW ids \in SUBSET DOMAIN content,
         NEW r \in Picked(Part(content, ids))
  PROVE  DOMAIN r.cells = Wanted
  <1>1. PICK id \in ids : \E x \in content[id] : /\ r = Selected(x, query.columns) /\ FrameRow(x)
                                                /\ DOMAIN x.cells = TargetNames
    BY PickedRow
  <1>2. PICK x \in content[id] : r = Selected(x, query.columns) /\ FrameRow(x) /\ DOMAIN x.cells = TargetNames
    BY <1>1
  <1>. QED
    BY <1>2, SelectedRow DEF Wanted

LEMMA ReadAtOnce ==
  ASSUME NEW content, Reading(content), delivered = <<>>, pending = <<>>,
         DOMAIN content \subseteq Left, FastPathEligible(plans), MultiScan
  PROVE  /\ Sound(delivered)' /\ \E T : delivered' \in Seq(T)
         /\ Cardinality(Got)' = Promise!Due'
         /\ Got' \subseteq Picked(Part(content, DOMAIN content))
  <1>a. PICK P : P = Picked(Part(content, DOMAIN content))
    OBVIOUS
  <1>d. PICK n : n = Cardinality(Promise!Matching)
    OBVIOUS
  <1>1. /\ \A i \in DOMAIN plans : OnStorage(plans[i])
        /\ UNCHANGED catalogVars
        /\ UNCHANGED <<request, target, query>>
    BY DEF MultiScan, ctxVars
  <1>2. PICK frame \in Yields(UNION {ScanParquet(plans[i].file) : i \in DOMAIN plans}, query, remaining) :
           delivered' = Delivered(frame)
    BY DEF MultiScan
  <1>3. Contents(content) /\ Ahead(content) /\ Behind(content)
    BY DEF Reading
  <1>4. UNION {ScanParquet(plans[i].file) : i \in DOMAIN plans} = Part(content, DOMAIN content)
    <2>1. \A i \in DOMAIN plans : /\ plans[i].file \in DOMAIN content
                                  /\ ScanParquet(plans[i].file) = content[plans[i].file]
      BY <1>1, <1>3 DEF Ahead, Reads, FastPathEligible
    <2>2. \A id \in DOMAIN content : \E i \in DOMAIN plans : plans[i].file = id
      BY DEF Left
    <2>3. \A r : r \in UNION {ScanParquet(plans[i].file) : i \in DOMAIN plans}
                   <=> \E id \in DOMAIN content : r \in content[id]
      BY <2>1, <2>2
    <2>. QED
      BY <2>3 DEF Part
  <1>5. frame \in Heads(P, remaining)
    BY <1>2, <1>4, <1>a DEF Yields, Picked
  <1>6. Got = {} /\ Limited({})
    <2>1. Got = {}
      BY DEF Got, Promise!Rows
    <2>2. Limited(Got)
      BY <1>3 DEF Behind
    <2>. QED
      BY <2>1, <2>2
  <1>7. remaining = query.limit /\ (remaining = NULL \/ remaining \in Nat)
    <2>1. Cardinality({}) = 0
      BY FS_EmptySet
    <2>. QED
      BY <1>6, <2>1 DEF Limited
  <1>8. IsFiniteSet(P) /\ Cardinality(P) = n /\ n \in Nat
    BY <1>3, <1>a, <1>d, PickedCount
  <1>9. /\ frame \subseteq P /\ Cardinality(frame) \in Nat
        /\ \/ frame = P /\ (remaining = NULL \/ n <= remaining)
           \/ remaining \in Nat /\ remaining < n /\ Cardinality(frame) = remaining
    BY <1>5, <1>7, <1>8, HeadOf
  <1>10. \A q, r \in frame : q.key = r.key => q = r
    <2>1. DOMAIN content \in SUBSET DOMAIN content
      OBVIOUS
    <2>2. \A q, r \in P : q.key = r.key => q = r
      BY <1>3, <1>a, <2>1, PickedOnce
    <2>. QED
      BY <1>9, <2>2
  <1>11. /\ \E T : delivered' \in Seq(T)
         /\ Got' = frame
         /\ Promise!EachOnce(delivered)'
         /\ Promise!Rows(delivered)' = frame
    <2>1. PICK d : d = Delivered(frame)
      OBVIOUS
    <2>2. /\ \E T : d \in Seq(T)
          /\ Promise!Rows(d) = Got \cup frame
          /\ Promise!EachOnce(d)
      BY <1>3, <1>6, <1>10, <2>1, FrameDelivered DEF Behind
    <2>3. delivered' = d
      BY <1>2, <2>1
    <2>4. Promise!Rows(delivered)' = Promise!Rows(d)
      BY <2>3 DEF Promise!Rows
    <2>5. Promise!EachOnce(delivered)' <=> Promise!EachOnce(d)
      BY <2>3 DEF Promise!EachOnce
    <2>. QED
      BY <1>6, <2>2, <2>3, <2>4, <2>5 DEF Got
  <1>12. Promise!Due = IF query.limit = NULL \/ n <= query.limit THEN n ELSE query.limit
    <2>1. n = Promise!Cardinality(Promise!Matching)
      BY <1>d, PromisedCount
    <2>. QED
      BY <2>1 DEF Promise!Due
  <1>13. Cardinality(frame) = Promise!Due
    <2>1. CASE remaining = NULL
      BY <1>7, <1>8, <1>9, <1>12, <2>1, MarkersAreNotValues
    <2>2. CASE remaining \in Nat
      <3>1. query.limit # NULL
        BY <1>7, <2>2, MarkersAreNotValues
      <3>. QED
        BY <1>7, <1>8, <1>9, <1>12, <2>2, <3>1
    <2>. QED
      BY <1>7, <2>1, <2>2
  <1>14. Promise!Matching' = Promise!Matching /\ Promise!Due' = Promise!Due
    <2>1. Promise!Matching' = Promise!Matching
      BY <1>1 DEF Promise!Matching, catalogVars
    <2>. QED
      BY <1>1, <2>1 DEF Promise!Due, Promise!Cardinality
  <1>15. \A r \in frame : [key |-> r.key, cells |-> r.cells]
                             \in {Selected(h, query.columns) : h \in Promise!Matching}
    <2>1. DOMAIN content \in SUBSET DOMAIN content
      OBVIOUS
    <2>2. \A r \in P : [key |-> r.key, cells |-> r.cells]
                          \in {Selected(h, query.columns) : h \in Promise!Matching}
      BY <1>3, <1>a, <2>1, PickedIsPromised
    <2>. QED
      BY <1>9, <2>2
  <1>16. Sound(delivered)'
    <2>1. PICK due : due = Promise!Due
      OBVIOUS
    <2>2. Cardinality(frame) <= due /\ Promise!Due' = due
      BY <1>8, <1>12, <1>13, <1>14, <2>1, <1>9
    <2>3. Cardinality(Promise!Rows(delivered))' = Cardinality(frame)
      BY <1>11
    <2>4. Promise!Cardinality(Promise!Rows(delivered))' = Cardinality(frame)
      BY <2>3, PromisedCount DEF Promise!Cardinality, Cardinality
    <2>. QED
      BY <1>1, <1>11, <1>14, <1>15, <2>2, <2>3, <2>4 DEF Sound
  <1>. QED
    BY <1>9, <1>11, <1>13, <1>14, <1>16, <1>a

-----------------------------------------------------------------------------
(* The snapshot of a scan, and the schema cached with it.                  *)

BeforeSnapshot == {"idle", "snapshot", "raised"}

(* Once resolved the snapshot exists, and what was read from it is kept.   *)
Pinned ==
    /\ Dated
    /\ pc \in PcValues
    /\ pc = "snapshot" => request \in Requests
    /\ pc \notin BeforeSnapshot => target \in SnapshotIds
    /\ CachedColumnsArePinned

LEMMA SnapshotsAre ==
  ASSUME Numbered
  PROVE  SnapshotIds = 1..last /\ last \in Nat
  <1>1. PICK S : history \in Seq(S)
    BY DEF Numbered
  <1>2. DOMAIN history = 1..Len(history)
    BY <1>1, LenProperties
  <1>. QED
    BY <1>2 DEF Numbered, SnapshotIds

LEMMA ResolvedExists ==
  ASSUME Numbered, NEW req \in Requests
  PROVE  ResolveSnapshotId(req) \in SnapshotIds \cup {NULL}
  <1>1. SnapshotIds = 1..last /\ last \in Nat
    BY SnapshotsAre
  <1>2. ASSUME NEW S \in SUBSET (1..last) PROVE MaxOrNull(S) \in S \cup {NULL}
    <2>1. IsFiniteSet(1..last)
      BY <1>1, FS_Interval
    <2>2. IsFiniteSet(S)
      BY <2>1, FS_Subset
    <2>3. S \in SUBSET Int
      BY <1>1
    <2>. QED
      BY <2>2, <2>3, MaxIsGreatest DEF MaxOrNull
  <1>3. req.by \in {"id", "as_of", "latest"}
    BY ScanAssumption
  <1>4. CASE req.by = "id"
    BY <1>4 DEF ResolveSnapshotId
  <1>5. CASE req.by = "as_of"
    <2>. DEFINE S == {s \in SnapshotIds : s <= req.value}
    <2>1. ResolveSnapshotId(req) = MaxOrNull(S)
      BY <1>5 DEF ResolveSnapshotId
    <2>2. MaxOrNull(S) \in S \cup {NULL}
      BY <1>1, <1>2
    <2>. QED
      BY <2>1, <2>2
  <1>6. CASE req.by = "latest"
    <2>1. ResolveSnapshotId(req) = MaxOrNull(SnapshotIds)
      BY <1>6 DEF ResolveSnapshotId
    <2>. QED
      BY <1>1, <1>2, <2>1
  <1>. QED
    BY <1>3, <1>4, <1>5, <1>6

LEMMA PinnedInit == Init => Pinned
  BY DatedInit DEF Init, Pinned, PcValues, BeforeSnapshot, CachedColumnsArePinned, HasContext

(* A commit between two statements of the scan.                            *)
LEMMA PinnedCommit ==
  ASSUME Pinned, [CatalogNext]_catalogVars, UNCHANGED scanVars
  PROVE  Pinned'
  <1>1. UNCHANGED <<pc, request, target, table, targetColumns>>
    BY DEF scanVars
  <1>2. Dated' /\ SnapshotIds \subseteq SnapshotIds'
    <2>1. Dated' /\ last <= last' /\ SnapshotIds = 1..last /\ SnapshotIds' = 1..last'
      BY <1>1, DatedStep DEF Pinned
    <2>2. last \in Nat /\ last' \in Nat
      BY <2>1 DEF Pinned, Dated, Numbered
    <2>. QED
      BY <2>1, <2>2
  <1>3. \A s \in SnapshotIds : \A t : Layout(t, s)' = Layout(t, s)
    BY <1>1, PastIsFixed DEF Pinned
  <1>4. CachedColumnsArePinned'
    <2>1. HasContext' => HasContext /\ target \in SnapshotIds
      BY <1>1 DEF HasContext, Pinned, BeforeSnapshot
    <2>2. target \in SnapshotIds => Layout(table, target)' = Layout(table, target)
      BY <1>1, <1>3 DEF Layout, ColumnsOf, VisibleAt
    <2>. QED
      BY <1>1, <2>1, <2>2 DEF CachedColumnsArePinned, Pinned
  <1>. QED
    BY <1>1, <1>2, <1>4 DEF Pinned

(* A step of the scan leaves the catalog alone.                            *)
LEMMA PinnedScan ==
  ASSUME Pinned, Call \/ Collect \/ ScanStep
  PROVE  Pinned'
  <1>. USE DEF ctxVars, readVars
  <1>1. UNCHANGED catalogVars
    BY DEF Call, Collect, ScanStep, ResolveSnapshot, ResolveTableInfo, ProbeInlined,
           ListTrackers, ProbeTracker, RefuseInlined, NothingInlined, CacheTargetColumns, Enumerate, PlanNext, Planned, ReadError, MultiScan, ReadNext, Return
  <1>2. Dated' /\ SnapshotIds' = SnapshotIds /\ \A s, t : Layout(t, s)' = Layout(t, s)
    BY <1>1 DEF catalogVars, Pinned, Dated, Numbered, ColumnsDated, SnapshotIds,
                Layout, ColumnsOf, VisibleAt
  <1>3. CASE Call
    BY <1>2, <1>3 DEF Call, Pinned, PcValues, BeforeSnapshot, CachedColumnsArePinned, HasContext
  <1>4. CASE ResolveSnapshot
    <2>1. target' = ResolveSnapshotId(request) /\ target' \in SnapshotIds \cup {NULL}
      BY <1>4, ResolvedExists DEF ResolveSnapshot, Pinned, Dated
    <2>2. pc' = IF target' = NULL THEN "raised" ELSE "table"
      BY <1>4, <2>1 DEF ResolveSnapshot
    <2>. QED
      BY <1>2, <2>1, <2>2
         DEF Pinned, PcValues, BeforeSnapshot, CachedColumnsArePinned, HasContext
  <1>5. CASE ResolveTableInfo
    BY <1>2, <1>5
       DEF ResolveTableInfo, Pinned, PcValues, BeforeSnapshot, CachedColumnsArePinned, HasContext
  <1>6. CASE ProbeInlined
    BY <1>2, <1>6
       DEF ProbeInlined, ListTrackers, ProbeTracker, RefuseInlined, NothingInlined,
           Pinned, PcValues, BeforeSnapshot, CachedColumnsArePinned, HasContext
  <1>7. CASE CacheTargetColumns
    <2>1. /\ pc = "columns" /\ pc' = "ready" /\ UNCHANGED <<target, table>>
          /\ targetColumns' = Layout(table, target)
      BY <1>7 DEF CacheTargetColumns
    <2>2. Layout(table, target)' = Layout(table, target)
      BY <1>1, <2>1 DEF catalogVars, Layout, ColumnsOf, VisibleAt
    <2>. QED
      BY <1>2, <2>1, <2>2
         DEF Pinned, PcValues, BeforeSnapshot, CachedColumnsArePinned, HasContext
  <1>8. CASE UNCHANGED <<target, table, targetColumns>> /\ HasContext /\ HasContext'
    <2>1. Layout(table, target)' = Layout(table, target)
      BY <1>1, <1>8 DEF catalogVars, Layout, ColumnsOf, VisibleAt
    <2>. QED
      BY <1>2, <1>8, <2>1 DEF Pinned, BeforeSnapshot, CachedColumnsArePinned, HasContext
  <1>9. CASE \/ Collect \/ Enumerate \/ PlanNext \/ Planned
             \/ ReadError \/ MultiScan \/ ReadNext \/ Return
    <2>1. UNCHANGED <<target, table, targetColumns>> /\ HasContext /\ HasContext'
      BY <1>9 DEF Pinned, HasContext, PcValues, Settled, Collect, Enumerate, PlanNext, Planned,
                  ReadError, MultiScan, ReadNext, Return
    <2>. QED
      BY <1>8, <2>1
  <1>. QED
    BY <1>3, <1>4, <1>5, <1>6, <1>7, <1>9 DEF ScanStep

(* The schema cached by the call never goes stale, whatever is altered     *)
(* between the call and any later statement (_PlanContext.target_columns). *)
THEOREM CachedColumns == Spec => []CachedColumnsArePinned
  <1>1. Pinned /\ [Next]_vars => Pinned'
    <2>. SUFFICES ASSUME Pinned, [Next]_vars PROVE Pinned'
      OBVIOUS
    <2>1. CASE UNCHANGED vars \/ Commits
      BY <2>1, PinnedCommit DEF vars, Commits
    <2>. QED
      BY <2>1, PinnedScan DEF Next
  <1>2. Pinned => CachedColumnsArePinned
    BY DEF Pinned
  <1>. QED
    BY <1>1, <1>2, PinnedInit, PTL DEF Spec

-----------------------------------------------------------------------------
(* The invariant of a scan: where it is pinned, what it has made sure of,  *)
(* and what its evaluation has behind it and ahead.                        *)

Located ==
    /\ pc \in {"idle", "snapshot"} => target = NULL
    /\ pc \notin BeforeSnapshot \cup {"table"} =>
          \E u \in tables : u.id = table /\ u.name = request.name /\ VisibleAt(u, target)
    /\ pc = "probe" => \A tr \in Trackers(table) \ trackers : \A r \in inlined[tr] : ~(r.origin <= target)
    /\ pc = "columns" \/ HasContext => FlushedAt(table, target)

Evaluations == {"enumerate", "plan", "multiscan", "loop", "return", "exhausted", "failed"}

Evaluating ==
    /\ ~HasContext => delivered = <<>>
    /\ pc \in Evaluations => query \in Queries /\ Names(query.predicate) \subseteq TargetNames
    /\ pc = "enumerate" => plans = <<>> /\ Limited({})
    /\ pc \in {"enumerate", "plan", "multiscan"} => delivered = <<>>
    /\ pc \in {"plan", "multiscan"} => Unread
    /\ pc = "loop" => Underway
    /\ pc \in {"multiscan", "loop"} => pending = <<>>
    /\ pc = "multiscan" => FastPathEligible(plans)

(* The collapsed scan has read all there is to read.                       *)
ReadWhole == Sound(delivered) /\ (\E S : delivered \in Seq(S)) /\ Cardinality(Got) = Promise!Due

ScanInv ==
    /\ HInv /\ Measured
    /\ Pinned
    /\ ScanTypeOK
    /\ Located
    /\ Evaluating
    /\ pc = "return" => ReadWhole
    /\ BatchesHaveTheSchema

-----------------------------------------------------------------------------
(* A commit between two statements.                                        *)

LEMMA LocatedCommit ==
  ASSUME ScanInv, WorldKept, CommitKeeps, UNCHANGED scanVars
  PROVE  Located'
  <1>a. PICK t : t = table
    OBVIOUS
  <1>b. PICK s : s = target
    OBVIOUS
  <1>1. table' = t /\ target' = s /\ UNCHANGED <<pc, request, trackers>>
    BY <1>a, <1>b DEF scanVars
  <1>2. ASSUME pc \notin BeforeSnapshot
        PROVE  s \in 1..last /\ s # last + 1 /\ s <= last
    <2>1. s \in SnapshotIds /\ last \in Nat
      BY <1>b, <1>2 DEF ScanInv, Pinned, HInv, Numbered
    <2>2. SnapshotIds = 1..last
      BY SnapshotsAre DEF ScanInv, HInv
    <2>. QED
      BY <2>1, <2>2
  <1>3. ASSUME pc \notin BeforeSnapshot \cup {"table"}
        PROVE  \E u \in tables' : u.id = t /\ u.name = request.name /\ VisibleAt(u, s)
    <2>1. PICK u \in tables : u.id = t /\ u.name = request.name /\ VisibleAt(u, s)
      BY <1>3, <1>a, <1>b DEF ScanInv, Located
    <2>. QED
      BY <1>2, <1>3, <2>1 DEF CommitKeeps, NamesStay
  <1>4. ASSUME pc \notin BeforeSnapshot, NEW tr \in Trackers(t)', NEW r \in inlined'[tr], r.origin <= s
        PROVE  tr \in Trackers(t) /\ r \in inlined[tr]
    <2>1. tr \in DOMAIN inlined' /\ tr.table = t
      BY DEF Trackers
    <2>2. ~(last + 1 <= s)
      BY <1>2, <1>4 DEF ScanInv, HInv, Numbered
    <2>3. r.origin # last + 1
      BY <1>4, <2>2
    <2>4. tr \in DOMAIN inlined /\ r \in inlined[tr]
      BY <2>1, <2>3 DEF CommitKeeps, NewRowsWait
    <2>. QED
      BY <2>1, <2>4 DEF Trackers
  <1>5. ASSUME pc = "probe"
        PROVE  \A tr \in Trackers(t)' \ trackers : \A r \in inlined'[tr] : ~(r.origin <= s)
    <2>1. pc \notin BeforeSnapshot
      BY <1>5 DEF BeforeSnapshot
    <2>2. \A tr \in Trackers(t) \ trackers : \A r \in inlined[tr] : ~(r.origin <= s)
      BY <1>5, <1>a, <1>b DEF ScanInv, Located
    <2>. QED
      BY <1>4, <2>1, <2>2
  <1>6. ASSUME pc = "columns" \/ HasContext
        PROVE  \A tr \in Trackers(t)' : \A r \in inlined'[tr] : ~(r.origin <= s)
    <2>1. pc \notin BeforeSnapshot
      BY <1>6 DEF BeforeSnapshot, HasContext
    <2>2. \A tr \in Trackers(t) : \A r \in inlined[tr] : ~(r.origin <= s)
      BY <1>6, <1>a, <1>b DEF ScanInv, Located, FlushedAt
    <2>. QED
      BY <1>4, <2>1, <2>2
  <1>7. Trackers(table)' = Trackers(t)'
    BY <1>1 DEF Trackers
  <1>8. FlushedAt(table, target)' <=> \A tr \in Trackers(t)' : \A r \in inlined'[tr] : ~(r.origin <= s)
    BY <1>1, <1>7 DEF FlushedAt
  <1>9. HasContext' <=> HasContext
    BY <1>1 DEF HasContext
  <1>10. pc \in {"idle", "snapshot"} => target = NULL
    BY DEF ScanInv, Located
  <1>. QED
    BY <1>1, <1>3, <1>5, <1>6, <1>7, <1>8, <1>9, <1>10, <1>b DEF Located

LEMMA ReadingGoesOn ==
  ASSUME WorldKept, target \in 1..last, NEW content, Reading(content),
         UNCHANGED <<request, target, table, targetColumns, query, pending, plans, remaining, delivered>>
  PROVE  Reading(content)' /\ Left' = Left
  <1>1. Contents(content)' /\ Ahead(content)' /\ Behind(content)'
    BY ContentsGoOn, AheadGoesOn, BehindGoesOn DEF Reading
  <1>. QED
    BY <1>1 DEF Reading, Left

LEMMA UnderwayGoesOn ==
  ASSUME WorldKept, target \in 1..last,
         UNCHANGED <<request, target, table, targetColumns, query, pending, plans, remaining, delivered>>
  PROVE  (Underway => Underway') /\ (Unread => Unread')
  <1>1. ASSUME Underway PROVE Underway'
    <2>1. PICK content : Reading(content)
      BY <1>1 DEF Underway
    <2>. QED
      BY <2>1, ReadingGoesOn DEF Underway
  <1>2. ASSUME Unread PROVE Unread'
    <2>1. PICK content : Reading(content) /\ DOMAIN content \subseteq Left
      BY <1>2 DEF Unread
    <2>2. Reading(content)' /\ DOMAIN content \subseteq Left'
      BY <2>1, ReadingGoesOn
    <2>. QED
      BY <2>2 DEF Unread
  <1>. QED
    BY <1>1, <1>2

LEMMA WholeGoesOn ==
  ASSUME WorldKept, target \in 1..last, UNCHANGED <<request, target, query, delivered>>, ReadWhole
  PROVE  ReadWhole'
  <1>1. Promise!Matching' = Promise!Matching
    BY DEF Promise!Matching, WorldKept
  <1>2. Promise!Due' = Promise!Due
    BY <1>1 DEF Promise!Due, Promise!Cardinality
  <1>3. Promise!Rows(delivered)' = Promise!Rows(delivered) /\ Got' = Got
    BY DEF Promise!Rows, Got
  <1>4. Promise!EachOnce(delivered)' <=> Promise!EachOnce(delivered)
    BY DEF Promise!EachOnce
  <1>5. Cardinality(Promise!Rows(delivered))' = Cardinality(Promise!Rows(delivered))
    BY <1>3
  <1>6. Sound(delivered)'
    BY <1>1, <1>2, <1>3, <1>4, <1>5 DEF Sound, ReadWhole
  <1>. QED
    BY <1>2, <1>3, <1>6 DEF ReadWhole

-----------------------------------------------------------------------------
(* What a state says of the scan wherever the invariant holds.             *)
LEMMA ScanFacts ==
  ASSUME ScanInv
  PROVE  /\ last \in Nat /\ nextId \in Nat \ {0}
         /\ SnapshotIds = 1..last /\ UsedIds = 1..(nextId - 1)
         /\ pc \notin BeforeSnapshot => target \in 1..last
         /\ pc \notin BeforeSnapshot \cup {"table"} => table \in UsedIds
         /\ HasContext => Found /\ targetColumns = Layout(table, target)
  <1>1. last \in Nat /\ nextId \in Nat \ {0} /\ SnapshotIds = 1..last
    BY SnapshotsAre DEF ScanInv, HInv, Bounded
  <1>2. UsedIds = 1..(nextId - 1)
    BY <1>1 DEF UsedIds
  <1>3. pc \notin BeforeSnapshot => target \in 1..last
    BY <1>1 DEF ScanInv, Pinned
  <1>4. pc \notin BeforeSnapshot \cup {"table"} =>
           \E u \in tables : u.id = table /\ u.name = request.name /\ VisibleAt(u, target)
    BY DEF ScanInv, Located
  <1>5. \A u \in tables : u.id \in UsedIds
    BY DEF ScanInv, HInv, TablesKnown
  <1>6. HasContext => pc \notin BeforeSnapshot \cup {"table"}
    BY DEF HasContext, BeforeSnapshot
  <1>7. HasContext => FlushedAt(table, target) /\ targetColumns = Layout(table, target)
    BY DEF ScanInv, Located, Pinned, CachedColumnsArePinned
  <1>. QED
    BY <1>1, <1>2, <1>3, <1>4, <1>5, <1>6, <1>7 DEF Found

LEMMA TypesCommit ==
  ASSUME ScanInv, Grows, NewRowsWait, UNCHANGED scanVars
  PROVE  ScanTypeOK'
  <1>1. 1..last \subseteq 1..last'
    BY GrowingBounds
  <1>2. 1..(nextId - 1) \subseteq 1..(nextId' - 1)
    <2>1. PICK n, m : n = nextId /\ m = nextId'
      OBVIOUS
    <2>2. n \in Nat /\ m \in Nat /\ n <= m
      BY <2>1 DEF Grows
    <2>3. 1..(n - 1) \subseteq 1..(m - 1)
      BY <2>2
    <2>. QED
      BY <2>1, <2>3
  <1>3. DOMAIN inlined \subseteq DOMAIN inlined'
    BY DEF NewRowsWait
  <1>. QED
    BY <1>1, <1>2, <1>3 DEF ScanInv, ScanTypeOK, HasContext, scanVars

LEMMA ScanInvCommit ==
  ASSUME ScanInv, [CatalogNext]_catalogVars, UNCHANGED scanVars
  PROVE  ScanInv'
  <1>1. HInv' /\ Measured' /\ Grows
    BY HInvStep, MeasuredStep, StepGrows DEF ScanInv
  <1>2. WorldKept /\ CommitKeeps
    BY WorldGoesOn, CatalogKeeps DEF ScanInv
  <1>3. Pinned'
    BY PinnedCommit DEF ScanInv
  <1>4. ScanTypeOK'
    BY <1>1, <1>2, TypesCommit DEF CommitKeeps
  <1>5. Located'
    BY <1>2, LocatedCommit
  <1>6. UNCHANGED <<pc, request, target, table, targetColumns, query, pending, plans, remaining, delivered>>
    BY DEF scanVars
  <1>7. /\ HasContext' <=> HasContext
        /\ TargetNames' = TargetNames /\ Wanted' = Wanted
        /\ Limited({})' <=> Limited({})
        /\ FastPathEligible(plans)' <=> FastPathEligible(plans)
    BY <1>6 DEF HasContext, TargetNames, Wanted, Limited, FastPathEligible
  <1>8. ASSUME pc \notin BeforeSnapshot
        PROVE  (Underway => Underway') /\ (Unread => Unread') /\ (ReadWhole => ReadWhole')
    <2>1. target \in 1..last
      BY <1>8, ScanFacts
    <2>. QED
      BY <1>2, <1>6, <2>1, UnderwayGoesOn, WholeGoesOn
  <1>9. Evaluating'
    BY <1>6, <1>7, <1>8 DEF ScanInv, Evaluating, BeforeSnapshot
  <1>10. pc' = "return" => ReadWhole'
    BY <1>6, <1>8 DEF ScanInv, BeforeSnapshot
  <1>11. BatchesHaveTheSchema'
    BY <1>6, <1>7 DEF ScanInv, BatchesHaveTheSchema
  <1>. QED
    BY <1>1, <1>3, <1>4, <1>5, <1>9, <1>10, <1>11 DEF ScanInv

-----------------------------------------------------------------------------
(* A statement of the scan.  It leaves the catalog alone.                  *)

Statement == Call \/ Collect \/ ScanStep

Eager == Call \/ ResolveSnapshot \/ ResolveTableInfo \/ ProbeInlined \/ CacheTargetColumns

Lazy == \/ Collect \/ Enumerate \/ PlanNext \/ Planned
        \/ ReadError \/ MultiScan \/ ReadNext \/ Return

LEMMA StatementsAre == Statement => (Eager \/ Lazy) /\ UNCHANGED catalogVars
  BY DEF Statement, Eager, Lazy, Call, Collect, ScanStep, ResolveSnapshot, ResolveTableInfo, ProbeInlined,
         ListTrackers, ProbeTracker, RefuseInlined, NothingInlined, CacheTargetColumns, Enumerate, PlanNext,
         Planned, ReadError, MultiScan, ReadNext, Return

LEMMA EagerKeeps ==
  ASSUME Eager
  PROVE  /\ ~HasContext /\ UNCHANGED readVars
         /\ pc \notin Evaluations /\ pc' \notin Evaluations
         /\ HasContext' => pc' = "ready"
  <1>. USE DEF HasContext, PcValues, Evaluations, ctxVars, readVars
  <1>1. CASE Call
    BY <1>1 DEF Call
  <1>2. CASE ResolveSnapshot
    BY <1>2 DEF ResolveSnapshot
  <1>3. CASE ResolveTableInfo
    BY <1>3 DEF ResolveTableInfo
  <1>4. CASE ProbeInlined
    BY <1>4 DEF ProbeInlined, ListTrackers, ProbeTracker, RefuseInlined, NothingInlined
  <1>5. CASE CacheTargetColumns
    BY <1>5 DEF CacheTargetColumns
  <1>. QED
    BY <1>1, <1>2, <1>3, <1>4, <1>5 DEF Eager

LEMMA LazyKeeps ==
  ASSUME Lazy
  PROVE  /\ HasContext /\ HasContext' /\ UNCHANGED ctxVars
         /\ pc' \in Evaluations
  BY DEF HasContext, PcValues, Evaluations, Settled, Lazy, Collect, Enumerate, PlanNext,
         Planned, ReadError, MultiScan, ReadNext, Return

LEMMA LocatedStatement ==
  ASSUME ScanInv, Statement
  PROVE  Located'
  <1>0. UNCHANGED <<tables, inlined>>
    BY StatementsAre DEF catalogVars
  <1>. USE DEF HasContext, PcValues, BeforeSnapshot
  <1>1. CASE Call
    <2>1. pc' = "snapshot" /\ target' = NULL
      BY <1>1 DEF Call, ScanInv, Located
    <2>. QED
      BY <2>1 DEF Located
  <1>2. CASE ResolveSnapshot
    <2>1. pc' \in {"raised", "table"}
      BY <1>2 DEF ResolveSnapshot
    <2>. QED
      BY <2>1 DEF Located
  <1>3. CASE ResolveTableInfo
    <2>1. /\ pc' \in {"raised", "inlined"} /\ UNCHANGED <<request, target>>
          /\ table' = ResolveTable(request.name, target)
          /\ pc' = "inlined" => table' # NULL
      BY <1>3 DEF ResolveTableInfo
    <2>2. target \in 1..last
      BY <1>3, ScanFacts DEF ResolveTableInfo
    <2>3. pc' = "inlined" => \E u \in tables : u.id = table' /\ u.name = request.name /\ VisibleAt(u, target)
      BY <2>1, <2>2, NamedThen DEF ScanInv
    <2>. QED
      BY <1>0, <2>1, <2>3 DEF Located, VisibleAt
  <1>4. CASE UNCHANGED <<request, target, table>>
    <2>1. \A u : VisibleAt(u, target)' <=> VisibleAt(u, target)
      BY <1>4 DEF VisibleAt
    <2>2. Trackers(table)' = Trackers(table)
      BY <1>0, <1>4 DEF Trackers
    <2>3. FlushedAt(table, target)' <=> FlushedAt(table, target)
      BY <1>0, <1>4, <2>2 DEF FlushedAt
    <2>4. CASE ListTrackers
      <3>1. pc = "inlined" /\ pc' = "probe" /\ trackers' = Trackers(table)
        BY <2>4 DEF ListTrackers
      <3>. QED
        BY <1>0, <1>4, <2>1, <2>2, <3>1 DEF Located, ScanInv
    <2>5. CASE \E tr \in trackers : ProbeTracker(tr)
      <3>1. PICK tr \in trackers : ProbeTracker(tr)
        BY <2>5
      <3>2. pc = "probe" /\ pc' = "probe" /\ RowsIn(tr) = {} /\ trackers' = trackers \ {tr}
        BY <3>1 DEF ProbeTracker
      <3>3. inlined[tr] = {}
        BY <3>2 DEF RowsIn, ScanInv, ScanTypeOK
      <3>. QED
        BY <1>0, <1>4, <2>1, <2>2, <3>2, <3>3 DEF Located, ScanInv
    <2>6. CASE RefuseInlined
      BY <2>6 DEF RefuseInlined, Located
    <2>7. CASE NothingInlined
      <3>1. pc = "probe" /\ pc' = "columns" /\ trackers = {}
        BY <2>7 DEF NothingInlined
      <3>2. FlushedAt(table, target)
        BY <3>1 DEF Located, ScanInv, FlushedAt
      <3>. QED
        BY <1>0, <1>4, <2>1, <2>3, <3>1, <3>2 DEF Located, ScanInv
    <2>8. CASE CacheTargetColumns
      <3>1. pc = "columns" /\ pc' = "ready"
        BY <2>8 DEF CacheTargetColumns
      <3>. QED
        BY <1>0, <1>4, <2>1, <2>3, <3>1 DEF Located, ScanInv
    <2>9. CASE Lazy
      <3>1. HasContext /\ HasContext'
        BY <2>9, LazyKeeps
      <3>. QED
        BY <1>0, <1>4, <2>1, <2>3, <3>1 DEF Located, ScanInv
    <2>10. CASE Call \/ ResolveSnapshot \/ ResolveTableInfo
      BY <1>1, <1>2, <1>3, <2>10
    <2>. QED
      BY <2>4, <2>5, <2>6, <2>7, <2>8, <2>9, <2>10, StatementsAre DEF Eager, ProbeInlined
  <1>5. CASE ProbeInlined \/ CacheTargetColumns \/ Lazy
    <2>1. UNCHANGED <<request, target, table>>
      BY <1>5, LazyKeeps DEF ProbeInlined, ListTrackers, ProbeTracker, RefuseInlined, NothingInlined,
                             CacheTargetColumns, ctxVars
    <2>. QED
      BY <1>4, <2>1
  <1>. QED
    BY <1>1, <1>2, <1>3, <1>5, StatementsAre DEF Eager

-----------------------------------------------------------------------------
LEMMA TypesStatement ==
  ASSUME ScanInv, Statement
  PROVE  ScanTypeOK'
  <1>0. UNCHANGED <<last, nextId, inlined>>
    BY StatementsAre DEF catalogVars
  <1>t. ScanTypeOK
    BY DEF ScanInv
  <1>p. pc' \in PcValues
    <2>1. Pinned'
      BY PinnedScan DEF ScanInv, Statement
    <2>. QED
      BY <2>1 DEF Pinned
  <1>1. CASE Call
    BY <1>0, <1>t, <1>p, <1>1 DEF Call, ScanTypeOK, HasContext, readVars
  <1>2. CASE ResolveSnapshot
    <2>1. /\ target' = ResolveSnapshotId(request) /\ pc' \in {"raised", "table"}
          /\ UNCHANGED <<request, table, trackers, targetColumns, query, remaining, collects>>
      BY <1>2 DEF ResolveSnapshot, readVars
    <2>2. request \in Requests
      BY <1>2 DEF ResolveSnapshot, ScanInv, Pinned
    <2>3. target' \in (1..last) \cup {NULL}
      BY <2>1, <2>2, ResolvedExists, ScanFacts DEF ScanInv, HInv
    <2>. QED
      BY <1>0, <1>t, <1>p, <2>1, <2>3 DEF ScanTypeOK, HasContext
  <1>3. CASE ResolveTableInfo
    <2>1. /\ table' = ResolveTable(request.name, target) /\ pc' \in {"raised", "inlined"}
          /\ UNCHANGED <<request, target, trackers, targetColumns, query, remaining, collects>>
      BY <1>3 DEF ResolveTableInfo, readVars
    <2>2. target \in 1..last
      BY <1>3, ScanFacts DEF ResolveTableInfo, BeforeSnapshot
    <2>3. table' \in UsedIds \cup {NULL}
      BY <2>1, <2>2, NamedThen DEF ScanInv
    <2>4. table' \in (1..(nextId - 1)) \cup {NULL}
      BY <2>3, ScanFacts
    <2>. QED
      BY <1>0, <1>t, <1>p, <2>1, <2>4 DEF ScanTypeOK, HasContext
  <1>4. CASE ProbeInlined
    BY <1>0, <1>t, <1>p, <1>4
       DEF ProbeInlined, ListTrackers, ProbeTracker, RefuseInlined, NothingInlined, Trackers,
           ScanTypeOK, HasContext, ctxVars, readVars
  <1>5. CASE CacheTargetColumns
    <2>1. /\ pc = "columns" /\ targetColumns' = Layout(table, target)
          /\ UNCHANGED <<request, target, table, trackers, query, remaining, collects>>
      BY <1>5 DEF CacheTargetColumns, readVars
    <2>2. target \in 1..last /\ table \in UsedIds /\ last \in Nat
      BY <2>1, ScanFacts DEF BeforeSnapshot
    <2>3. target # NULL /\ table # NULL
      BY <2>2, MarkersAreNotValues DEF UsedIds
    <2>4. Layout(table, target) \subseteq [id: Nat, name: ColumnNames]
      BY DEF Layout, ColumnsOf, ScanInv, HInv, ColumnsKnown
    <2>. QED
      BY <1>0, <1>t, <1>p, <2>1, <2>3, <2>4 DEF ScanTypeOK
  <1>6. CASE Lazy
    <2>1. /\ UNCHANGED <<request, target, table, trackers, targetColumns>>
          /\ HasContext
      BY <1>6, LazyKeeps DEF ctxVars
    <2>2. CASE Collect
      <3>1. /\ query' \in Queries /\ remaining' = query'.limit
            /\ collects < MaxCollects /\ collects' = collects + 1
        BY <2>2 DEF Collect
      <3>2. remaining' \in Nat \cup {NULL}
        BY <3>1, ScanAssumption
      <3>3. collects' \in 0..MaxCollects
        BY <1>t, <3>1, ScanAssumption DEF ScanTypeOK
      <3>. QED
        BY <1>0, <1>t, <1>p, <2>1, <3>1, <3>2, <3>3 DEF ScanTypeOK
    <2>3. CASE ReadNext
      <3>1. PICK content : Reading(content)
        BY <2>3 DEF ReadNext, ScanInv, Evaluating, Underway
      <3>2. pc = "loop" /\ pending = <<>> /\ UNCHANGED <<query, collects>>
        BY <2>3 DEF ReadNext, ScanInv, Evaluating
      <3>3. WorldKept
        BY StatementsAre, WorldGoesOn DEF ScanInv
      <3>4. target \in 1..last
        BY <2>1, ScanFacts DEF Found
      <3>5. Reading(content)'
        BY <2>3, <3>1, <3>2, <3>3, <3>4, OneMoreRead
      <3>6. remaining' \in Nat \cup {NULL}
        BY <3>5 DEF Reading, Behind, Limited
      <3>. QED
        BY <1>0, <1>t, <1>p, <2>1, <3>2, <3>6 DEF ScanTypeOK
    <2>4. CASE Enumerate \/ PlanNext \/ Planned \/ ReadError \/ MultiScan \/ Return
      <3>1. UNCHANGED <<query, remaining, collects>>
        BY <2>4 DEF Enumerate, PlanNext, Planned, ReadError, MultiScan, Return, readVars
      <3>. QED
        BY <1>0, <1>t, <1>p, <2>1, <3>1 DEF ScanTypeOK
    <2>. QED
      BY <1>6, <2>2, <2>3, <2>4 DEF Lazy
  <1>. QED
    BY <1>1, <1>2, <1>3, <1>4, <1>5, <1>6, StatementsAre DEF Eager

(* A reading that is not disturbed: what a statement finds.                *)
LEMMA ReadingFacts ==
  ASSUME ScanInv, Lazy, UNCHANGED catalogVars
  PROVE  /\ WorldKept /\ target \in 1..last /\ Found /\ targetColumns = Layout(table, target)
         /\ pc \in Evaluations => /\ query.predicate = NULL \/ WellFormed(query.predicate)
                                  /\ Names(query.predicate) \subseteq TargetNames
         /\ TargetNames' = TargetNames
  <1>1. WorldKept
    BY WorldGoesOn DEF ScanInv
  <1>2. Found /\ targetColumns = Layout(table, target)
    BY LazyKeeps, ScanFacts
  <1>3. pc \in Evaluations => query \in Queries /\ Names(query.predicate) \subseteq TargetNames
    BY DEF ScanInv, Evaluating
  <1>4. TargetNames' = TargetNames
    BY LazyKeeps DEF TargetNames, ctxVars
  <1>. QED
    BY <1>1, <1>2, <1>3, <1>4, ScanAssumption DEF Found

EvaluationKept == Evaluating' /\ (pc' = "return" => ReadWhole') /\ BatchesHaveTheSchema'

LEMMA SchemaOfGot ==
  ASSUME NEW rows, Got' \subseteq rows, \A r \in rows : DOMAIN r.cells = Wanted,
         UNCHANGED <<query, targetColumns>>
  PROVE  BatchesHaveTheSchema'
  <1>1. Wanted' = Wanted
    BY DEF Wanted, TargetNames
  <1>2. \A i \in DOMAIN delivered' : \A r \in delivered'[i] : r \in Got'
    BY DEF Got, Promise!Rows
  <1>. QED
    BY <1>1, <1>2 DEF BatchesHaveTheSchema

LEMMA SchemaKept ==
  ASSUME BatchesHaveTheSchema, HasContext, UNCHANGED <<query, targetColumns, delivered>>
  PROVE  BatchesHaveTheSchema'
  <1>1. Wanted' = Wanted
    BY DEF Wanted, TargetNames
  <1>. QED
    BY <1>1 DEF BatchesHaveTheSchema

LEMMA NoSchema ==
  ASSUME delivered' = <<>>
  PROVE  BatchesHaveTheSchema'
  BY DEF BatchesHaveTheSchema

LEMMA EvaluationStatement ==
  ASSUME ScanInv, Statement
  PROVE  EvaluationKept
  <1>0. UNCHANGED catalogVars /\ Evaluating /\ BatchesHaveTheSchema
    BY StatementsAre DEF ScanInv
  <1>1. CASE Eager
    <2>1. delivered' = <<>> /\ pc' \notin Evaluations
      BY <1>0, <1>1, EagerKeeps DEF Evaluating, readVars
    <2>. QED
      BY <2>1, NoSchema DEF EvaluationKept, Evaluating, Evaluations
  <1>2. CASE Lazy
    <2>1. /\ HasContext /\ HasContext' /\ pc' \in Evaluations
          /\ UNCHANGED <<request, target, table, trackers, targetColumns>>
      BY <1>2, LazyKeeps DEF ctxVars
    <2>2. /\ WorldKept /\ target \in 1..last /\ Found /\ targetColumns = Layout(table, target)
          /\ pc \in Evaluations => /\ query.predicate = NULL \/ WellFormed(query.predicate)
                                   /\ Names(query.predicate) \subseteq TargetNames
          /\ TargetNames' = TargetNames
      BY <1>0, <1>2, ReadingFacts
    <2>3. CASE Collect
      <3>1. /\ pc' = "enumerate" /\ plans' = <<>> /\ delivered' = <<>>
            /\ query' \in Queries /\ Names(query'.predicate) \subseteq TargetNames
            /\ remaining' = query'.limit
        BY <2>3 DEF Collect
      <3>2. Limited({})'
        <4>1. Cardinality({}) = 0
          BY FS_EmptySet
        <4>2. query'.limit \in Nat \cup {NULL}
          BY <3>1, ScanAssumption
        <4>. QED
          BY <3>1, <4>1, <4>2 DEF Limited
      <3>. QED
        BY <2>1, <2>2, <3>1, <3>2, NoSchema DEF EvaluationKept, Evaluating, Evaluations
    <2>4. CASE Enumerate
      <3>1. /\ pc = "enumerate" /\ pc' = "plan" /\ UNCHANGED <<query, delivered>>
        BY <2>4 DEF Enumerate
      <3>2. plans = <<>> /\ delivered = <<>> /\ Limited({})
        BY <1>0, <3>1 DEF Evaluating
      <3>3. Unread'
        BY <2>2, <2>4, <3>1, <3>2, CandidatesFetched DEF ScanInv, Evaluations
      <3>. QED
        BY <1>0, <2>1, <2>2, <3>1, <3>2, <3>3, NoSchema DEF EvaluationKept, Evaluating, Evaluations
    <2>5. CASE PlanNext
      <3>1. pc = "plan" /\ pc' = "plan" /\ UNCHANGED <<query, delivered>>
        BY <2>5 DEF PlanNext
      <3>2. PICK content : Reading(content) /\ DOMAIN content \subseteq Left
        BY <1>0, <3>1 DEF Evaluating, Unread
      <3>3. Reading(content)' /\ DOMAIN content \subseteq Left'
        BY <2>2, <2>5, <3>2, OneMorePlan
      <3>4. Unread'
        BY <3>3 DEF Unread
      <3>. QED
        BY <1>0, <2>1, <2>2, <3>1, <3>4, SchemaKept DEF EvaluationKept, Evaluating, Evaluations
    <2>6. CASE Planned
      <3>1. /\ pc = "plan" /\ pending = <<>>
            /\ pc' = IF FastPathEligible(plans) THEN "multiscan" ELSE "loop"
            /\ UNCHANGED <<query, pending, plans, remaining, delivered>>
        BY <2>6 DEF Planned, readVars
      <3>2. Unread /\ delivered = <<>>
        BY <1>0, <3>1 DEF Evaluating
      <3>3. Unread' /\ Underway'
        <4>1. Underway
          BY <3>2 DEF Unread, Underway
        <4>. QED
          BY <2>1, <2>2, <3>1, <3>2, <4>1, UnderwayGoesOn
      <3>4. FastPathEligible(plans)' <=> FastPathEligible(plans)
        BY <3>1 DEF FastPathEligible
      <3>. QED
        BY <1>0, <2>1, <2>2, <3>1, <3>2, <3>3, <3>4, NoSchema DEF EvaluationKept, Evaluating, Evaluations
    <2>7. CASE ReadError \/ Return
      <3>1. /\ pc \in Evaluations /\ pc' \in {"failed", "exhausted"} /\ UNCHANGED <<query, delivered>>
        BY <2>7 DEF ReadError, Return, readVars, Evaluations
      <3>. QED
        BY <1>0, <2>1, <2>2, <3>1, SchemaKept DEF EvaluationKept, Evaluating, Evaluations
    <2>8. CASE MultiScan
      <3>1. /\ pc = "multiscan" /\ pc' = "return" /\ UNCHANGED query
        BY <2>8 DEF MultiScan
      <3>2. Unread /\ delivered = <<>> /\ pending = <<>> /\ FastPathEligible(plans)
        BY <1>0, <3>1 DEF Evaluating
      <3>3. PICK content : Reading(content) /\ DOMAIN content \subseteq Left
        BY <3>2 DEF Unread
      <3>4. /\ Sound(delivered)' /\ \E T : delivered' \in Seq(T)
            /\ Cardinality(Got)' = Promise!Due'
            /\ Got' \subseteq Picked(Part(content, DOMAIN content))
        BY <2>8, <3>2, <3>3, ReadAtOnce
      <3>5. ReadWhole'
        BY <3>4 DEF ReadWhole
      <3>6. BatchesHaveTheSchema'
        <4>1. DOMAIN content \in SUBSET DOMAIN content
          OBVIOUS
        <4>2. \A r \in Picked(Part(content, DOMAIN content)) : DOMAIN r.cells = Wanted
          BY <3>3, <4>1, PickedColumns DEF Reading
        <4>. QED
          BY <2>1, <3>1, <3>4, <4>2, SchemaOfGot
      <3>. QED
        BY <1>0, <2>1, <2>2, <3>1, <3>5, <3>6 DEF EvaluationKept, Evaluating, Evaluations
    <2>9. CASE ReadNext
      <3>1. /\ pc = "loop" /\ pc' = "loop" /\ UNCHANGED <<query, pending>>
        BY <2>9 DEF ReadNext
      <3>2. Underway /\ pending = <<>>
        BY <1>0, <3>1 DEF Evaluating
      <3>3. PICK content : Reading(content)
        BY <3>2 DEF Underway
      <3>4. Reading(content)' /\ Got' \subseteq Picked(Part(content, DOMAIN content))
        BY <2>2, <2>9, <3>1, <3>2, <3>3, OneMoreRead
      <3>5. Underway'
        BY <3>4 DEF Underway
      <3>6. BatchesHaveTheSchema'
        <4>1. DOMAIN content \in SUBSET DOMAIN content
          OBVIOUS
        <4>2. \A r \in Picked(Part(content, DOMAIN content)) : DOMAIN r.cells = Wanted
          BY <3>3, <4>1, PickedColumns DEF Reading
        <4>. QED
          BY <2>1, <3>1, <3>4, <4>2, SchemaOfGot
      <3>. QED
        BY <1>0, <2>1, <2>2, <3>1, <3>2, <3>5, <3>6 DEF EvaluationKept, Evaluating, Evaluations
    <2>. QED
      BY <1>2, <2>3, <2>4, <2>5, <2>6, <2>7, <2>8, <2>9 DEF Lazy
  <1>. QED
    BY <1>1, <1>2, StatementsAre

LEMMA ScanInvStatement ==
  ASSUME ScanInv, Statement
  PROVE  ScanInv'
  <1>1. HInv' /\ Measured'
    BY StatementsAre, HInvStep, MeasuredStep DEF ScanInv
  <1>2. Pinned'
    BY PinnedScan DEF ScanInv, Statement
  <1>3. ScanTypeOK' /\ Located' /\ EvaluationKept
    BY TypesStatement, LocatedStatement, EvaluationStatement
  <1>. QED
    BY <1>1, <1>2, <1>3 DEF ScanInv, EvaluationKept

LEMMA ScanInvInit == Init => ScanInv
  <1>. SUFFICES ASSUME Init PROVE ScanInv
    OBVIOUS
  <1>1. HInv /\ Measured /\ Pinned
    BY HInvInit, MeasuredInit, PinnedInit DEF Init
  <1>2. ScanTypeOK
    BY ScanAssumption DEF Init, ScanTypeOK, PcValues, HasContext
  <1>3. Located /\ Evaluating /\ BatchesHaveTheSchema
    BY DEF Init, Located, BeforeSnapshot, Evaluating, Evaluations, HasContext, BatchesHaveTheSchema
  <1>. QED
    BY <1>1, <1>2, <1>3 DEF Init, ScanInv

LEMMA ScanInvStep == ScanInv /\ [Next]_vars => ScanInv'
  <1>. SUFFICES ASSUME ScanInv, [Next]_vars PROVE ScanInv'
    OBVIOUS
  <1>1. CASE UNCHANGED vars \/ Commits
    BY <1>1, ScanInvCommit DEF vars, Commits
  <1>. QED
    BY <1>1, ScanInvStatement DEF Next, Statement

LEMMA ScanInvariant == Spec => []ScanInv
  BY ScanInvInit, ScanInvStep, PTL DEF Spec

(* Every variable of a scan stays in its type: once scan_ducklake has      *)
(* returned, its _PlanContext holds a snapshot that exists and a table.    *)
THEOREM ScanTypes == Spec => []ScanTypeOK
  <1>1. ScanInv => ScanTypeOK
    BY DEF ScanInv
  <1>. QED
    BY <1>1, ScanInvariant, PTL

(* Every row of a frame has exactly the columns asked for, whatever is     *)
(* renamed or dropped while the generator that yields them is suspended.   *)
THEOREM BatchSchema == Spec => []BatchesHaveTheSchema
  <1>1. ScanInv => BatchesHaveTheSchema
    BY DEF ScanInv
  <1>. QED
    BY <1>1, ScanInvariant, PTL

-----------------------------------------------------------------------------
(* What is not delivered yet is in the plans that are left.                *)
LEMMA RestIsAhead ==
  ASSUME NEW content, Reading(content), pending = <<>>, remaining # 0,
         \A i \in DOMAIN plans : OnStorage(plans[i]),
         NEW read, read = UNION {BuildPlan(plans[i]) : i \in DOMAIN plans}
  PROVE  {Selected(h, query.columns) : h \in Promise!Matching} \ {Bare(r) : r \in Got}
            = {Bare(Selected(r, query.columns)) : r \in Filter(read, query.predicate)}
  <1>a. PICK all : all = Picked(Part(content, DOMAIN content))
    OBVIOUS
  <1>b. PICK done : done = DOMAIN content \ Left
    OBVIOUS
  <1>c. PICK left : left = Left
    OBVIOUS
  <1>d. PICK p : p = query.predicate
    OBVIOUS
  <1>e. PICK cols : cols = query.columns
    OBVIOUS
  <1>1. Contents(content) /\ Ahead(content) /\ Behind(content)
    BY DEF Reading
  <1>2. left = {plans[i].file : i \in DOMAIN plans} /\ left \subseteq DOMAIN content
    <2>1. left = {plans[i].file : i \in DOMAIN plans}
      BY <1>c DEF Left
    <2>2. \A i \in DOMAIN plans : plans[i].file \in DOMAIN content
      BY <1>1 DEF Ahead, Reads
    <2>. QED
      BY <2>1, <2>2
  <1>3. read = Part(content, left)
    <2>1. \A i \in DOMAIN plans : BuildPlan(plans[i]) = content[plans[i].file]
      BY <1>1 DEF Ahead, Reads
    <2>2. \A r : r \in read <=> \E id \in left : r \in content[id]
      BY <1>2, <2>1
    <2>. QED
      BY <2>2 DEF Part
  <1>4. Got = Picked(Part(content, done))
    BY <1>1, <1>b DEF Behind
  <1>5. \A r : r \in Part(content, DOMAIN content) => FrameRow(r)
    BY <1>1 DEF Contents, Part
  <1>6. {Selected(h, cols) : h \in Promise!Matching} = {Bare(y) : y \in all}
    <2>1. Promise!Matching = {Bare(x) : x \in Filter(Part(content, DOMAIN content), p)}
      BY <1>1, <1>d DEF Contents
    <2>2. \A x \in Filter(Part(content, DOMAIN content), p) : Bare(Selected(x, cols)) = Selected(Bare(x), cols)
      BY <1>5, SelectedRow DEF Filter
    <2>3. all = {Selected(x, cols) : x \in Filter(Part(content, DOMAIN content), p)}
      BY <1>a, <1>d, <1>e DEF Picked
    <2>. QED
      BY <2>1, <2>2, <2>3
  <1>7. {Bare(Selected(r, cols)) : r \in Filter(read, p)} = {Bare(y) : y \in Picked(Part(content, left))}
    BY <1>3, <1>d, <1>e DEF Picked
  <1>8. all = Picked(Part(content, done)) \cup Picked(Part(content, left))
    <2>1. Part(content, DOMAIN content) = Part(content, done) \cup Part(content, left)
      BY <1>2, <1>b, <1>c DEF Part
    <2>. QED
      BY <1>a, <2>1 DEF Picked, Filter
  <1>9. \A y \in Picked(Part(content, left)), z \in Picked(Part(content, done)) : Bare(y) # Bare(z)
    <2>1. ASSUME NEW y \in Picked(Part(content, left)), NEW z \in Picked(Part(content, done)), y.key = z.key
          PROVE  FALSE
      <3>1. y \in all /\ z \in all
        BY <1>8
      <3>2. DOMAIN content \in SUBSET DOMAIN content
        OBVIOUS
      <3>3. y = z
        BY <1>1, <1>a, <2>1, <3>1, <3>2, PickedOnce
      <3>4. y.file \in left
        <4>1. left \in SUBSET DOMAIN content
          BY <1>2
        <4>. QED
          BY <1>1, <4>1, PickedRow
      <3>5. z.file \in done
        <4>1. done \in SUBSET DOMAIN content
          BY <1>b
        <4>. QED
          BY <1>1, <4>1, PickedRow
      <3>. QED
        BY <3>3, <3>4, <3>5, <1>b, <1>c
    <2>. QED
      BY <2>1 DEF Bare
  <1>10. {Bare(y) : y \in all} \ {Bare(y) : y \in Picked(Part(content, done))}
            = {Bare(y) : y \in Picked(Part(content, left))}
    BY <1>8, <1>9
  <1>11. {Selected(h, query.columns) : h \in Promise!Matching} = {Bare(y) : y \in all}
    BY <1>6, <1>e
  <1>12. {Bare(r) : r \in Got} = {Bare(y) : y \in Picked(Part(content, done))}
    BY <1>4
  <1>13. {Bare(Selected(r, query.columns)) : r \in Filter(read, query.predicate)}
            = {Bare(y) : y \in Picked(Part(content, left))}
    BY <1>7, <1>d, <1>e
  <1>. QED
    BY <1>10, <1>11, <1>12, <1>13

(* While storage holds their files, the plans left in the generator's loop *)
(* read exactly the rows of the answer not yielded yet (unless n_rows is   *)
(* reached): pruning by statistics and partitions lost no file, and no     *)
(* merge, flush or delete after the candidate query changes what they are. *)
THEOREM RestIsPlanned == Spec => []PlansCoverTheRest
  <1>1. ASSUME ScanInv PROVE PlansCoverTheRest
    <2>. SUFFICES ASSUME pc = "loop", \A i \in DOMAIN plans : OnStorage(plans[i]), remaining # 0
                  PROVE  LET read == UNION {BuildPlan(plans[i]) : i \in {j \in DOMAIN plans : OnStorage(plans[j])}}
                             left == {Bare(Selected(r, query.columns)) : r \in Filter(read, query.predicate)}
                             had  == {Bare(r) : r \in UNION ToSet(delivered)}
                             want == {Selected(r, query.columns) :
                                         r \in Filter(history[target][request.name], query.predicate)}
                         IN want \ had = left
      BY DEF PlansCoverTheRest
    <2>1. PICK content : Reading(content)
      BY <1>1 DEF ScanInv, Evaluating, Underway
    <2>2. pending = <<>>
      BY <1>1 DEF ScanInv, Evaluating
    <2>3. PICK read : read = UNION {BuildPlan(plans[i]) : i \in DOMAIN plans}
      OBVIOUS
    <2>4. {Selected(h, query.columns) : h \in Promise!Matching} \ {Bare(r) : r \in Got}
             = {Bare(Selected(r, query.columns)) : r \in Filter(read, query.predicate)}
      BY <2>1, <2>2, <2>3, RestIsAhead
    <2>5. UNION ToSet(delivered) = Got
      BY DEF ToSet, Got, Promise!Rows
    <2>6. Filter(history[target][request.name], query.predicate) = Promise!Matching
      BY DEF Filter, Promise!Matching
    <2>7. {j \in DOMAIN plans : OnStorage(plans[j])} = DOMAIN plans
      OBVIOUS
    <2>. QED
      BY <2>3, <2>4, <2>5, <2>6, <2>7
  <1>. QED
    BY <1>1, ScanInvariant, PTL

-----------------------------------------------------------------------------
(* The scan is a read of one snapshot: step by step.                       *)

SoundNow == pc \in {"loop", "return"} => Sound(delivered)

LEMMA SoundIsInvariant == ScanInv => SoundNow
  <1>. SUFFICES ASSUME ScanInv, pc \in {"loop", "return"} PROVE Sound(delivered)
    BY DEF SoundNow
  <1>1. CASE pc = "loop"
    <2>1. PICK content : Reading(content)
      BY <1>1 DEF ScanInv, Evaluating, Underway
    <2>. QED
      BY <2>1, DeliveredIsSound DEF Reading
  <1>2. CASE pc = "return"
    BY <1>2 DEF ScanInv, ReadWhole
  <1>. QED
    BY <1>1, <1>2

LEMMA PrefixOfAppend ==
  ASSUME NEW S, NEW seq \in Seq(S), NEW x
  PROVE  Promise!IsPrefix(seq, Append(seq, x)) /\ Len(Append(seq, x)) = Len(seq) + 1
  <1>1. seq \in Seq(S \cup {x})
    OBVIOUS
  <1>2. Len(Append(seq, x)) = Len(seq) + 1
    BY <1>1, AppendProperties
  <1>3. SubSeq(Append(seq, x), 1, Len(seq)) = SubSeq(seq, 1, Len(seq))
    BY <1>1
  <1>. QED
    BY <1>1, <1>2, <1>3, LenProperties DEF Promise!IsPrefix

LEMMA MappedCommit ==
  ASSUME ScanInv, [CatalogNext]_catalogVars, UNCHANGED scanVars
  PROVE  Promise!Commit \/ UNCHANGED Promise!vars
  <1>1. UNCHANGED <<pc, request, target, query, delivered>>
    BY DEF scanVars
  <1>2. Phase' = Phase
    BY <1>1 DEF Phase
  <1>3. CASE UNCHANGED history
    BY <1>1, <1>2, <1>3 DEF Promise!vars
  <1>4. CASE \E now : history' = Append(history, now)
    <2>1. PICK now : history' = Append(history, now)
      BY <1>4
    <2>2. PICK S : history \in Seq(S)
      BY DEF ScanInv, HInv, Numbered
    <2>3. Len(history') = Len(history) + 1 /\ Promise!IsPrefix(history, history')
      BY <2>1, <2>2, PrefixOfAppend
    <2>. QED
      BY <1>1, <1>2, <2>3 DEF Promise!Commit
  <1>5. HistoryGrows
    BY CatalogKeeps DEF ScanInv, CommitKeeps
  <1>. QED
    BY <1>3, <1>4, <1>5 DEF HistoryGrows, Record

LEMMA MappedPin ==
  ASSUME ScanInv, ResolveSnapshot
  PROVE  Promise!Pin \/ Promise!Refuse
  <1>a. PICK req : req = request
    OBVIOUS
  <1>b. PICK s : s = ResolveSnapshotId(req)
    OBVIOUS
  <1>1. /\ pc = "snapshot" /\ target' = s /\ pc' = IF s = NULL THEN "raised" ELSE "table"
        /\ UNCHANGED <<history, request, query, delivered>>
    BY <1>a, <1>b DEF ResolveSnapshot, readVars, catalogVars
  <1>2. req \in Requests /\ target = NULL /\ SnapshotIds = 1..last /\ last \in Nat /\ Len(history) = last
    BY <1>1, <1>a, ScanFacts DEF ScanInv, Pinned, Located, HInv, Numbered
  <1>3. Phase = "new" /\ Phase' = IF s = NULL THEN "refused" ELSE "pinned"
    BY <1>1 DEF Phase
  <1>4. CASE s = NULL
    BY <1>1, <1>2, <1>3, <1>4 DEF Promise!Refuse
  <1>5. CASE s # NULL
    <2>1. s \in 1..last
      BY <1>2, <1>5, <1>b, ResolvedExists DEF ScanInv, HInv
    <2>2. req.by \in {"id", "as_of", "latest"} /\ req.value \in Nat
      BY <1>2, ScanAssumption
    <2>3. ASSUME NEW S \in SUBSET (1..last), s = MaxOrNull(S)
          PROVE  s \in S /\ \A x \in S : x <= s
      <3>1. S # {} /\ s = Max(S)
        BY <1>5, <2>3 DEF MaxOrNull
      <3>2. IsFiniteSet(S)
        <4>1. IsFiniteSet(1..last)
          BY <1>2, FS_Interval
        <4>. QED
          BY <2>3, <4>1, FS_Subset
      <3>3. S \in SUBSET Int
        BY <1>2, <2>3
      <3>. QED
        BY <3>1, <3>2, <3>3, MaxIsGreatest
    <2>4. CASE req.by = "id"
      <3>1. s = req.value
        BY <1>5, <1>b, <2>4 DEF ResolveSnapshotId
      <3>. QED
        BY <1>1, <1>2, <1>3, <1>5, <1>a, <2>1, <2>4, <3>1 DEF Promise!Pin, Promise!Denotes, SnapshotIds
    <2>5. CASE req.by = "latest"
      <3>1. s = MaxOrNull(1..last)
        BY <1>2, <1>b, <2>5 DEF ResolveSnapshotId
      <3>2. s \in 1..last /\ \A x \in 1..last : x <= s
        BY <2>3, <3>1
      <3>3. s = Len(history)
        BY <1>2, <3>2
      <3>. QED
        BY <1>1, <1>2, <1>3, <1>5, <1>a, <2>1, <2>5, <3>3 DEF Promise!Pin, Promise!Denotes, SnapshotIds
    <2>6. CASE req.by = "as_of"
      <3>. DEFINE S == {x \in 1..last : x <= req.value}
      <3>1. s = MaxOrNull(S)
        BY <1>2, <1>b, <2>6 DEF ResolveSnapshotId
      <3>2. s \in S /\ \A x \in S : x <= s
        <4>1. S \in SUBSET (1..last)
          OBVIOUS
        <4>. HIDE DEF S
        <4>. QED
          BY <2>3, <3>1, <4>1
      <3>3. s = IF req.value < Len(history) THEN req.value ELSE Len(history)
        <4>1. CASE req.value < last
          <5>1. req.value \in 1..last
            BY <1>2, <2>2, <3>2, <4>1
          <5>. QED
            BY <1>2, <2>2, <3>2, <4>1, <5>1
        <4>2. CASE ~(req.value < last)
          <5>1. last \in S
            BY <1>2, <2>2, <3>2, <4>2
          <5>. QED
            BY <1>2, <2>2, <3>2, <4>2, <5>1
        <4>. QED
          BY <4>1, <4>2
      <3>. HIDE DEF S
      <3>. QED
        BY <1>1, <1>2, <1>3, <1>5, <1>a, <2>1, <2>6, <3>3 DEF Promise!Pin, Promise!Denotes, SnapshotIds
    <2>. QED
      BY <2>2, <2>4, <2>5, <2>6
  <1>. QED
    BY <1>4, <1>5

LEMMA MappedEager ==
  ASSUME ScanInv, Eager, UNCHANGED history
  PROVE  Promise!Next \/ UNCHANGED Promise!vars
  <1>1. UNCHANGED <<query, delivered>>
    BY EagerKeeps DEF readVars
  <1>2. CASE Call
    <2>1. UNCHANGED target /\ Phase = "new" /\ Phase' = "new"
      BY <1>2 DEF Call, Phase
    <2>. QED
      BY <1>1, <2>1 DEF Promise!Next, Promise!Ask, Promise!vars
  <1>3. CASE ResolveSnapshot
    BY <1>3, MappedPin DEF Promise!Next
  <1>4. CASE ResolveTableInfo
    <2>1. /\ UNCHANGED <<request, target>> /\ Phase = "pinned" /\ Phase' \in {"pinned", "refused"}
      BY <1>4 DEF ResolveTableInfo, Phase
    <2>. QED
      BY <1>1, <2>1 DEF Promise!Next, Promise!Refuse, Promise!vars
  <1>5. CASE ProbeInlined \/ CacheTargetColumns
    <2>1. /\ UNCHANGED <<request, target>> /\ Phase = "pinned" /\ Phase' \in {"pinned", "refused"}
      BY <1>5 DEF ProbeInlined, ListTrackers, ProbeTracker, RefuseInlined, NothingInlined, CacheTargetColumns,
                  ctxVars, Phase
    <2>. QED
      BY <1>1, <2>1 DEF Promise!Next, Promise!Refuse, Promise!vars
  <1>. QED
    BY <1>2, <1>3, <1>4, <1>5 DEF Eager

(* A frame is yielded, unless it is empty.                                 *)
LEMMA MappedFrame ==
  ASSUME NEW S, delivered \in Seq(S), NEW frame, delivered' = Delivered(frame), Sound(delivered)',
         UNCHANGED <<history, request, target, query>>, Phase = "reading", Phase' = "reading"
  PROVE  Promise!Yield \/ UNCHANGED Promise!vars
  <1>1. CASE frame = {}
    BY <1>1 DEF Delivered, Promise!vars
  <1>2. CASE frame # {}
    <2>1. delivered' = Append(delivered, frame)
      BY <1>2 DEF Delivered
    <2>2. Len(delivered') = Len(delivered) + 1 /\ Promise!IsPrefix(delivered, delivered')
      BY <2>1, PrefixOfAppend
    <2>3. Promise!Matching' = Promise!Matching
      BY DEF Promise!Matching
    <2>4. Promise!Due' = Promise!Due
      BY <2>3 DEF Promise!Due, Promise!Cardinality
    <2>5. PICK d : d = delivered'
      OBVIOUS
    <2>6. /\ Promise!EachOnce(delivered)' <=> Promise!EachOnce(d)
          /\ Promise!Rows(delivered)' = Promise!Rows(d)
      BY <2>5 DEF Promise!EachOnce, Promise!Rows
    <2>7. /\ Promise!EachOnce(d)
          /\ \A r \in Promise!Rows(d) :
                [key |-> r.key, cells |-> r.cells] \in {Selected(h, query.columns) : h \in Promise!Matching}
          /\ Cardinality(Promise!Rows(d)) <= Promise!Due
      <3>1. Cardinality(Promise!Rows(delivered))' = Cardinality(Promise!Rows(d))
        BY <2>6
      <3>. QED
        BY <2>3, <2>4, <2>6, <3>1 DEF Sound
    <2>8. Promise!Cardinality(Promise!Rows(d)) <= Promise!Due
      BY <2>7, PromisedCount
    <2>. QED
      BY <2>2, <2>5, <2>7, <2>8 DEF Promise!Yield
  <1>. QED
    BY <1>1, <1>2

LEMMA MappedLazy ==
  ASSUME ScanInv, Lazy, UNCHANGED history, SoundNow'
  PROVE  Promise!Next \/ UNCHANGED Promise!vars
  <1>1. UNCHANGED <<request, target>> /\ HasContext
    BY LazyKeeps DEF ctxVars
  <1>2. CASE Collect
    <2>1. Phase \in {"pinned", "complete", "failed"} /\ Phase' = "reading" /\ delivered' = <<>>
      BY <1>2 DEF Collect, Settled, Phase
    <2>2. PICK u \in tables : u.name = request.name /\ VisibleAt(u, target)
      BY <1>1, ScanFacts DEF Found
    <2>3. target \in 1..last
      BY <1>1, ScanFacts DEF Found
    <2>4. request.name \in DOMAIN history[target]
      BY <2>2, <2>3 DEF ScanInv, HInv, NamesKnown
    <2>. QED
      BY <1>1, <2>1, <2>4 DEF Promise!Next, Promise!Evaluate
  <1>3. CASE Enumerate \/ PlanNext \/ Planned
    <2>1. UNCHANGED <<query, delivered>> /\ Phase = "reading" /\ Phase' = "reading"
      BY <1>3 DEF Enumerate, PlanNext, Planned, Phase, readVars
    <2>. QED
      BY <1>1, <2>1 DEF Promise!vars
  <1>4. CASE ReadError
    <2>1. UNCHANGED <<query, delivered>> /\ Phase = "reading" /\ Phase' = "failed"
      BY <1>4 DEF ReadError, Phase, readVars
    <2>. QED
      BY <1>1, <2>1 DEF Promise!Next, Promise!Fail
  <1>5. CASE MultiScan
    <2>1. pc = "multiscan" /\ pc' = "return" /\ UNCHANGED query /\ \E frame : delivered' = Delivered(frame)
      BY <1>5 DEF MultiScan
    <2>2. delivered = <<>>
      BY <2>1 DEF ScanInv, Evaluating
    <2>3. \E S : delivered \in Seq(S)
      BY <2>2
    <2>4. Sound(delivered)'
      BY <2>1 DEF SoundNow
    <2>. QED
      BY <1>1, <2>1, <2>3, <2>4, MappedFrame DEF Phase, Promise!Next
  <1>6. CASE ReadNext
    <2>1. pc = "loop" /\ pc' = "loop" /\ UNCHANGED query /\ \E frame : delivered' = Delivered(frame)
      BY <1>6 DEF ReadNext
    <2>2. PICK content : Reading(content)
      BY <2>1 DEF ScanInv, Evaluating, Underway
    <2>3. \E S : delivered \in Seq(S)
      BY <2>2 DEF Reading, Behind
    <2>4. Sound(delivered)'
      BY <2>1 DEF SoundNow
    <2>. QED
      BY <1>1, <2>1, <2>3, <2>4, MappedFrame DEF Phase, Promise!Next
  <1>7. CASE Return
    <2>1. /\ Phase = "reading" /\ Phase' = "complete" /\ UNCHANGED <<query, delivered>>
          /\ pc = "return" \/ (pc = "loop" /\ (plans = <<>> \/ remaining = 0))
      BY <1>7 DEF Return, Phase, readVars
    <2>2. Cardinality(Got) = Promise!Due
      <3>1. CASE pc = "return"
        BY <3>1 DEF ScanInv, ReadWhole
      <3>2. CASE pc = "loop"
        <4>1. PICK content : Reading(content)
          BY <3>2 DEF ScanInv, Evaluating, Underway
        <4>2. plans = <<>> => Left = {}
          BY <3>2 DEF Left, ScanInv, Evaluating
        <4>. QED
          BY <2>1, <3>2, <4>1, <4>2, DeliveredIsSound DEF Reading
      <3>. QED
        BY <2>1, <3>1, <3>2
    <2>3. Promise!Cardinality(Promise!Rows(delivered)) = Promise!Due
      BY <2>2, PromisedCount DEF Got
    <2>. QED
      BY <1>1, <2>1, <2>3 DEF Promise!Next, Promise!Finish
  <1>. QED
    BY <1>2, <1>3, <1>4, <1>5, <1>6, <1>7 DEF Lazy

(* Whatever commits land between its statements, a scan behaves as a read  *)
(* of one snapshot (scan.py, _PlanContext: "pinning the snapshot at call   *)
(* time"): each statement of the call and of an evaluation is a step of    *)
(* SnapshotRead or leaves what it promises alone.                          *)
THEOREM ScanReadsOneSnapshot == Spec => ReadsOneSnapshot
  <1>1. Init => Promise!Init
    <2>1. Init => history = <<>> /\ Phase = "new" /\ target = NULL /\ delivered = <<>>
      BY DEF Init, CatalogInit, Phase
    <2>. QED
      BY <2>1 DEF Promise!Init
  <1>2. ScanInv /\ SoundNow' /\ [Next]_vars => [Promise!Next]_(Promise!vars)
    <2>. SUFFICES ASSUME ScanInv, SoundNow', [Next]_vars
                  PROVE  Promise!Next \/ UNCHANGED Promise!vars
      OBVIOUS
    <2>1. CASE UNCHANGED vars \/ Commits
      <3>1. [CatalogNext]_catalogVars /\ UNCHANGED scanVars
        BY <2>1 DEF vars, Commits
      <3>. QED
        BY <3>1, MappedCommit DEF Promise!Next
    <2>2. CASE Statement
      <3>1. UNCHANGED history
        BY <2>2, StatementsAre DEF catalogVars
      <3>. QED
        BY <2>2, <3>1, StatementsAre, MappedEager, MappedLazy
    <2>. QED
      BY <2>1, <2>2 DEF Next, Statement
  <1>. QED
    BY <1>1, <1>2, ScanInvariant, SoundIsInvariant, PTL DEF Spec, ReadsOneSnapshot, Promise!Spec

=============================================================================
