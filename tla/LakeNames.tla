------------------------------ MODULE LakeNames ------------------------------
(***************************************************************************)
(* What a call finds under the name it is given: schema, table, announced  *)
(* types and file paths, at any snapshot of a lake whose schemas, tables   *)
(* and struct fields come and go (scan.py, scan_ducklake; _catalog.py).    *)
(*                                                                         *)
(* A name is the sequence of its parts between dots.  Every commit below   *)
(* is one transaction and one snapshot; the snapshot's number is that of   *)
(* the commit.  Cells and files are the subject of DuckLakeCatalog.        *)
(***************************************************************************)
EXTENDS PathResolution, NestedTypes

CONSTANTS
    SchemaNames,   \* names schemas are created under
    TableNames,    \* names tables are created under
    SchemaPaths,   \* path columns of ducklake_schema: [path, isRelative]
    TablePaths,    \* path columns of ducklake_table, likewise
    FilePaths,     \* path columns of ducklake_data_file, likewise
    DataPaths,     \* values of data_path
    Declarations,  \* columns of a CREATE TABLE: the nodes of their types in
                   \* order, as [path, type], a path being the names down to it
    NewFields,     \* fields added to structs: [name, type], of plain types
    MaxSnapshot    \* bound: snapshots ever committed

Main == <<"main">>

(* The nodes of a declaration from a given place on.                       *)
Placed(nodes, first) ==
    {[path |-> nodes[i].path, type |-> nodes[i].type, order |-> first + i] : i \in DOMAIN nodes}

Below(nodes, path) == {n \in nodes : Front(n.path) = path}

(* What the DuckLake specification has below a node of each nested type.   *)
HasItsParts(type, names) ==
    /\ type = "list"   => \E name \in names : names = {name}
    /\ type = "struct" => names # {}
    /\ type = "map"    => names = {"key", "value"}

(* The nodes of a table's types: each after the node it is below.          *)
IsForest(nodes) ==
    /\ \A n \in nodes : n.path \in Seq(STRING) \ {<<>>} /\ n.order \in Nat
    /\ \A n, m \in nodes : n.path = m.path \/ n.order = m.order => n = m
    /\ \A n \in nodes : Front(n.path) # <<>> =>
          \E m \in nodes : m.path = Front(n.path) /\ m.order < n.order /\ m.type \in NestedTypeNames
    /\ \A n \in nodes : HasItsParts(n.type, {Last(m.path) : m \in Below(nodes, n.path)})

Segments == [path : Seq(STRING), isRelative : BOOLEAN]

ASSUME NamesAssumption ==
    /\ SchemaNames \cup TableNames \cup {Main} \subseteq Seq(STRING) \ {<<>>}
    /\ Slash \in STRING
    /\ SchemaPaths \cup TablePaths \cup FilePaths \subseteq Segments
    /\ \A file \in FilePaths : file.path # <<>>
    /\ DataPaths \subseteq Seq(STRING) \cup {NULL}
    /\ NULL \notin Nat /\ NULL \notin Seq(STRING) /\ NoParent \notin Nat
    /\ MaxSnapshot \in Nat

(* Columns as CREATE TABLE and ALTER TABLE declare them, and the types the *)
(* library knows: a scalar is not spelled like a nested type.              *)
ASSUME TypesAssumption ==
    /\ \A nodes \in Declarations :
          nodes \in Seq([path : Seq(STRING), type : STRING]) /\ IsForest(Placed(nodes, 0))
    /\ \A f \in NewFields : f.name \in STRING /\ f.type \notin NestedTypeNames
    /\ DOMAIN ScalarMap \cap (NestedTypeNames \cup SqlTypes) = {}
    /\ NestedTypeNames \cap SqlTypes = {}
    /\ \A t \in DOMAIN ScalarMap : ScalarMap[t] \notin {"List", "Struct", "ValueError"}

-----------------------------------------------------------------------------
VARIABLES
    last,      \* the newest snapshot
    schemas,   \* ducklake_schema: [info, begin, end], info being the rest of the row
    tables,    \* ducklake_table, likewise
    columns,   \* ducklake_column, likewise, nested rows included
    nextId,    \* next schema, table or column id
    history    \* ghost: snapshot -> <<schema, table>> -> its nodes

vars == <<last, schemas, tables, columns, nextId, history>>

VisibleAt(row, s) == s >= row.begin /\ (row.end = NULL \/ s < row.end)

At(rows, s) == {r.info : r \in {q \in rows : VisibleAt(q, s)}}

Live(rows) == At(rows, last)

Begun(infos, s) == {[info |-> i, begin |-> s, end |-> NULL] : i \in infos}

(* The rows after a commit that ends some of the live ones and begins new  *)
(* ones.                                                                   *)
Changed(rows, gone, new) ==
    {IF r.end = NULL /\ r.info \in gone THEN [r EXCEPT !.end = last + 1] ELSE r : r \in rows}
       \cup Begun(new, last + 1)

SchemaRow(id, name, segment) ==
    [id |-> id, name |-> name, path |-> segment.path, isRelative |-> segment.isRelative]

(* A new lake has its main schema.                                         *)
Init ==
    /\ last = 1
    /\ schemas \in {Begun({SchemaRow(1, Main, p)}, 1) : p \in SchemaPaths}
    /\ tables = {}
    /\ columns = {}
    /\ nextId = 2
    /\ history = <<<<>>>>

-----------------------------------------------------------------------------
(* Writers.                                                                *)

Now == history[last]

Commit(now) ==
    /\ last < MaxSnapshot
    /\ last' = last + 1
    /\ history' = Append(history, now)

With(f, k, v) == [x \in DOMAIN f \cup {k} |-> IF x = k THEN v ELSE f[x]]

Without(f, k) == [x \in DOMAIN f \ {k} |-> f[x]]

AddSchema(n, segment) ==
    /\ \A sc \in Live(schemas) : sc.name # n
    /\ schemas' = Changed(schemas, {}, {SchemaRow(nextId, n, segment)})
    /\ nextId' = nextId + 1
    /\ Commit(Now)
    /\ UNCHANGED <<tables, columns>>

DropSchema(sc) ==
    /\ \A t \in Live(tables) : t.schema # sc.id
    /\ schemas' = Changed(schemas, {sc}, {})
    /\ Commit(Now)
    /\ UNCHANGED <<tables, columns, nextId>>

(* One row per node, ids and column_order in the order of the declaration. *)
ColumnRow(t, nodes, n) ==
    [table |-> t, id |-> n.order, order |-> n.order, name |-> Last(n.path), type |-> n.type,
     parent |-> IF Front(n.path) = <<>> THEN NoParent
                ELSE (CHOOSE m \in nodes : m.path = Front(n.path)).order]

NodeRows(t, nodes) == {ColumnRow(t, nodes, n) : n \in nodes}

AddTable(sc, n, segment, declared) ==
    LET nodes == Placed(declared, nextId)
    IN /\ \A t \in Live(tables) : ~(t.schema = sc.id /\ t.name = n)
       /\ tables' = Changed(tables, {},
             {[id |-> nextId, schema |-> sc.id, name |-> n,
               path |-> segment.path, isRelative |-> segment.isRelative]})
       /\ columns' = Changed(columns, {}, NodeRows(nextId, nodes))
       /\ nextId' = nextId + Len(declared) + 1
       /\ Commit(With(Now, <<sc.name, n>>, nodes))
       /\ UNCHANGED schemas

Key(t) == <<(CHOOSE sc \in Live(schemas) : sc.id = t.schema).name, t.name>>

DropTable(t) ==
    /\ tables' = Changed(tables, {t}, {})
    /\ columns' = Changed(columns, {c \in Live(columns) : c.table = t.id}, {})
    /\ Commit(Without(Now, Key(t)))
    /\ UNCHANGED <<schemas, nextId>>

(* ALTER TABLE on a field of a struct column, of a plain type.             *)
Fields(t, c) == {k \in Live(columns) : k.table = t.id /\ k.parent = c.id}

IsTopStruct(t, c) == c.table = t.id /\ c.parent = NoParent /\ c.type = "struct"

DropField(t, c, k) ==
    /\ IsTopStruct(t, c)
    /\ k \in Fields(t, c) /\ k.type \notin NestedTypeNames
    /\ \E j \in Fields(t, c) : j # k
    /\ columns' = Changed(columns, {k}, {})
    /\ Commit(With(Now, Key(t), {n \in Now[Key(t)] : n.path # <<c.name, k.name>>}))
    /\ UNCHANGED <<schemas, tables, nextId>>

AddField(t, c, f) ==
    /\ IsTopStruct(t, c)
    /\ \A k \in Fields(t, c) : k.name # f.name
    /\ columns' = Changed(columns, {},
          {[table |-> t.id, id |-> nextId, order |-> nextId, name |-> f.name, type |-> f.type,
            parent |-> c.id]})
    /\ nextId' = nextId + 1
    /\ Commit(With(Now, Key(t), Now[Key(t)] \cup
          {[path |-> <<c.name, f.name>>, type |-> f.type, order |-> nextId]}))
    /\ UNCHANGED <<schemas, tables>>

Next ==
    \/ \E n \in SchemaNames, p \in SchemaPaths : AddSchema(n, p)
    \/ \E sc \in Live(schemas) : DropSchema(sc)
    \/ \E sc \in Live(schemas), n \in TableNames, p \in TablePaths, d \in Declarations :
          AddTable(sc, n, p, d)
    \/ \E t \in Live(tables) : DropTable(t)
    \/ \E t \in Live(tables), c \in Live(columns) :
          \/ \E k \in Live(columns) : DropField(t, c, k)
          \/ \E f \in NewFields : AddField(t, c, f)

Spec == Init /\ [][Next]_vars

-----------------------------------------------------------------------------
(* The call.                                                               *)

Dotted(n) == Len(n) > 1

(* Mutant of ResolveTableIdentifier: a dotted name is split at its last dot. *)
SplitAtLastDot(req) ==
    CASE req.schema # NULL /\ ~Dotted(req.table) -> {[schema |-> req.schema, table |-> req.table]}
      [] req.schema # NULL /\ Dotted(req.table)  -> {}
      [] req.schema = NULL /\ ~Dotted(req.table) -> {[schema |-> Main, table |-> req.table]}
      [] req.schema = NULL /\ Dotted(req.table)  ->
            {[schema |-> Front(req.table), table |-> <<Last(req.table)>>]}

(* _resolve_table_identifier; nothing is its ValueError.                   *)
ResolveTableIdentifier(req) ==
    CASE req.schema # NULL /\ ~Dotted(req.table) -> {[schema |-> req.schema, table |-> req.table]}
      [] req.schema # NULL /\ Dotted(req.table)  -> {}
      [] req.schema = NULL /\ ~Dotted(req.table) -> {[schema |-> Main, table |-> req.table]}
      [] req.schema = NULL /\ Dotted(req.table)  ->
            {[schema |-> <<Head(req.table)>>, table |-> Tail(req.table)]}

ResolveSchema(n, s) == {sc \in At(schemas, s) : sc.name = n}

ResolveTable(sc, n, s) == {t \in At(tables, s) : t.schema = sc.id /\ t.name = n}

(* Mutant of FetchColumnsWithNested: fields are read as they are now.      *)
FetchColumnsNow(t, s) ==
    {c \in At(columns, s) : c.table = t.id /\ c.parent = NoParent}
       \cup {c \in Live(columns) : c.table = t.id /\ c.parent # NoParent}

FetchColumnsWithNested(t, s) == {c \in At(columns, s) : c.table = t.id}

(* All that scan_ducklake may find; each set has at most one member, and   *)
(* a lookup in an empty one raises.                                        *)
Resolved(req, s) ==
    {p \in At(schemas, s) \X At(tables, s) :
        \E name \in ResolveTableIdentifier(req) :
           p[1] \in ResolveSchema(name.schema, s) /\ p[2] \in ResolveTable(p[1], name.table, s)}

Targets(req, s) ==
    {r \in {[schema |-> p[1], table |-> p[2],
             columns |-> BuildTargetColumns(FetchColumnsWithNested(p[2], s))]
            : p \in Resolved(req, s)}
       : \A i \in DOMAIN r.columns : r.columns[i].type # ValueError}

-----------------------------------------------------------------------------
Qualified == {sc \o n : sc \in SchemaNames \cup {Main}, n \in TableNames}

Requests == [schema : SchemaNames \cup {Main, NULL}, table : TableNames \cup Qualified]

Snapshots == 1..last

Supported(nodes) == \A n \in nodes : n.type \in DOMAIN ScalarMap \cup NestedTypeNames

(* The columns a table was declared with, by names and places alone.       *)
DeclaredColumns(nodes) ==
    LET type[n \in nodes] ==
            LET kids  == Below(nodes, n.path)
                order == InOrder(kids)
                field(k)  == Field(Last(k.path), type[k])
                the(name) == field(CHOOSE k \in kids : Last(k.path) = name)
            IN CASE n.type = "list"   -> ListOf(type[order[1]])
                 [] n.type = "struct" -> StructOf([i \in DOMAIN order |-> field(order[i])])
                 [] n.type = "map"    -> ListOf(StructOf(<<the("key"), the("value")>>))
                 [] OTHER -> [dtype |-> ScalarMap[n.type], fields |-> <<>>]
        top == InOrder(Below(nodes, <<>>))
    IN [i \in DOMAIN top |-> Field(Last(top[i].path), type[top[i]])]

(* What a call announces at a snapshot is what the lake declared under     *)
(* that name then: whatever was dropped, created anew or altered later, to *)
(* any depth of nesting, and a map as key and value however the writer     *)
(* ordered them; never for a table with a type it does not know            *)
(* (_build_target_columns, fetch_columns_with_nested).                     *)
TypesMatchDeclared ==
    \A s \in Snapshots, req \in Requests : \A r \in Targets(req, s) :
       LET key == <<r.schema.name, r.table.name>>
       IN /\ key \in DOMAIN history[s]
          /\ Supported(history[s][key])
          /\ r.columns = DeclaredColumns(history[s][key])

(* Every table of supported types can be asked for at every snapshot it is *)
(* in, with or without a schema argument, unless a dot is in its name and  *)
(* in its schema's; and no request finds two (_resolve_table_identifier).  *)
EveryTableCanBeNamed ==
    \A s \in Snapshots :
       /\ \A key \in DOMAIN history[s] :
             Supported(history[s][key]) =>
                ((\E req \in Requests : \E r \in Targets(req, s) :
                    <<r.schema.name, r.table.name>> = key)
                 <=> ~(Dotted(key[1]) /\ Dotted(key[2])))
       /\ \A req \in Requests : Cardinality(Targets(req, s)) <= 1

-----------------------------------------------------------------------------
(* The names in a path, without the separators.                            *)
NamesIn(path) ==
    LET upto[i \in 0..Len(path)] ==
            IF i = 0 THEN <<>>
            ELSE IF path[i] = Slash THEN upto[i - 1]
            ELSE Append(upto[i - 1], path[i])
    IN upto[Len(path)]

(* The levels top down, the data path as an anchor.                        *)
Levels(dataPath, r, file) ==
    <<[path |-> IF dataPath = NULL THEN <<>> ELSE dataPath, isRelative |-> FALSE],
      r.schema, r.table, file>>

IsAnchor(level) == ~level.isRelative /\ level.path # <<>>

Found(dataPath, r, file) == ResolvePath(dataPath, r.schema, r.table, file)

(* The names in the levels from the k-th on.                               *)
NamesFrom(levels, k) ==
    LET from(j) == IF j >= k THEN NamesIn(levels[j].path) ELSE <<>>
    IN from(1) \o from(2) \o from(3) \o from(4)

NearestAnchor(levels, k) == IsAnchor(levels[k]) /\ \A j \in (k + 1)..4 : ~IsAnchor(levels[j])

(* A file is found below the nearest level that is not relative, no level  *)
(* above that one shows in the result, and it is the path of the schema    *)
(* and the table the snapshot has (paths.py, resolve_path).                *)
NearestAnchorWins ==
    \A s \in Snapshots, key \in UNION {DOMAIN history[i] : i \in Snapshots} :
       \A r \in Targets([schema |-> key[1], table |-> key[2]], s),
          d \in DataPaths, f \in FilePaths, k \in 1..4 :
          NearestAnchor(Levels(d, r, f), k) =>
             /\ Found(d, r, f) # NULL
             /\ NamesIn(Found(d, r, f)) = NamesFrom(Levels(d, r, f), k)

SeparatedOnce(path) == \A i \in 1..(Len(path) - 1) : ~(path[i] = Slash /\ path[i + 1] = Slash)

(* "ensuring exactly one slash separates each joined pair" (paths.py): two *)
(* separators in a row come from within a level, never from joining them.  *)
OneSeparator ==
    \A s \in Snapshots, key \in UNION {DOMAIN history[i] : i \in Snapshots} :
       \A r \in Targets([schema |-> key[1], table |-> key[2]], s),
          d \in DataPaths, f \in FilePaths :
          LET levels == Levels(d, r, f)
          IN (\A j \in 1..4 : SeparatedOnce(levels[j].path)) /\ Found(d, r, f) # NULL
                => SeparatedOnce(Found(d, r, f))

=============================================================================
