----------------------------- MODULE NestedTypes -----------------------------
(***************************************************************************)
(* The schema a scan announces: the rows of ducklake_column, in which a    *)
(* nested type is one row per node of its tree, assembled into Polars      *)
(* types (types.py; scan.py, _build_target_columns).                       *)
(*                                                                         *)
(* A Polars type is [dtype, fields]; fields is the sequence of names and   *)
(* types below it, empty for a scalar.  A list has one unnamed field.      *)
(***************************************************************************)
EXTENDS Integers, Sequences, FiniteSets

CONSTANTS
    NoParent,    \* parent_column of a top-level column
    ScalarMap,   \* scalar column_type, lowered -> name of a Polars type
    SqlTypes     \* struct(...) and the like: nested types spelled out in one row

ValueError == [dtype |-> "ValueError", fields |-> <<>>]

Field(name, type) == [name |-> name, type |-> type]

ListOf(type)     == [dtype |-> "List", fields |-> <<Field("", type)>>]
StructOf(fields) == [dtype |-> "Struct", fields |-> fields]

NestedTypeNames == {"list", "struct", "map"}

IsNestedType(t) == t \in NestedTypeNames \cup SqlTypes

MapType(t) ==
    IF t \in DOMAIN ScalarMap THEN [dtype |-> ScalarMap[t], fields |-> <<>>] ELSE ValueError

FieldNames(kids) == {kids[i].name : i \in DOMAIN kids}

Named(kids, name) == kids[CHOOSE i \in DOMAIN kids : kids[i].name = name]

(* "we sort by name for safety".                                           *)
KeyValue(kids) == <<Named(kids, "key"), Named(kids, "value")>>

(* A child that could not be mapped has raised before its parent is built. *)
BuildNestedType(t, kids) ==
    IF \E i \in DOMAIN kids : kids[i].type = ValueError THEN ValueError
    ELSE CASE t = "list" /\ Len(kids) = 1 -> ListOf(kids[1].type)
           [] t = "struct" /\ kids # <<>> -> StructOf(kids)
           [] t = "map" /\ Len(kids) = 2 /\ FieldNames(kids) = {"key", "value"} ->
                 ListOf(StructOf(KeyValue(kids)))
           [] OTHER -> ValueError

(* ORDER BY column_order: a place is one more than the places before it.    *)
InOrder(S) ==
    [i \in 1..Cardinality(S) |-> CHOOSE x \in S : Cardinality({y \in S : y.order <= x.order}) = i]

(* rows: what fetch_columns_with_nested returns.                           *)
BuildTargetColumns(rows) ==
    LET type[c \in rows] ==
            IF ~IsNestedType(c.type) THEN MapType(c.type)
            ELSE LET kids == InOrder({k \in rows : k.parent = c.id})
                 IN BuildNestedType(c.type,
                       [i \in DOMAIN kids |-> Field(kids[i].name, type[kids[i]])])
        top == InOrder({c \in rows : c.parent = NoParent})
    IN [i \in DOMAIN top |-> Field(top[i].name, type[top[i]])]

=============================================================================
