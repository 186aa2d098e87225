---------------------------- MODULE MCTimeTravel ----------------------------
(* Instances of TimeTravel for TLC. *)
EXTENDS TimeTravel

TwoColumns == <<"a", "b">>
OneColumn  == <<"a">>

(* Tests of a: comparisons with a literal, and null checks.                *)
A == Column("a")
B == Column("b")

Compared(op, v) == Binary(op, A, Literal(v))

NullTests == {Function(fn, A) : fn \in {"IsNull", "IsNotNull"}}
With(lits) == {Compared(op, v) : op \in DOMAIN BinopToAtomic, v \in lits} \cup NullTests

(* Two of them in one conjunction, whose clauses the catalog query tests   *)
(* against one statistics row.                                             *)
Pairs == {Binary("And", x, y) : x \in With({0}), y \in With({0, 1})}

(* What the walk does not understand: operands the other way round, two    *)
(* columns, arithmetic, a null literal, a negation.                        *)
Lossy == {Binary("Lt", Literal(0), A), Binary("GtEq", Literal(1), A), Binary("Eq", A, B),
          Binary("Eq", A, Literal(NULL)), Binary("Gt", Binary("Plus", A, Literal(1)), Literal(1)),
          Function("Not", Compared("LtEq", 0)), Function("Not", Function("IsNull", A))}

(* Across columns, with what is dropped, and junctions below junctions.    *)
Sample    == {Compared("Eq", 0), Compared("NotEq", 1), Function("IsNull", A)}
Others    == Lossy \cup {Binary("Eq", B, Literal(1)), Function("IsNotNull", B)}
Junctions == {Binary(op, x, y) : op \in {"And", "Or"}, x \in Sample, y \in Others}
Nested    == {Binary(op, j, Compared("Gt", 0)) : op \in {"And", "Or"}, j \in Junctions}
                \cup {Function("Not", j) : j \in Junctions}

Filters == With({0, 1}) \cup Pairs \cup Lossy \cup Junctions \cup Nested
=============================================================================
