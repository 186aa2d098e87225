------------------------- MODULE PredicateExtraction -------------------------
(***************************************************************************)
(* The predicate Polars hands the generator, the clauses that the walk of  *)
(* _predicate.py extracts from its expression tree, and what the whole     *)
(* predicate means for a row when Polars applies it to what was read.      *)
(*                                                                         *)
(* An expression is the sequence of its nodes, operands before their       *)
(* parents and the root last; a node names its operands by their places.   *)
(* One that does not serialise is extracted like one whose root is not     *)
(* understood: nothing is pushed.                                          *)
(***************************************************************************)
EXTENDS StatsPruning

Node(kind, label, args) == [kind |-> kind, label |-> label, args |-> args]

Moved(e, k) == [i \in DOMAIN e |-> [e[i] EXCEPT !.args = [j \in DOMAIN @ |-> @[j] + k]]]

Column(name)      == <<Node("Column", name, <<>>)>>
Literal(value)    == <<Node("Literal", value, <<>>)>>
Function(fn, e)   == Append(e, Node("Function", fn, <<Len(e)>>))
Binary(op, l, r)  ==
    l \o Moved(r, Len(l)) \o <<Node("BinaryExpr", op, <<Len(l), Len(l) + Len(r)>>)>>

BinopToAtomic ==
    [Eq |-> "eq", NotEq |-> "ne", Lt |-> "lt", LtEq |-> "le", Gt |-> "gt", GtEq |-> "ge"]

(* The expressions a read can filter with: every node has the operands of  *)
(* its kind, placed before it; literals are integers or null; junctions    *)
(* and negations are of Booleans.                                          *)
Arity == [BinaryExpr |-> 2, Function |-> 1, Column |-> 0, Literal |-> 0]

IsBoolean(node) == node.kind = "Function" \/ (node.kind = "BinaryExpr" /\ node.label # "Plus")

Labelled(node) ==
    CASE node.kind = "BinaryExpr" -> node.label \in {"And", "Or", "Plus"} \cup DOMAIN BinopToAtomic
      [] node.kind = "Function"   -> node.label \in {"IsNull", "IsNotNull", "Not"}
      [] node.kind = "Literal"    -> node.label \in Int \cup {NULL}
      [] OTHER                    -> TRUE

WellFormed(e) ==
    /\ Len(e) \in Nat \ {0}
    /\ DOMAIN e = 1..Len(e)
    /\ \A i \in DOMAIN e :
          LET node == e[i]
          IN /\ node.kind \in DOMAIN Arity
             /\ Labelled(node)
             /\ DOMAIN node.args = 1..Arity[node.kind]
             /\ \A k \in DOMAIN node.args :
                   /\ node.args[k] \in 1..(i - 1)
                   /\ node.label \in {"And", "Or", "Not"} => IsBoolean(e[node.args[k]])

-----------------------------------------------------------------------------
(* extract_clauses.                                                        *)

(* _as_column, _as_literal: NULL for the None and the _UNSUPPORTED they    *)
(* return.  A null literal has no kind _as_literal knows.                  *)
AsColumn(node)  == IF node.kind = "Column" THEN node.label ELSE NULL
AsLiteral(node) == IF node.kind = "Literal" THEN node.label ELSE NULL

(* A comparison gives a clause when its left side is a column and its      *)
(* right side a literal, a null check when it is of a column.              *)
Comparison(op, left, right) ==
    IF op \in DOMAIN BinopToAtomic /\ AsColumn(left) # NULL /\ AsLiteral(right) # NULL
    THEN {[col |-> AsColumn(left), op |-> BinopToAtomic[op], lit |-> AsLiteral(right)]}
    ELSE {}

NullCheck(function, input) ==
    IF function \in {"IsNull", "IsNotNull"} /\ AsColumn(input) # NULL
    THEN {[col |-> AsColumn(input),
           op |-> IF function = "IsNull" THEN "is_null" ELSE "is_not_null", lit |-> NULL]}
    ELSE {}

(* Mutant of Splits: a disjunction is walked like a conjunction.           *)
SplitsAnyJunction(node) == node.kind = "BinaryExpr" /\ node.label \in {"And", "Or"}

Splits(node) == node.kind = "BinaryExpr" /\ node.label = "And"

(* No predicate, no clauses.                                               *)
ExtractClauses(predicate) ==
    LET walk[i \in DOMAIN predicate] ==
          LET node == predicate[i]
              arg(k) == predicate[node.args[k]]
          IN CASE Splits(node) -> walk[node.args[1]] \cup walk[node.args[2]]
               [] ~Splits(node) /\ node.kind = "BinaryExpr" ->
                     Comparison(node.label, arg(1), arg(2))
               [] node.kind = "Function" -> NullCheck(node.label, arg(1))
               [] OTHER -> {}
    IN IF predicate = NULL THEN {} ELSE walk[Len(predicate)]

-----------------------------------------------------------------------------
(* Polars on one row: comparisons and functions propagate null, AND and OR *)
(* are Kleene's.                                                           *)

Conjunction(x, y) ==
    IF FALSE \in {x, y} THEN FALSE ELSE IF NULL \in {x, y} THEN NULL ELSE TRUE

Disjunction(x, y) ==
    IF TRUE \in {x, y} THEN TRUE ELSE IF NULL \in {x, y} THEN NULL ELSE FALSE

Negation(x) == IF x = NULL THEN NULL ELSE ~x

Plus(x, y) ==
    IF NULL \in {x, y} THEN NULL ELSE IF NaN \in {x, y} THEN NaN ELSE x + y

Apply(op, x, y) ==
    CASE op = "And"  -> Conjunction(x, y)
      [] op = "Or"   -> Disjunction(x, y)
      [] op = "Plus" -> Plus(x, y)
      [] OTHER       -> IF NULL \in {x, y} THEN NULL ELSE Satisfies(BinopToAtomic[op], y, x)

Invoke(function, x) ==
    CASE function = "IsNull"    -> x = NULL
      [] function = "IsNotNull" -> x # NULL
      [] function = "Not"       -> Negation(x)

Evaluate(e, cells) ==
    LET value[i \in DOMAIN e] ==
          LET arg(k) == value[e[i].args[k]]
          IN CASE e[i].kind = "Column"     -> cells[e[i].label]
               [] e[i].kind = "Literal"    -> e[i].label
               [] e[i].kind = "Function"   -> Invoke(e[i].label, arg(1))
               [] e[i].kind = "BinaryExpr" -> Apply(e[i].label, arg(1), arg(2))
    IN value[Len(e)]

(* The rows a filter keeps.                                                *)
Matches(row, predicate) == predicate = NULL \/ Evaluate(predicate, row.cells) = TRUE

(* The columns a predicate names.                                          *)
Names(predicate) ==
    IF predicate = NULL THEN {}
    ELSE {predicate[i].label : i \in {j \in DOMAIN predicate : predicate[j].kind = "Column"}}

=============================================================================
