------------------------------- MODULE MCScan -------------------------------
(* Instances of DuckLakeScan for TLC. *)
EXTENDS DuckLakeScan

OneColumn == <<"a">>

ByLatest(n)    == [name |-> n, by |-> "latest", value |-> 0]
ById(n, s)     == [name |-> n, by |-> "id", value |-> s]
AsOf(n, s)     == [name |-> n, by |-> "as_of", value |-> s]

EveryWay      == {ByLatest("t"), ById("t", 2), AsOf("t", 3)}
NewestOrThird == {ByLatest("t"), ById("t", 3)}

One    == Binary("Eq", Column("a"), Literal(1))
NotOne == Binary("NotEq", Column("a"), Literal(1))

Query(p, cols, n) == [predicate |-> p, columns |-> cols, limit |-> n]

Unfiltered  == Query(NULL, NULL, NULL)
FirstRow    == Query(NULL, NULL, 1)
OnlyOnes    == Query(One, {"a"}, NULL)
FirstNotOne == Query(NotOne, NULL, 1)

(* Needs column a and hands out column b.                                  *)
OtherColumn == Query(One, {"b"}, NULL)
FirstOther  == Query(NULL, {"b"}, 1)

AllQueries  == {Unfiltered, FirstRow, OnlyOnes, FirstNotOne}
TwoColumnQueries == {Unfiltered, OtherColumn, FirstOther}
=============================================================================
