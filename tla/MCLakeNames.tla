----------------------------- MODULE MCLakeNames -----------------------------
(* An instance of LakeNames for TLC. *)
EXTENDS LakeNames, TLC

Scalars ==
    ("int32" :> "Int32") @@ ("integer" :> "Int32") @@ ("varchar" :> "String") @@ ("json" :> "String")

Node(path, type) == [path |-> path, type |-> type]

AList   == <<Node(<<"c">>, "list"), Node(<<"c", "element">>, "integer"), Node(<<"d">>, "json")>>
AStruct == <<Node(<<"c">>, "struct"), Node(<<"c", "a">>, "int32"), Node(<<"c", "b">>, "varchar")>>
AMap    == <<Node(<<"c">>, "map"), Node(<<"c", "value">>, "struct"), Node(<<"c", "value", "a">>, "int32"),
             Node(<<"c", "key">>, "varchar")>>
Unknown == <<Node(<<"c">>, "list"), Node(<<"c", "element">>, "geometry")>>
OneRow  == <<Node(<<"c">>, "struct(a int32)")>>

SomeDeclarations == {AList, AStruct, AMap, Unknown, OneRow}

SomeFields == {[name |-> "b", type |-> "varchar"]}

SomeSchemaNames == {<<"main">>, <<"a", "b">>}
SomeTableNames  == {<<"t">>, <<"b", "t">>}

Relative(p) == [path |-> p, isRelative |-> TRUE]
Absolute(p) == [path |-> p, isRelative |-> FALSE]

LakePaths == {NULL, <<"/", "lake">>, <<"s3:", "/", "/", "lake", "/">>}

SomeSchemaPaths ==
    {Relative(<<>>), Relative(<<"/", "sub">>), Absolute(<<"/", "elsewhere", "/">>)}

SomeTablePaths ==
    {Relative(<<"tab", "/">>), Absolute(<<"/", "other">>)}

SomeFiles ==
    {Relative(<<"f">>), Relative(<<"/", "f">>), Relative(<<"part", "/", "f">>),
     Absolute(<<"/", "abs", "/", "f">>)}
=============================================================================
