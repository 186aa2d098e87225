----------------------------- MODULE MCSessions -----------------------------
(* An instance of CatalogSessions for TLC: callers that spell one lake, on *)
(* PostgreSQL, in every way the translation understands, and some strings  *)
(* it turns away before the cache is reached.                              *)
EXTENDS CatalogSessions, ConnectionStrings

CONSTANTS t1, t2, e1, e2, e3, lake

TwoThreads   == {t1, t2}
ThreeEngines == {e1, e2, e3}
OneLake      == {lake}

Dbname   == Pair("dbname", "sales")
Database == Pair("database", "sales")
User     == Pair("user", "reader")
Host     == Pair("host", "localhost")

Postgres(pairs) == ParamForm("postgres", pairs)

Strings ==
    { Postgres(<<Dbname, Host, User>>),
      Postgres(<<Database, User>>),
      Postgres(<<User, Pair("dbname", "old"), Dbname>>),
      Postgres(<<Pair("dbname", ""), Database, User, Pair("port", "")>>),
      UrlForm(Url("postgresql+psycopg", "reader", "", "localhost", "", "sales")),
      Postgres(<<>>),
      Postgres(<<Dbname, Pair("not_a_pair", Malformed)>>),
      PathForm("postgresql", "dbname=sales") }

Spellings  == {s \in Strings : CacheKey(s) # ValueError}
Translate  == [s \in Spellings |-> CacheKey(s)]
Translated == {CacheKey(s) : s \in Spellings}
SameLake   == [u \in Translated |-> lake]

(* The other backends: strings the documentation calls equivalent have one *)
(* key, and strings that name different databases do not.                  *)
Local  == {PathForm("sqlite", "a.db"), UrlForm(FileUrl("sqlite", "a.db"))}
Duck   == {PathForm("duckdb", "a.db"), PathForm("none", "a.db")}
MySql  == {ParamForm("mysql", <<Pair(k, "sales"), Host>>) : k \in {"database", "db", "dbname"}}
Ports  == {ParamForm("mysql", <<Database, Pair("port", p)>>) : p \in {"3306", "3307"}}

Keys(S) == {CacheKey(s) : s \in S}

ASSUME EquivalentStrings ==
    /\ \A S \in {Local, Duck, MySql} : \E u \in Keys(S) : Keys(S) = {u} /\ u # ValueError
    /\ \A S, R \in {Local, Duck, MySql} : S # R => Keys(S) # Keys(R)
    /\ Cardinality(Keys(Ports)) = 2

=============================================================================
