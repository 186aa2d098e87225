-------------------------- MODULE ConnectionStrings --------------------------
(***************************************************************************)
(* From the metadata_catalog a caller passes to the SQLAlchemy URL that is *)
(* the key of the engine cache (_catalog.py, _translate_ducklake_string    *)
(* and its helpers).                                                       *)
(*                                                                         *)
(* A catalog string is a record: the backend its prefix names, and a path, *)
(* the key=value tokens shlex made of its body, or the URL it already is.  *)
(* Keys are in lower case, values are whole; "" is an absent value, and a  *)
(* token without "=" has the value Malformed.  A URL is the record of its  *)
(* parts: parts hold no separators of the URL syntax.                      *)
(***************************************************************************)
EXTENDS Integers, Sequences, SequencesExt

Malformed == "no ="

ValueError == [scheme |-> "ValueError"]

Url(scheme, user, password, host, port, database) ==
    [scheme |-> scheme, user |-> user, password |-> password,
     host |-> host, port |-> port, database |-> database]

FileUrl(scheme, path) == Url(scheme, "", "", "", "", path)

(* ducklake:<backend>:<path>, ducklake:<backend>:<tokens>, and a URL.      *)
PathForm(backend, path)   == [backend |-> backend, path |-> path]
ParamForm(backend, pairs) == [backend |-> backend, pairs |-> pairs]
UrlForm(url)              == [backend |-> "url", url |-> url]

Pair(key, value) == [key |-> key, value |-> value]

-----------------------------------------------------------------------------
(* pairs.get(key, default): the last of repeated keys counts.              *)
Get(pairs, key, default) ==
    LET given == {i \in DOMAIN pairs : pairs[i].key = key}
    IN IF given = {} THEN default ELSE pairs[Max(given)].value

DatabaseKeys == [postgres |-> <<"dbname", "database">>,
                 mysql    |-> <<"database", "db", "dbname">>]

(* The chain of "or": the first that has a value, or "".                   *)
DatabaseName(backend, pairs) ==
    LET keys  == DatabaseKeys[backend]
        named == SelectSeq(keys, LAMBDA k : Get(pairs, k, "") # "")
    IN IF named = <<>> THEN "" ELSE Get(pairs, Head(named), "")

Drivers == [postgres |-> "postgresql+psycopg", mysql |-> "mysql+pymysql"]

(* Mutant of BuildUrl: the URL has what the string says and no more.       *)
BuildUrlAsGiven(scheme, pairs, dbname) ==
    Url(scheme, Get(pairs, "user", ""), Get(pairs, "password", ""),
        Get(pairs, "host", ""), Get(pairs, "port", ""), dbname)

(* A password without a user is left out.                                  *)
BuildUrl(scheme, pairs, dbname) ==
    LET user == Get(pairs, "user", "")
    IN Url(scheme, user, IF user = "" THEN "" ELSE Get(pairs, "password", ""),
           Get(pairs, "host", "localhost"), Get(pairs, "port", ""), dbname)

TranslateParams(backend, pairs) ==
    IF \/ \E i \in DOMAIN pairs : pairs[i].value = Malformed
       \/ DatabaseName(backend, pairs) = ""
    THEN ValueError
    ELSE BuildUrl(Drivers[backend], pairs, DatabaseName(backend, pairs))

(* No backend prefix is a DuckDB file; "postgresql:" is turned away.       *)
TranslateDucklakeString(s) ==
    CASE s.backend \in DOMAIN Drivers -> TranslateParams(s.backend, s.pairs)
      [] s.backend = "postgresql" \/ (s.backend \in {"sqlite", "duckdb", "none"} /\ s.path = "") ->
            ValueError
      [] s.backend = "sqlite" /\ s.path # "" -> FileUrl("sqlite", s.path)
      [] s.backend \in {"duckdb", "none"} /\ s.path # "" -> FileUrl("duckdb", s.path)

(* What _engine_from_metadata_catalog looks up.                            *)
CacheKey(s) == IF s.backend = "url" THEN s.url ELSE TranslateDucklakeString(s)

=============================================================================
