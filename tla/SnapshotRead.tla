---------------------------- MODULE SnapshotRead ----------------------------
(***************************************************************************)
(* What scan_ducklake promises, without catalog rows, files or statements: *)
(* the LazyFrame it returns stands for one snapshot of one table.  Every   *)
(* evaluation of the frame yields rows of that snapshot that satisfy the   *)
(* predicate, the wanted columns of each, at most once; an evaluation that runs to its end has    *)
(* yielded all of them, or as many as the row limit asks for.  Commits go  *)
(* on meanwhile and change nothing that is already history.                *)
(***************************************************************************)
EXTENDS Integers, Sequences, FiniteSets, SequencesExt

CONSTANTS
    NULL,             \* no limit
    Matches(_, _),    \* Matches(row, predicate): does the predicate keep the row?
    Selected(_, _)    \* Selected(row, columns): the row, of those columns only

VARIABLES
    history,    \* snapshot -> table name -> set of rows
    phase,      \* of the scan
    request,    \* the table name and the snapshot that were asked for
    pin,        \* the snapshot the frame stands for
    query,      \* predicate, columns and row limit of the evaluation under way
    delivered   \* the frames it has yielded, in order

vars == <<history, phase, request, pin, query, delivered>>

Phases == {"new", "pinned", "reading", "complete", "failed", "refused"}

Rows(frames) == UNION {frames[i] : i \in DOMAIN frames}

(* No row is in two frames, or in one frame twice.                         *)
EachOnce(frames) ==
    \A i, j \in DOMAIN frames : \A r \in frames[i], q \in frames[j] :
       r.key = q.key => i = j /\ r = q

Matching == {r \in history[pin][request.name] : Matches(r, query.predicate)}

(* How many rows an evaluation yields in the end.                          *)
Due == IF query.limit = NULL \/ Cardinality(Matching) <= query.limit
       THEN Cardinality(Matching) ELSE query.limit

Init ==
    /\ history = <<>>
    /\ phase = "new"
    /\ pin = NULL
    /\ delivered = <<>>

Commit ==
    /\ Len(history') = Len(history) + 1
    /\ IsPrefix(history, history')
    /\ UNCHANGED <<phase, request, pin, query, delivered>>

(* The newest snapshot, the one named, or the newest at or before a time:  *)
(* decided once, at one moment.                                            *)
Denotes(s) ==
    CASE request.by = "latest" -> s = Len(history)
      [] request.by = "id"     -> s = request.value
      [] request.by = "as_of"  -> s = IF request.value < Len(history)
                                      THEN request.value ELSE Len(history)

Ask ==
    /\ phase = "new"
    /\ request' # request
    /\ UNCHANGED <<history, phase, pin, query, delivered>>

Pin ==
    /\ phase = "new"
    /\ phase' = "pinned"
    /\ pin' \in DOMAIN history
    /\ Denotes(pin')
    /\ UNCHANGED <<history, request, query, delivered>>

Refuse ==
    /\ phase \in {"new", "pinned"}
    /\ phase' = "refused"
    /\ UNCHANGED <<history, request, pin, query, delivered>>

Evaluate ==
    /\ phase \in {"pinned", "complete", "failed"}
    /\ request.name \in DOMAIN history[pin]
    /\ phase' = "reading"
    /\ delivered' = <<>>
    /\ UNCHANGED <<history, request, pin>>

Yield ==
    /\ phase = "reading"
    /\ Len(delivered') = Len(delivered) + 1
    /\ IsPrefix(delivered, delivered')
    /\ EachOnce(delivered')
    /\ \A r \in Rows(delivered') :
          [key |-> r.key, cells |-> r.cells] \in {Selected(h, query.columns) : h \in Matching}
    /\ Cardinality(Rows(delivered')) <= Due
    /\ UNCHANGED <<history, phase, request, pin, query>>

Finish ==
    /\ phase = "reading"
    /\ Cardinality(Rows(delivered)) = Due
    /\ phase' = "complete"
    /\ UNCHANGED <<history, request, pin, query, delivered>>

(* A file of the evaluation can no longer be read.                         *)
Fail ==
    /\ phase = "reading"
    /\ phase' = "failed"
    /\ UNCHANGED <<history, request, pin, query, delivered>>

Next ==
    Commit \/ Ask \/ Pin \/ Refuse \/ Evaluate \/ Yield \/ Finish \/ Fail

Spec == Init /\ [][Next]_vars

=============================================================================
