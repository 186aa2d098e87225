--------------------------- MODULE PathResolution ---------------------------
(***************************************************************************)
(* Where a data or delete file lives (paths.py, resolve_path): the lake's  *)
(* data_path, the schema's path, the table's path and the file's own, each *)
(* appended to what is above it or, when it is not relative, replacing it. *)
(*                                                                         *)
(* A path is a sequence of names and separators; a level of it is a record *)
(* with path and isRelative, as the catalog rows have them.                *)
(***************************************************************************)
EXTENDS Integers, Sequences, SequencesExt

CONSTANT NULL   \* no data_path; also stands for an error

Slash == "/"

(* rstrip("/"), lstrip("/") and the join with exactly one separator.       *)

RStrip(p) ==
    LET kept == {i \in 0..Len(p) : \A j \in (i + 1)..Len(p) : p[j] = Slash}
    IN SubSeq(p, 1, Min(kept))

LStrip(p) ==
    LET cut == {i \in 0..Len(p) : \A j \in 1..i : p[j] = Slash}
    IN SubSeq(p, Max(cut) + 1, Len(p))

(* Mutant of Join: the parts as they come.                                 *)
JoinAsIs(prefix, tail) == prefix \o <<Slash>> \o tail

Join(prefix, tail) == RStrip(prefix) \o <<Slash>> \o LStrip(tail)

(* Mutant of Attach: path_is_relative is not looked at.                    *)
AttachAlways(base, segment) ==
    IF base = NULL THEN segment.path ELSE Join(base, segment.path)

Attach(base, segment) ==
    IF ~segment.isRelative \/ base = NULL THEN segment.path ELSE Join(base, segment.path)

(* An empty path is skipped.                                               *)
ApplySegment(base, segment) ==
    IF segment.path = <<>> THEN base ELSE Attach(base, segment)

ResolveBase(dataPath, schema, table) ==
    ApplySegment(ApplySegment(dataPath, schema), table)

(* NULL is the ValueError of a relative file below nothing.                *)
ResolvePath(dataPath, schema, table, file) ==
    LET base == ResolveBase(dataPath, schema, table)
    IN CASE ~file.isRelative -> file.path
         [] file.isRelative /\ base = NULL -> NULL
         [] OTHER -> Join(base, file.path)

=============================================================================
