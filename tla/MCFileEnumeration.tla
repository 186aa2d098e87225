-------------------------- MODULE MCFileEnumeration --------------------------
(* Instances of FileEnumeration for TLC. *)
EXTENDS FileEnumeration, StatConversions

(* The lake builder records NULL for contains_nan, whatever the column holds. *)
NotRecorded(hasNan) == NULL
=============================================================================
