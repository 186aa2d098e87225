--------------------------- MODULE StatConversions ---------------------------
(***************************************************************************)
(* How a recorded statistic and a bound literal compare in the catalog     *)
(* database, by column family and dialect (_file_query.py,                 *)
(* _CAST_BY_DIALECT, _typed_stat_expr, _bind_value_for).  A value is an    *)
(* integer in the order Polars compares it in; a conversion gives its      *)
(* place in the order the catalog compares it in.                          *)
(***************************************************************************)
EXTENDS Integers

(* int and float families, date on every dialect: the cast restores the    *)
(* value, and Polars' order.                                               *)
Exact(v) == v

(* contains_nan: the flag a writer that inspects values records.           *)
Truthful(hasNan) == hasNan

-----------------------------------------------------------------------------
(* timestamp on SQLite: no cast, both sides are text.  A value counts      *)
(* microseconds, Second of them to the second (2 stands for 10^6).  Text   *)
(* with the fraction left out is a proper prefix of the same second's      *)
(* texts with a fraction, and sorts before all of them.                    *)

Second == 2

WithFraction(v) == 2 * v + 1

(* _stat_string: isoformat with timespec "microseconds".                   *)
StatText(v) == WithFraction(v)

(* The bound datetime is rendered by isoformat(" "), which omits a zero    *)
(* fraction.                                                               *)
BindText(v) == IF v % Second = 0 THEN 2 * v ELSE WithFraction(v)

=============================================================================
