------------------------------- MODULE SqlValue -----------------------------
(***************************************************************************)
(* Runtime values (src/db/value.zig) and how they compare; the same        *)
(* compareValues is in src/db/executor.zig and in src/db/query_source.zig. *)
(* A value or an error is a tagged tuple.  Text behaves as integers do,    *)
(* and so do floats other than NaN among themselves; both are left out, as *)
(* are integers compared with floats.  A blob stands for vectors too.      *)
(***************************************************************************)
EXTENDS Integers

Null          == <<"null">>
Integer(n)    == <<"integer", n>>
Boolean(b)    == <<"boolean", b>>
Blob          == <<"blob">>
Error(kind)   == <<"error", kind>>

IsError(v)    == v[1] = "error"
OrError(v, w) == IF IsError(v) THEN v ELSE w

BoolToInt(b) == IF b THEN 1 ELSE 0

(* The sign of the comparison, or TypeMismatch: NULL compares with NULL only. *)
compareValues(l, r) ==
  CASE l[1] = "null" /\ r[1] = "null"       -> Integer(0)
    [] l[1] = "integer" /\ r[1] = "integer" -> Integer(l[2] - r[2])
    [] l[1] = "boolean" /\ r[1] = "boolean" -> Integer(BoolToInt(l[2]) - BoolToInt(r[2]))
    [] OTHER                                -> Error("TypeMismatch")
=============================================================================
