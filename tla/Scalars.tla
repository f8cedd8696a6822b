------------------------------ MODULE Scalars -------------------------------
(***************************************************************************)
(* Data types and values (catalog/data_type.rs, common/scalar.rs) and what *)
(* expressions do with them (expression/binary.rs).  A value carries its   *)
(* type; a result that is an error is Err.  Floats hold whole numbers, and *)
(* numbers stay below the 32 bits of TLC's integers, so only casts to      *)
(* narrower integers lose bits.                                            *)
(***************************************************************************)
EXTENDS Integers, TLC

CONSTANTS
  Null,   \* the None of an Option
  Err     \* the Err of a Result

Signed   == {"Int8", "Int16", "Int32", "Int64"}
Unsigned == {"UInt8", "UInt16", "UInt32", "UInt64"}
Floats   == {"Float32", "Float64"}

(* Varchar is Varchar(None), VarcharN a Varchar with a length. *)
DataType == Signed \cup Unsigned \cup Floats \cup {"Boolean", "Varchar", "VarcharN"}

Scalar(t, v) == [type |-> t, v |-> v]

(***************************************************************************)
(* Casts.                                                                  *)
(***************************************************************************)

CanCast(from, to) ==
  \/ from = "Int8"    /\ to \notin {"Boolean", "Int8"}
  \/ from = "Int64"   /\ to \in (Signed \cup Unsigned \cup Floats) \ {"Int64"}
  \/ from = "Int32"   /\ to \in {"Int64", "Float64"}
  \/ from = "Float64" /\ to = "Float32"

(* The conversion `as` keeps the low bits of an integer. *)
Wrapped(n, w, signed) ==
  LET low == n % 2^w IN IF signed /\ low >= 2^(w - 1) THEN low - 2^w ELSE low

Converted(v, to) ==
  CASE to = "Int8"   -> Wrapped(v, 8, TRUE)
    [] to = "Int16"  -> Wrapped(v, 16, TRUE)
    [] to = "UInt8"  -> Wrapped(v, 8, FALSE)
    [] to = "UInt16" -> Wrapped(v, 16, FALSE)
    [] to \in {"Varchar", "VarcharN"} -> ToString(v)
    [] OTHER -> v

(* The type that a value reports: a Varchar has lost its length. *)
TypeOf(t) == IF t = "VarcharN" THEN "Varchar" ELSE t

CastTo(x, to) ==
  IF x.type = to THEN x
  ELSE IF ~CanCast(x.type, to) THEN Err
  ELSE Scalar(TypeOf(to), IF x.v = Null THEN Null ELSE Converted(x.v, to))

(* The type of the column as text in information_schema.columns, and back: *)
(* DOUBLE is written for Float64 and read as Float32.                      *)
ToSql(t)   == IF t = "Float64" THEN "Double" ELSE t
FromSql(t) == IF t = "Double" THEN "Float32" ELSE t

(***************************************************************************)
(* Comparisons.                                                            *)
(***************************************************************************)

(* The rules are tried in this order. *)
Coerced(l, r) ==
  LET Has(t) == t \in {l, r}
      Pair(S, T) == {l, r} \cap S # {} /\ {l, r} \cap T # {}
  IN  IF l = r THEN l
      ELSE IF Has("Float64") THEN "Float64"
      ELSE IF Has("Float32") THEN "Float32"
      ELSE IF Has("Int64") \/ Pair({"UInt64", "UInt32"}, Signed) THEN "Int64"
      ELSE IF Has("UInt64") THEN "UInt64"
      ELSE IF Has("Int32") \/ Pair({"UInt16"}, {"Int16", "Int8"}) THEN "Int32"
      ELSE IF Has("UInt32") THEN "UInt32"
      ELSE IF Has("Int16") \/ Pair({"Int8"}, {"UInt8"}) THEN "Int16"
      ELSE IF Has("UInt16") THEN "UInt16"
      ELSE IF Has("Int8") THEN "Int8"
      ELSE IF Has("UInt8") THEN "UInt8"
      ELSE Err

(* Options compare with None below Some, and None equal to None. *)
PartialCmp(x, y) ==
  IF x.type # y.type THEN Err
  ELSE IF x.v = y.v THEN "Equal"
  ELSE IF x.v = Null THEN "Less"
  ELSE IF y.v = Null THEN "Greater"
  ELSE IF x.type = "Boolean" THEN (IF y.v THEN "Less" ELSE "Greater")
  ELSE IF x.v < y.v THEN "Less" ELSE "Greater"

Accepted(op) ==
  CASE op = "Gt" -> {"Greater"} [] op = "GtEq" -> {"Greater", "Equal"}
    [] op = "Lt" -> {"Less"}    [] op = "LtEq" -> {"Less", "Equal"}
    [] op = "Eq" -> {"Equal"}   [] op = "NotEq" -> {"Greater", "Less"}

Compared(op, order) == IF order = Err THEN Err ELSE Scalar("Boolean", order \in Accepted(op))

CompareCast(op, l, r) == IF Err \in {l, r} THEN Err ELSE Compared(op, PartialCmp(l, r))

CompareAs(op, x, y, t) ==
  IF t = Err THEN Err ELSE CompareCast(op, CastTo(x, t), CastTo(y, t))

(* Both sides are cast to the type they are coerced to. *)
Compare(op, x, y) == CompareAs(op, x, y, Coerced(x.type, y.type))

(* A conjunction with a NULL is false. *)
And(x, y) ==
  IF x.type # "Boolean" \/ y.type # "Boolean" THEN Err
  ELSE Scalar("Boolean", x.v = TRUE /\ y.v = TRUE)
=============================================================================
