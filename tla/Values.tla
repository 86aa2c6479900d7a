------------------------------- MODULE Values -------------------------------
(***************************************************************************)
(* The values both engines compute with, the kinds of errors, and how a    *)
(* program ends.  A value is a tuple that starts with its type.            *)
(***************************************************************************)
EXTENDS Integers

Unit == <<"unit">>
IntV(n) == <<"int", n>>
BoolV(b) == <<"bool", b>>
ErrorV(kind) == <<"error", kind>>
TextV(text) == <<"text", text>>

IsInt(v) == v[1] = "int"
IsBool(v) == v[1] = "bool"
IsError(v) == v[1] = "error"

Arithmetic == {"AddInt", "SubInt", "DivInt"}
Order == {"CmpLt", "CmpLe", "CmpGe"}

(* A binary operator on two Ints.  Quotients here are of no negative Int.  *)
Calculate(op, x, y) ==
  CASE op = "AddInt" -> IntV(x + y)
    [] op = "SubInt" -> IntV(x - y)
    [] op = "DivInt" -> IntV(x \div y)
    [] op = "CmpLt" -> BoolV(x < y)
    [] op = "CmpLe" -> BoolV(x <= y)
    [] op = "CmpGe" -> BoolV(x >= y)

(* The kind of an error on its way; no error.                              *)
NoError == "none"

(* How a program ends.                                                     *)
Running == <<"running">>
Done == <<"done">>
Exit(v) == <<"exit", v>>
Failed(kind) == <<"failed", kind>>
=============================================================================
