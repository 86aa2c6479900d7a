-------------------------- MODULE CollectionValues --------------------------
(***************************************************************************)
(* The values the collection operators work on, and what an operator       *)
(* answers: a value, or the family of the error it raises.                 *)
(***************************************************************************)
EXTENDS Integers, Sequences, FiniteSets, SequencesExt

Num(n) == [kind |-> "Int", n |-> n]
Bool(b) == [kind |-> "Bool", b |-> b]
Char(c) == [kind |-> "Char", c |-> c]
Array(items) == [kind |-> "Array", items |-> items]
Tuple(items) == [kind |-> "Tuple", items |-> items]
Dict(keys, items) == [kind |-> "Dict", keys |-> keys, items |-> items]

(* A text is the sequence of its characters; a lambda is a name.           *)
Text(chars) == [kind |-> "String", items |-> chars]
Lambda(name) == [kind |-> "Function", name |-> name]

(* A bound that is not written.                                            *)
Absent == [kind |-> "Absent"]

(* A step of a path that is a range of positions.                          *)
Span(from, to) == [kind |-> "Range", from |-> from, to |-> to]

Ok(v) == [got |-> v]
Fail(family) == [failed |-> family]
Failed(r) == "failed" \in DOMAIN r

Listed(v) == v.kind \in {"Array", "Tuple"}
Sized(v) == v.kind \in {"Array", "Tuple", "Dict", "String"}
Size(v) == Len(v.items)

(* What may be put into a text, and its characters.                        *)
Piece(v) == v.kind \in {"Char", "String"}
CharsOf(v) == IF v.kind = "Char" THEN <<v>> ELSE v.items

Holding(v, items) == [v EXCEPT !.items = items]

(* Where a 1-based position, or one from the end, points; 0 is nowhere.    *)
At(n, len) == IF n < 0 THEN len + n + 1 ELSE n
Inside(n, len) == At(n, len) \in 1 .. len

Cut(s, from, to) == SubSeq(s, 1, from - 1) \o SubSeq(s, to + 1, Len(s))
Without(v, i) ==
  IF v.kind = "Dict"
  THEN [v EXCEPT !.keys = RemoveAt(@, i), !.items = RemoveAt(@, i)]
  ELSE Holding(v, RemoveAt(v.items, i))

(* The positions a text is found at in another, overlapping or not.        *)
FoundAt(s, p) == {i \in 1 .. Len(s) - Len(p) + 1 : SubSeq(s, i, i + Len(p) - 1) = p}

(* str::replace with nothing: left to right, never overlapping.            *)
RECURSIVE Erased(_, _)
Erased(s, p) ==
  IF Len(p) > Len(s) THEN s
  ELSE IF SubSeq(s, 1, Len(p)) = p THEN Erased(SubSeq(s, Len(p) + 1, Len(s)), p)
  ELSE <<Head(s)>> \o Erased(Tail(s), p)

Least(S) == CHOOSE i \in S : \A j \in S : i <= j
Ascending(S) == SetToSortSeq(S, <)
Nums(s) == [i \in DOMAIN s |-> Num(s[i])]

(* The order of a sort with no comparator: values that cannot be compared  *)
(* are equal in it.                                                        *)
NaturallyLess(a, b) == a.kind = "Int" /\ b.kind = "Int" /\ a.n < b.n

(* Position of a key in a dictionary, 0 when it is not there.              *)
KeyAt(d, key) == LET S == {i \in DOMAIN d.keys : d.keys[i] = key}
                 IN  IF S = {} THEN 0 ELSE Least(S)

(***************************************************************************)
(* What a lambda answers, by name: the lambdas of the instances.           *)
(***************************************************************************)
Ordered(fn, m, n) ==
  CASE fn.name = "less" -> m < n
    [] fn.name = "lessOrEqual" -> m <= n
    [] fn.name = "byHalf" -> m \div 2 < n \div 2

Says(fn, a, b) ==
  CASE fn.name \in {"same", "first"} -> Ok(a)
    [] fn.name = "one" -> Ok(Num(1))
    [] fn.name = "twice" -> Ok(IF Piece(a) THEN Text(CharsOf(a) \o CharsOf(a)) ELSE a)
    [] fn.name = "isInt" -> Ok(Bool(a.kind = "Int"))
    [] fn.name = "pair" -> Ok(Array(<<a, b>>))
    [] fn.name = "fails" -> Fail("Div")
    [] OTHER -> IF a.kind = "Int" /\ b.kind = "Int" THEN Ok(Bool(Ordered(fn, a.n, b.n)))
                ELSE Fail("Type")

Apply(fn, args) == Says(fn, args[1], args[Len(args)])

(* A comparator's answer, which has to be a Bool.                          *)
AsBool(said) == IF Failed(said) \/ said.got.kind = "Bool" THEN said ELSE Fail("Type")

Params(fn) ==
  IF fn.name \in {"pair", "less", "lessOrEqual", "byHalf", "first"} THEN 2 ELSE 1

=============================================================================
