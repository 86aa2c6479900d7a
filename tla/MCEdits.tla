------------------------------ MODULE MCEdits ------------------------------
(***************************************************************************)
(* Instances of Edits: a first turn of every operator on every seed, then  *)
(* a second of a few edits and reads of what the first one left.           *)
(***************************************************************************)
EXTENDS Edits

Ints(S) == {Num(n) : n \in S}
a == Char("a")
b == Char("b")
ab == Text(<<a, b>>)
k == Text(<<Char("k")>>)
k2 == Text(<<Char("m")>>)
Ns(s) == Array(Nums(s))

MCSeeds ==
  { Ns(<<1, 2, 3>>), Ns(<<>>), Ns(<<3, 2, 1, 2>>), Array(<<Ns(<<1, 2>>), Ns(<<3, 4>>)>>),
    Tuple(Nums(<<1, 2, 2>>)), Dict(<<k, k2>>, Nums(<<1, 2>>)),
    Dict(<<k>>, <<Ns(<<2, 1>>)>>), Text(<<a, b, a>>), Text(<<>>),
    Array(<<Text(<<a>>), Tuple(Nums(<<1, 2>>))>>), Num(5) }

Stmt(form, name, args, flag, at) ==
  [form |-> form, name |-> name, args |-> args, flag |-> flag, at |-> at]

On(forms, names, argss, flags) ==
  {Stmt(form, name, args, flag, <<>>) :
     form \in forms, name \in names, args \in argss, flag \in flags}

Lits(s) == [i \in DOMAIN s |-> Literal(s[i])]
One(S) == {<<Literal(v)>> : v \in S}
Two(S, R) == {<<Literal(v), Literal(w)>> : v \in S, w \in R}

Elements == Ints({1, 2}) \union {a, ab, Text(<<>>), Bool(TRUE)}
Indices == Ints({-4, -1, 0, 1, 3, 4}) \union {k, Bool(TRUE)}
Bounds == Ints({-2, 0, 1, 3, 4}) \union {Absent, a}
Lambdas == {Lambda("same"), Lambda("one"), Lambda("twice"), Lambda("isInt"), Lambda("fails")}
Folds2 == {Lambda("pair"), Lambda("same"), Lambda("fails")}
Comparators == {Lambda("less"), Lambda("lessOrEqual"), Lambda("byHalf"), Lambda("first"), Absent}

Paths == {Nums(<<1, 2>>), Nums(<<2, -1>>), Nums(<<3, 1>>), <<k, Num(1)>>, <<Num(1)>>, <<k2>>, <<k2, Num(1)>>}
Ranged == {<<Span(Num(1), Num(2))>>, <<Span(Num(2), Num(1)), Num(1)>>, <<Num(1), Span(Num(1), Num(3))>>,
           <<Span(Num(0), Num(1))>>, <<Span(Num(1), a)>>, <<k, Span(Num(2), Num(2))>>}
(* `[a..b]`, either bound left out, and `[a:n]`, whose count is written.   *)
Ranges(forms, name) ==
  On(forms, {name}, Two(Bounds, Bounds), {FALSE})
    \union On(forms, {name}, Two(Bounds, Bounds \ {Absent}), {TRUE})

PathValue(path) == [kind |-> "Path", items |-> path]

Forms == {"bare", "self", "other"}

Consults ==
  On({"other"}, {"length"}, {<<>>}, {FALSE})
    \union On({"other"}, {"contains", "findAll"}, One(Elements \union {k}), {FALSE})
    \union Ranges({"other"}, "slice")
    \union On({"other"}, {"index"}, One(Indices), {FALSE})
    \union On({"other"}, {"nav"}, {Lits(p) : p \in Paths}, {FALSE})
    \union On({"other"}, {"flat"}, One({PathValue(p) : p \in Paths \union Ranged}), {FALSE})
    \union On({"other"}, {"flat"}, {<<Literal(PathValue(<<Num(2)>>)), Literal(PathValue(p))>> : p \in Ranged}, {FALSE})
    \union On({"other"}, {"structured"}, One({PathValue(<<PathValue(p), PathValue(<<Num(1)>>)>>) : p \in Ranged}), {FALSE})
    \union On({"other"}, {"map", "filter"}, One(Lambdas \union {Num(1)}), {FALSE})
    \union On({"other"}, {"reduce"}, Two({Num(0), Text(<<>>)}, Folds2 \union {Num(1)}), {FALSE})

EditsOf(forms) ==
  On(forms, {"append", "removeValue", "removeAll"}, One(Elements), {FALSE})
    \union On(forms, {"concatBuild"}, {<<>>, <<Literal(a)>>, <<Literal(ab), Literal(a)>>}, {FALSE})
    \union On(forms, {"removeAt"}, One(Indices), {FALSE})
    \union On(forms, {"insert"}, Two(Indices, {a, Num(7)}), {FALSE})
    \union On(forms, {"sort"}, One(Comparators), BOOLEAN)
    \union On(forms, {"update"}, Two(Indices, {ab, Num(7)}), {FALSE})
    \union On(forms, {"update"}, {Lits(p \o <<Num(7)>>) : p \in Paths}, {TRUE})

(* A removal of a range, as the statement and on another name.             *)
Removals == Ranges({"bare", "other"}, "removeRange")

(* A call that writes x, one that leaves it, one that writes and fails.    *)
Calls ==
  {Call(<<Ns(<<9>>)>>, Ok(Num(1))), Call(<<>>, Ok(Num(1))), Call(<<Text(<<b>>)>>, Ok(a)),
   Call(<<Ns(<<9>>)>>, Fail("Div"))}

WithCalls ==
  On(Forms, {"append", "concatBuild", "removeAt", "removeValue", "removeAll"},
     {<<c>> : c \in Calls}, {FALSE})
    \union On(Forms, {"insert"}, {<<c, Literal(a)>> : c \in Calls}, {FALSE})
    \union On(Forms, {"insert", "update"}, {<<Literal(Num(1)), c>> : c \in Calls}, {FALSE})
    \union On(Forms, {"update"}, {<<c, Literal(Num(7))>> : c \in Calls}, {FALSE})
    \union On(Forms, {"update"}, {<<Literal(Num(2)), Literal(Num(1)), c>> : c \in Calls}, {TRUE})
    \union On({"bare", "other"}, {"removeRange", "slice"},
              {<<c, Literal(Num(2))>> : c \in {d \in Calls : d.says # Ok(a)}}, {FALSE})

AtPath ==
  {Stmt("bare", name, args, FALSE, at) :
     name \in {"append", "removeAt", "removeValue", "concatBuild"},
     args \in One({Num(1), a}) \union {<<c>> : c \in Calls},
     at \in {<<k>>, <<Num(1)>>, Nums(<<2, 1>>), <<k2>>}}
    \union {Stmt("bare", "sort", <<Literal(Absent)>>, TRUE, at) : at \in {<<k>>, <<Num(1)>>}}

Again ==
  On({"bare"}, {"append", "removeValue"}, One({Num(2), a}), {FALSE})
    \union On({"bare"}, {"update"}, {<<Literal(Num(1)), Literal(Num(8))>>,
                                     <<Literal(k), Call(<<Ns(<<9>>)>>, Ok(Num(3)))>>}, {FALSE})
    \union On({"other"}, {"slice"}, {<<Literal(Num(-1)), Literal(Num(1))>>}, {FALSE})
    \union On({"self"}, {"sort"}, {<<Literal(Lambda("byHalf"))>>}, {TRUE})

MCTurns == <<Consults \union EditsOf(Forms) \union Removals \union WithCalls \union AtPath, Again>>

(* Statements with two things wrong, or one the engines classify apart.    *)
MCTwoWrong ==
  <<On({"other"}, {"update"}, Two(Indices, {ab, Num(7)}), {FALSE})
      \union On({"other"}, {"append", "removeAt"}, One(Indices), {FALSE})>>

=============================================================================
