------------------------------- MODULE Parser -------------------------------
(* zymbol-parser: tokens to a tree, by recursive descent.                   *)
(*                                                                          *)
(* A token is its mark or its class (t), its text when the class has more   *)
(* than one (v), and the source line it starts on: the parser looks at      *)
(* lines and at nothing else of a token's place.  A node is its kind (k), a *)
(* name, an operator or a spelling (a), marks (m), its parts (es) and the   *)
(* lines of its span.                                                       *)
(*                                                                          *)
(* One operator per function of the parser.  They call one another through  *)
(* Parse, which names them; `left` is what a function that continues an     *)
(* expression continues.  A result is accepted with its node and the next   *)
(* token, or refused at the token it stands on; errs counts the diagnostics *)
(* that the blocks inside it recovered from.                                *)
EXTENDS Naturals, Sequences, FiniteSets

Token(t, v, line) == [t |-> t, v |-> v, line |-> line]

Eof(line) == Token("eof", "", line)

Marked(k, a, m, es, from, to) ==
    [k |-> k, a |-> a, m |-> m, es |-> es, from |-> from, to |-> to]

Node(k, a, es, from, to) == Marked(k, a, {}, es, from, to)

\* A part that was left out.
None == Node("none", "", <<>>, 0, 0)

Literals == {"int", "float", "string", "interp", "char", "bool", "unit"}

\* What `x += e` and its like stand for.
Compound == [o \in {"+=", "-=", "*=", "/=", "%=", "^="} |->
               CASE o = "+=" -> "+" [] o = "-=" -> "-" [] o = "*=" -> "*"
                 [] o = "/=" -> "/" [] o = "%=" -> "%" [] o = "^=" -> "^"]

\* The tree without its lines: what two sources have in common when they say
\* the same.
RECURSIVE Bare(_)
Bare(n) == <<n.k, n.a, n.m, [i \in 1 .. Len(n.es) |-> Bare(n.es[i])]>>

RECURSIVE unwrap_group(_)
unwrap_group(n) == IF n.k = "group" THEN unwrap_group(n.es[1]) ELSE n

-----------------------------------------------------------------------------
(* Results, and moving over tokens.                                          *)

Accepted(n, at) == [ok |-> TRUE, n |-> n, at |-> at, errs |-> 0]

Refused(at) == [ok |-> FALSE, n |-> None, at |-> at, errs |-> 0]

Counting(r, errs) == [r EXCEPT !.errs = @ + errs]

Then(r, F(_)) == IF r.ok THEN Counting(F(r), r.errs) ELSE r

Kind(ts, i) == IF i <= Len(ts) THEN ts[i].t ELSE "eof"

Line(ts, i) == ts[IF i <= Len(ts) THEN i ELSE Len(ts)].line

Text(ts, i) == ts[i].v

Expect(ts, i, t, F(_)) == IF Kind(ts, i) = t THEN F(i + 1) ELSE Refused(i)

\* Two marks written together are on one line, which is all the model knows.
Touches(ts, i) == Line(ts, i) = Line(ts, i - 1)

Advanced(ts, i) == IF Kind(ts, i) = "eof" THEN i ELSE i + 1

Spanning(k, a, es, n1, n2) == Node(k, a, es, n1.from, n2.to)

Plus(n, e) == [n EXCEPT !.es = Append(@, e), !.to = e.to]

\* A token that is a node by itself.
Leaf(ts, i) == Node(ts[i].t, ts[i].v, <<>>, ts[i].line, ts[i].line)

\* How many more parentheses open than close between two places.
Opened(i, j, ts) ==
    Cardinality({x \in i .. j : ts[x].t = "("}) - Cardinality({x \in i .. j : ts[x].t = ")"})

\* Past the bracket that closes the one before i.
RECURSIVE AfterClose(_, _, _, _, _)
AfterClose(i, depth, opens, close, ts) ==
    IF depth = 0 \/ Kind(ts, i) = "eof" THEN i
    ELSE AfterClose(i + 1,
                    IF ts[i].t \in opens THEN depth + 1 ELSE IF ts[i].t = close THEN depth - 1 ELSE depth,
                    opens, close, ts)

RECURSIVE Parse(_, _, _, _)

Sub(rule, i, ts) == Parse(rule, None, i, ts)

-----------------------------------------------------------------------------
(* Binary operators.  Every level but `^` is a loop to the left.            *)

OperandOf ==
    [parse_logic_or |-> "parse_logic_and", parse_logic_and |-> "parse_comparison",
     parse_comparison |-> "parse_addition", parse_addition |-> "parse_multiplication",
     parse_multiplication |-> "parse_power",
     parse_logic_or_no_comparison |-> "parse_logic_and_no_comparison",
     parse_logic_and_no_comparison |-> "parse_addition",
     parse_output_item |-> "parse_output_item_mul",
     parse_output_item_mul |-> "parse_output_item_term",
     parse_slice_bound |-> "parse_slice_bound_term",
     parse_slice_bound_term |-> "parse_slice_bound_power"]

Comparisons == {"==", "<>", "<", ">", "<=", ">="}

OperatorsOf(level) ==
    CASE level \in {"parse_logic_or", "parse_logic_or_no_comparison"} -> {"||"}
      [] level \in {"parse_logic_and", "parse_logic_and_no_comparison"} -> {"&&"}
      [] level = "parse_comparison" -> Comparisons
      [] level \in {"parse_addition", "parse_output_item", "parse_slice_bound"} -> {"+", "-"}
      [] OTHER -> {"*", "/", "%"}

LeftLevel(level, left, i, ts) ==
    IF left = None
    THEN Then(Sub(OperandOf[level], i, ts), LAMBDA l : Parse(level, l.n, l.at, ts))
    ELSE IF Kind(ts, i) \in OperatorsOf(level)
         THEN Then(Sub(OperandOf[level], i + 1, ts), LAMBDA r :
                 Parse(level, Spanning("binary", Kind(ts, i), <<left, r.n>>, left, r.n), r.at, ts))
         ELSE Accepted(left, i)

\* `^`, to the right: operand ^ (the same level again).
RightLevel(level, operand, i, ts) ==
    Then(Sub(operand, i, ts), LAMBDA l :
        IF Kind(ts, l.at) = "^"
        THEN Then(Sub(level, l.at + 1, ts), LAMBDA r :
                Accepted(Spanning("binary", "^", <<l.n, r.n>>, l.n, r.n), r.at))
        ELSE l)

\* start..end and start..end:step, the ends being postfix expressions.
parse_range(i, ts) ==
    Then(Sub("parse_postfix", i, ts), LAMBDA l :
        IF Kind(ts, l.at) # ".." THEN l
        ELSE Then(Sub("parse_postfix", l.at + 1, ts), LAMBDA r :
                IF Kind(ts, r.at) # ":"
                THEN Accepted(Spanning("range", "", <<l.n, r.n>>, l.n, r.n), r.at)
                ELSE Then(Sub("parse_postfix", r.at + 1, ts), LAMBDA s :
                        Accepted(Spanning("range", "", <<l.n, r.n, s.n>>, l.n, s.n), s.at))))

\* x |> f, x |> f(_, y).  Inside a match arm the operands take no comparison,
\* and there the closing parenthesis is taken unseen.
PipeOperand(rule) == IF rule = "parse_pipe" THEN "parse_logic_or" ELSE "parse_logic_or_no_comparison"

parse_pipe(rule, left, i, ts) ==
    IF left = None
    THEN Then(Sub(PipeOperand(rule), i, ts), LAMBDA l : Parse(rule, l.n, l.at, ts))
    ELSE IF Kind(ts, i) # "|>" THEN Accepted(left, i)
    ELSE Then(Sub("parse_postfix_without_calls", i + 1, ts), LAMBDA f :
            IF Kind(ts, f.at) # "("
            THEN Parse(rule, Spanning("pipe", "implicit", <<left, f.n, Node("_", "", <<>>, 0, 0)>>, left, f.n),
                       f.at, ts)
            ELSE Then(IF Kind(ts, f.at + 1) = ")"
                      THEN Accepted(Spanning("pipe", "", <<left, f.n>>, left, f.n), f.at + 1)
                      ELSE Parse(IF rule = "parse_pipe" THEN "pipe_arguments" ELSE "pipe_arguments_no_comparison",
                                 Spanning("pipe", "", <<left, f.n>>, left, f.n), f.at + 1, ts),
                      LAMBDA p :
                          IF Kind(ts, p.at) = ")" \/ rule # "parse_pipe"
                          THEN Parse(rule, [p.n EXCEPT !.to = Line(ts, p.at)], Advanced(ts, p.at), ts)
                          ELSE Refused(p.at)))

\* The arguments of a pipe, into the node given.
pipe_arguments(rule, left, i, ts) ==
    Then(IF Kind(ts, i) = "_"
         THEN Accepted(Node("_", "", <<>>, 0, 0), i + 1)
         ELSE Sub(IF rule = "pipe_arguments" THEN "parse_logic_or" ELSE "parse_logic_or_no_comparison", i, ts),
         LAMBDA e : IF Kind(ts, e.at) = ","
                    THEN Parse(rule, Plus(left, e.n), e.at + 1, ts)
                    ELSE Accepted(Plus(left, e.n), e.at))

-----------------------------------------------------------------------------
(* Unary operators, and the postfix, which binds tighter.                   *)

\* `!`, `-` and `+` before an operand; what a postfix is, each caller says.
parse_prefixed(rule, operand, i, ts) ==
    IF Kind(ts, i) \in {"!", "-", "+"}
    THEN Then(Sub(rule, i + 1, ts), LAMBDA r :
            Accepted(Node("unary", Kind(ts, i), <<r.n>>, Line(ts, i), r.n.to), r.at))
    ELSE Then(Sub("parse_primary_expr", i, ts), LAMBDA p :
            IF operand = "" THEN p ELSE Parse(operand, p.n, p.at, ts))

\* `m[1][2]` is not a form of the language, groups around `m[1]` included.
Chained(left) == unwrap_group(left).k \in {"index", "deep"}

parse_index(left, i, ts) ==
    IF Chained(left) THEN Refused(i)
    ELSE Parse("index_or_nav", left, i, ts)

\* left[e], the brackets holding one expression.
plain_index(left, i, ts) ==
    Then(Sub("parse_expr", i + 1, ts), LAMBDA e :
        Expect(ts, e.at, "]", LAMBDA at :
            Accepted(Node("index", "", <<left, e.n>>, left.from, Line(ts, e.at)), at)))

parse_member(left, i, ts) ==
    Expect(ts, i + 1, "ident", LAMBDA at :
        Accepted(Node("member", Text(ts, i + 1), <<left>>, left.from, Line(ts, i + 1)), at))

\* The arguments of a call after its parenthesis, and the parenthesis.  A `<~`
\* marks an argument that the call writes.  Where juxtaposition is read, an
\* argument may be several operands side by side.
call_arguments(rule, left, i, ts) ==
    IF Kind(ts, i) = ")" /\ Len(left.es) = 1
    THEN Accepted([left EXCEPT !.to = Line(ts, i)], i + 1)
    ELSE Then(Sub(IF rule = "call_arguments" THEN "parse_expr" ELSE "parse_expr_juxt", i, ts), LAMBDA e :
            Parse("after_argument",
                  Marked("call", rule,
                         IF Kind(ts, e.at) = "<~" THEN left.m \union {Len(left.es)} ELSE left.m,
                         Append(left.es, e.n), left.from, left.to),
                  IF Kind(ts, e.at) = "<~" THEN e.at + 1 ELSE e.at, ts))

after_argument(left, i, ts) ==
    IF Kind(ts, i) = ","
    THEN Parse(left.a, [left EXCEPT !.a = ""], i + 1, ts)
    ELSE Expect(ts, i, ")", LAMBDA at : Accepted([left EXCEPT !.a = "", !.to = Line(ts, i)], at))

Called(rule, left, i, ts) == Parse(rule, Node("call", "", <<left>>, left.from, left.to), i + 1, ts)

IsLiteral(n) == unwrap_group(n).k \in Literals

\* A `[` indexes, and a `(` calls, what ends on its line: on a line of its
\* own it begins a statement.  A literal is never called.
Indexes(left, i, ts) == Kind(ts, i) = "[" /\ Line(ts, i) = left.to

Calls(left, i, ts) == Kind(ts, i) = "(" /\ Line(ts, i) = left.to /\ ~IsLiteral(left)

\* One index, member or call.
Structural(rule, left, i, ts) ==
    CASE Kind(ts, i) = "[" -> parse_index(left, i, ts)
      [] Kind(ts, i) = "." -> parse_member(left, i, ts)
      [] OTHER -> Called(rule, left, i, ts)

parse_structural_ops(left, i, ts) ==
    IF Indexes(left, i, ts) \/ Kind(ts, i) = "." \/ Calls(left, i, ts)
    THEN Then(Structural("call_arguments", left, i, ts), LAMBDA r :
            Parse("parse_structural_ops", r.n, r.at, ts))
    ELSE Accepted(left, i)

\* The operators that follow what they apply to.
Operators == {"$#", "$+", "$+[", "$-", "$-[", "$?", "$??", "$++", "$--", "$~~", "$/", "$*", "$~",
              "$[", "$>", "$|", "$<", "$^+", "$^-", "$^", "#?", "$!", "$!!"}

\* Indexes, members and calls first, then operators; after operators only a
\* call goes on.
parse_postfix_ops(left, i, ts) ==
    IF Indexes(left, i, ts) \/ Kind(ts, i) = "." \/ Calls(left, i, ts)
    THEN Then(Structural("call_arguments_juxt", left, i, ts), LAMBDA r :
            Parse("parse_postfix_ops", r.n, r.at, ts))
    ELSE Parse("operators", left, i, ts)

operators(left, i, ts) ==
    IF Kind(ts, i) \in Operators
    THEN Then(Parse("operator", left, i, ts), LAMBDA r : Parse("operators", r.n, r.at, ts))
    ELSE IF Calls(left, i, ts)
         THEN Parse("parse_postfix_ops", left, i, ts)
         ELSE Accepted(left, i)

\* In `>>` the postfix of an item stays on the line where the item BEGINS, and
\* its calls do not read juxtaposition.
parse_output_item_postfix(left, i, ts) ==
    CASE Line(ts, i) # left.from -> Accepted(left, i)
      [] Line(ts, i) = left.from /\ (Kind(ts, i) \in {"[", "."} \/ (Kind(ts, i) = "(" /\ ~IsLiteral(left))) ->
            Then(Structural("call_arguments", left, i, ts), LAMBDA r :
                Parse("parse_output_item_postfix", r.n, r.at, ts))
      [] Line(ts, i) = left.from /\ Kind(ts, i) \in Operators ->
            Then(Parse("operator", left, i, ts), LAMBDA r :
                Parse("parse_output_item_postfix", r.n, r.at, ts))
      [] OTHER -> Accepted(left, i)

\* What a pipe calls: nothing in it is called, and it inserts, removes and
\* sorts nothing.
UncalledOperators == Operators \ {"$+[", "$-[", "$^+", "$^-", "$^"}

\* `() ->`, `(a, b) ->` and `(a ->`.
is_lambda_start(i, ts) ==
    /\ Kind(ts, i) = "("
    /\ \/ Kind(ts, i + 1) = ")" /\ Kind(ts, i + 2) = "->"
       \/ \E j \in i + 1 .. Len(ts) :
             /\ \A x \in i + 1 .. j : ts[x].t = (IF (x - i) % 2 = 1 THEN "ident" ELSE ",")
             /\ ts[j].t = "ident"
             /\ Kind(ts, j + 1) = "->" \/ (Kind(ts, j + 1) = ")" /\ Kind(ts, j + 2) = "->")

callable(i, ts) ==
    CASE Kind(ts, i) = "(" /\ ~is_lambda_start(i, ts) ->
            Then(Sub("parse_expr", i + 1, ts), LAMBDA e :
                Expect(ts, e.at, ")", LAMBDA at :
                    Accepted(Node("group", "", <<e.n>>, Line(ts, i), Line(ts, e.at)), at)))
      [] Kind(ts, i) = "ident" /\ Kind(ts, i + 1) # "->" -> Accepted(Leaf(ts, i), i + 1)
      [] OTHER -> Sub("parse_prefixed_primary", i, ts)

parse_postfix_without_calls(left, i, ts) ==
    IF left = None
    THEN Then(callable(i, ts), LAMBDA p : Parse("parse_postfix_without_calls", p.n, p.at, ts))
    ELSE IF Indexes(left, i, ts) \/ Kind(ts, i) = "." \/ Kind(ts, i) \in UncalledOperators
         THEN Then(IF Kind(ts, i) \in Operators
                   THEN Parse("operator", left, i, ts)
                   ELSE Structural("", left, i, ts),
                   LAMBDA r : Parse("parse_postfix_without_calls", r.n, r.at, ts))
         ELSE Accepted(left, i)

-----------------------------------------------------------------------------
(* `[` after an expression: one index, or a path through nested ones.       *)

PathMarks == {">", ";", ".."}

\* A parenthesized step, and `>` after it: `m[(i)>(j)]`.
scan_nav_gt_after_paren(i, ts) ==
    \E j \in i + 1 .. Len(ts) :
        /\ ts[j].t = ")" /\ Kind(ts, j + 1) = ">"
        /\ Opened(i + 1, j, ts) = 0
        /\ \A x \in i + 1 .. j : ts[x].t # "]" /\ (x < j => Opened(i + 1, x, ts) >= 0)

is_nav_index(i, ts) ==
    \/ Kind(ts, i + 1) = "["
    \/ Kind(ts, i + 1) \in {"int", "ident", "string"} /\ Kind(ts, i + 2) \in PathMarks
    \/ Kind(ts, i + 1) = "-" /\ Kind(ts, i + 2) = "int" /\ Kind(ts, i + 3) \in PathMarks
    \/ Kind(ts, i + 1) = "(" /\ scan_nav_gt_after_paren(i, ts)

parse_nav_atom(i, ts) ==
    CASE Kind(ts, i) = "-" -> Expect(ts, i + 1, "int", LAMBDA at :
            Accepted(Node("negative", "", <<Leaf(ts, i + 1)>>, Line(ts, i), Line(ts, i + 1)), at))
      [] Kind(ts, i) \in {"int", "ident", "string"} -> Accepted(Leaf(ts, i), i + 1)
      [] Kind(ts, i) = "(" -> Then(Sub("parse_expr", i + 1, ts), LAMBDA e :
            Expect(ts, e.at, ")", LAMBDA at :
                Accepted(Node("group", "", <<e.n>>, Line(ts, i), Line(ts, e.at)), at)))
      [] OTHER -> Refused(i)

parse_nav_step(i, ts) ==
    Then(parse_nav_atom(i, ts), LAMBDA a :
        IF Kind(ts, a.at) # ".."
        THEN Accepted(Node("step", "", <<a.n>>, a.n.from, a.n.to), a.at)
        ELSE Then(parse_nav_atom(a.at + 1, ts), LAMBDA b :
                Accepted(Spanning("step", "", <<a.n, b.n>>, a.n, b.n), b.at)))

\* step > step > ..., into the path given.
parse_nav_path(left, i, ts) ==
    Then(parse_nav_step(i, ts), LAMBDA s :
        IF Kind(ts, s.at) = ">"
        THEN Parse("parse_nav_path", Plus(left, s.n), s.at + 1, ts)
        ELSE Accepted(Plus(left, s.n), s.at))

EmptyPath == Node("path", "", <<>>, 0, 0)

\* Paths between `separator`s, into the node given.
paths(rule, left, i, ts) ==
    Then(Parse("parse_nav_path", EmptyPath, i, ts), LAMBDA p :
        IF Kind(ts, p.at) = (IF rule = "group_paths" THEN "," ELSE ";")
        THEN Parse(rule, Plus(left, p.n), p.at + 1, ts)
        ELSE Accepted(Plus(left, p.n), p.at))

parse_extract_group(i, ts) ==
    Then(Parse("group_paths", Node("bundle", "", <<>>, Line(ts, i), 0), i + 1, ts), LAMBDA g :
        Expect(ts, g.at, "]", LAMBDA at : Accepted(g.n, at)))

\* m[[p, q]] takes the places out flat; m[[p] ; [q]] keeps the groups.
parse_double_bracket_extract(left, i, ts) ==
    Then(Sub("parse_extract_group", i, ts), LAMBDA g :
        IF Kind(ts, g.at) = "]"
        THEN Accepted(Node("flat", "[[", <<left>> \o g.n.es, left.from, Line(ts, g.at)), g.at + 1)
        ELSE Parse("more_groups", Node("structured", "", <<left, g.n>>, left.from, 0), g.at, ts))

more_groups(left, i, ts) ==
    IF Kind(ts, i) = ";"
    THEN Then(Sub("parse_extract_group", i + 1, ts), LAMBDA g : Parse("more_groups", Plus(left, g.n), g.at, ts))
    ELSE Expect(ts, i, "]", LAMBDA at : Accepted([left EXCEPT !.to = Line(ts, i)], at))

Ranged(path) == \E s \in 1 .. Len(path.es) : Len(path.es[s].es) = 2

\* Steps of a path of several are written with their own parentheses.
Stepped(path) ==
    IF Len(path.es) > 1
    THEN [path EXCEPT !.es = [s \in DOMAIN path.es |-> [path.es[s] EXCEPT !.a = "multi"]]]
    ELSE path

\* One plain step is an index; several, none a range, reach one place; the
\* rest takes several places out.
Reached(left, ps, to) ==
    CASE Len(ps) = 1 /\ Len(ps[1].es) = 1 /\ ~Ranged(ps[1]) ->
            Node("index", "", <<left, ps[1].es[1].es[1]>>, left.from, to)
      [] Len(ps) = 1 /\ Len(ps[1].es) > 1 /\ ~Ranged(ps[1]) ->
            Node("deep", "", <<left, Stepped(ps[1])>>, left.from, to)
      [] OTHER ->
            Node("flat", "", <<left>> \o [p \in DOMAIN ps |-> Stepped(ps[p])], left.from, to)

parse_single_bracket_nav(left, i, ts) ==
    Then(Parse("flat_paths", EmptyPath, i, ts), LAMBDA p :
        Expect(ts, p.at, "]", LAMBDA at : Accepted(Reached(left, p.n.es, Line(ts, p.at)), at)))

parse_nav_index(left, i, ts) ==
    IF Kind(ts, i + 1) = "["
    THEN parse_double_bracket_extract(left, i + 1, ts)
    ELSE parse_single_bracket_nav(left, i + 1, ts)

index_or_nav(left, i, ts) ==
    IF is_nav_index(i, ts) THEN parse_nav_index(left, i, ts) ELSE plain_index(left, i, ts)

-----------------------------------------------------------------------------
(* Operators after what they apply to: `left` is what, i the operator.      *)

Applied(ts, i, es, to) == Node("op", Kind(ts, i), es, es[1].from, to)

\* An operator and one operand; the operand is a postfix expression.
parse_operand(rule, left, i, ts) ==
    Then(Sub(rule, i + 1, ts), LAMBDA e : Accepted(Applied(ts, i, <<left, e.n>>, e.n.to), e.at))

Alone(left, i, ts) == Accepted(Applied(ts, i, <<left>>, Line(ts, i)), i + 1)

\* Nothing is indexed or called on the line of an operator without operand.
refuse_after_operandless(left, i, ts) ==
    IF Kind(ts, i + 1) \in {"[", "("} /\ Line(ts, i + 1) = Line(ts, i)
    THEN Refused(i + 1)
    ELSE Alone(left, i, ts)

\* The form that `$--[position:count]` had is named and refused.
parse_collection_remove_all(left, i, ts) ==
    IF Kind(ts, i + 1) = "[" THEN Refused(i + 1) ELSE parse_operand("parse_postfix", left, i, ts)

parse_collection_insert(left, i, ts) ==
    Then(Sub("parse_expr", i + 1, ts), LAMBDA e :
        Expect(ts, e.at, "]", LAMBDA at :
            Then(Sub("parse_postfix", at, ts), LAMBDA v :
                Accepted(Applied(ts, i, <<left, e.n, v.n>>, v.n.to), v.at))))

\* The end of a range in brackets, when it has one, and the bracket.
to_bracket(left, i, start, at, ts) ==
    Then(IF Kind(ts, at) = "]" THEN Accepted(None, at) ELSE Sub("parse_slice_bound", at, ts), LAMBDA e :
        Expect(ts, e.at, "]", LAMBDA after :
            Accepted(Applied(ts, i, <<left, start, e.n>>, Line(ts, e.at)), after)))

counted(left, i, start, at, ts) ==
    Then(Sub("parse_slice_bound", at, ts), LAMBDA e :
        Expect(ts, e.at, "]", LAMBDA after :
            Accepted([Applied(ts, i, <<left, start, e.n>>, Line(ts, e.at)) EXCEPT !.m = {"count"}], after)))

\* $[a..b], $[..b], $[a..], $[a:n]
parse_collection_slice(left, i, ts) ==
    IF Kind(ts, i + 1) = ".."
    THEN to_bracket(left, i, None, i + 2, ts)
    ELSE Then(Sub("parse_slice_bound", i + 1, ts), LAMBDA s :
            CASE Kind(ts, s.at) = ":" -> counted(left, i, s.n, s.at + 1, ts)
              [] Kind(ts, s.at) = ".." -> to_bracket(left, i, s.n, s.at + 1, ts)
              [] OTHER -> Refused(s.at))

\* $-[i] and the ranges of a slice.
parse_collection_remove_positional(left, i, ts) ==
    IF Kind(ts, i + 1) = ".."
    THEN to_bracket(left, i, None, i + 2, ts)
    ELSE Then(Sub("parse_slice_bound", i + 1, ts), LAMBDA s :
            CASE Kind(ts, s.at) = ":" -> counted(left, i, s.n, s.at + 1, ts)
              [] Kind(ts, s.at) = ".." -> to_bracket(left, i, s.n, s.at + 1, ts)
              [] Kind(ts, s.at) = "]" ->
                    Accepted(Applied(ts, i, <<left, s.n>>, Line(ts, s.at)), s.at + 1)
              [] OTHER -> Refused(s.at))

\* `$~` writes to a place: an index, a path or a member.
parse_collection_update(left, i, ts) ==
    IF unwrap_group(left).k \in {"index", "deep", "member"}
    THEN parse_operand("parse_expr_juxt", left, i, ts)
    ELSE Refused(i)

parse_lambda_or_ident(i, ts) ==
    IF Kind(ts, i) = "ident" /\ Kind(ts, i + 1) # "->"
    THEN Accepted(Leaf(ts, i), i + 1)
    ELSE Sub("parse_lambda", i, ts)

parse_collection_reduce(left, i, ts) ==
    Expect(ts, i + 1, "(", LAMBDA a :
        Then(Sub("parse_expr", a, ts), LAMBDA e :
            Expect(ts, e.at, ",", LAMBDA b :
                Then(parse_lambda_or_ident(b, ts), LAMBDA f :
                    Expect(ts, f.at, ")", LAMBDA at :
                        Accepted(Applied(ts, i, <<left, e.n, f.n>>, Line(ts, f.at)), at))))))

parse_collection_sort_custom(left, i, ts) ==
    Expect(ts, i + 1, "(", LAMBDA a : parse_operand("parse_lambda", left, i, ts))

\* $~~[pattern:replacement] and $~~[pattern:replacement:count]
parse_string_replace(left, i, ts) ==
    Expect(ts, i + 1, "[", LAMBDA a :
        Then(Sub("parse_expr", a, ts), LAMBDA p :
            Expect(ts, p.at, ":", LAMBDA b :
                Then(Sub("parse_expr", b, ts), LAMBDA r :
                    Then(IF Kind(ts, r.at) = ":" THEN Sub("parse_expr", r.at + 1, ts) ELSE Accepted(None, r.at),
                         LAMBDA c :
                             Expect(ts, c.at, "]", LAMBDA at :
                                 Accepted(Applied(ts, i, <<left, p.n, r.n>>
                                                           \o (IF c.n = None THEN <<>> ELSE <<c.n>>),
                                                  Line(ts, c.at)), at)))))))

\* What may stand beside an operand, on its line, and be joined to it.
can_juxtapose(kind) ==
    kind \in {"string", "interp", "char", "int", "float", "bool", "ident", "hot", "##.", "###", "##!",
              "##'", "#|", "#.", "#!", "#,", "#^", "0b", "0o", "0d", "0x", "!"}

\* base$++ item item ...: the items on the operator's line.  `left` already is
\* the operator; its line, like its base, is in it.
parse_string_insert(left, i, ts) ==
    IF (can_juxtapose(Kind(ts, i)) \/ Kind(ts, i) = "(") /\ ts[i].line \in left.m
    THEN Then(Sub("parse_postfix", i, ts), LAMBDA e : Parse("parse_string_insert", Plus(left, e.n), e.at, ts))
    ELSE IF Len(left.es) = 1 /\ Kind(ts, i) = "[" /\ ts[i].line \in left.m
         THEN Refused(i)
         ELSE Accepted([left EXCEPT !.m = {}], i)

operator(left, i, ts) ==
    CASE Kind(ts, i) \in {"$#", "$^+", "$^-"} -> refuse_after_operandless(left, i, ts)
      [] Kind(ts, i) \in {"#?", "$!", "$!!"} -> Alone(left, i, ts)
      [] Kind(ts, i) = "$+" -> parse_operand("parse_postfix_structural", left, i, ts)
      [] Kind(ts, i) \in {"$-", "$?", "$??", "$/", "$*"} -> parse_operand("parse_postfix", left, i, ts)
      [] Kind(ts, i) = "$--" -> parse_collection_remove_all(left, i, ts)
      [] Kind(ts, i) = "$+[" -> parse_collection_insert(left, i, ts)
      [] Kind(ts, i) = "$[" -> parse_collection_slice(left, i, ts)
      [] Kind(ts, i) = "$-[" -> parse_collection_remove_positional(left, i, ts)
      [] Kind(ts, i) = "$~" -> parse_collection_update(left, i, ts)
      [] Kind(ts, i) \in {"$>", "$|"} -> parse_operand("parse_lambda_or_ident", left, i, ts)
      [] Kind(ts, i) = "$<" -> parse_collection_reduce(left, i, ts)
      [] Kind(ts, i) = "$^" -> parse_collection_sort_custom(left, i, ts)
      [] Kind(ts, i) = "$~~" -> parse_string_replace(left, i, ts)
      [] Kind(ts, i) = "$++" ->
            Parse("parse_string_insert",
                  Marked("op", "$++", {Line(ts, i)}, <<left>>, left.from, Line(ts, i)), i + 1, ts)

\* An expression and what stands beside it.
juxtapose(rule, left, i, ts) ==
    IF /\ Line(ts, i) = left.to
       /\ \/ can_juxtapose(Kind(ts, i))
          \/ rule = "juxtapose_lparen" /\ Kind(ts, i) = "(" /\ (IsLiteral(left) \/ unwrap_group(left).k = "binary")
    THEN Then(Sub("parse_expr", i, ts), LAMBDA e :
            Parse(rule, Spanning("binary", "juxt", <<left, e.n>>, left, e.n), e.at, ts))
    ELSE Accepted(left, i)

\* The right side of an assignment, of a constant, of a return.
parse_juxtapose_chain(i, ts) ==
    Then(Sub("parse_expr", i, ts), LAMBDA e : Parse("juxtapose_lparen", e.n, e.at, ts))

parse_expr_juxt(i, ts) == Then(Sub("parse_expr", i, ts), LAMBDA e : Parse("juxtapose", e.n, e.at, ts))

-----------------------------------------------------------------------------
(* Literals, names, and what is written between marks of its own.           *)

\* name, name(...), module::name(...)
parse_name(i, ts) ==
    CASE Kind(ts, i + 1) = "->" -> Sub("parse_lambda", i, ts)
      [] Kind(ts, i + 1) = "::" ->
            Expect(ts, i + 2, "ident", LAMBDA a :
                Expect(ts, a, "(", LAMBDA b :
                    Called("call_arguments_juxt",
                           Node("scope", Text(ts, i + 2), <<Leaf(ts, i)>>, Line(ts, i), Line(ts, i + 2)), a, ts)))
      [] Kind(ts, i + 1) = "(" /\ Line(ts, i + 1) = Line(ts, i) ->
            Called("call_arguments_juxt", Leaf(ts, i), i + 1, ts)
      [] OTHER -> Accepted(Leaf(ts, i), i + 1)

\* The elements of a list, into `left`, and the mark that closes it.  A comma
\* may stand before that mark.
ElementOf(rule) == IF rule = "pattern_elements" THEN "parse_pattern_primary" ELSE "parse_expr_juxt"

Closing(rule) == IF rule = "tuple_elements" THEN ")" ELSE "]"

elements(rule, left, i, ts) ==
    Then(Sub(ElementOf(rule), i, ts), LAMBDA e :
        IF Kind(ts, e.at) = "," /\ Kind(ts, e.at + 1) # Closing(rule)
        THEN Parse(rule, Plus(left, e.n), e.at + 1, ts)
        ELSE Parse("closed", Marked(left.k, left.a, {rule}, Append(left.es, e.n), left.from, 0),
                   IF Kind(ts, e.at) = "," THEN e.at + 1 ELSE e.at, ts))

closed(left, i, ts) ==
    Expect(ts, i, Closing(CHOOSE rule \in left.m : TRUE), LAMBDA at :
        Accepted([left EXCEPT !.m = {}, !.to = Line(ts, i)], at))

parse_array_literal(a, i, ts) ==
    IF Kind(ts, i + 1) = "]"
    THEN Accepted(Node("array", a, <<>>, Line(ts, i), Line(ts, i + 1)), i + 2)
    ELSE Parse("array_elements", Node("array", a, <<>>, Line(ts, i), 0), i + 1, ts)

parse_mixed_array_literal(i, ts) ==
    Then(parse_array_literal("#", i + 1, ts), LAMBDA a : Accepted([a.n EXCEPT !.from = Line(ts, i)], a.at))

\* (e) is a group, (e,) and (e, f) are tuples; a dictionary without its mark
\* is refused.
parse_tuple_or_grouped(i, ts) ==
    IF Kind(ts, i + 1) = "ident" /\ Kind(ts, i + 2) = ":" THEN Refused(i + 1)
    ELSE Then(Sub("parse_expr_juxt", i + 1, ts), LAMBDA e :
            CASE Kind(ts, e.at) = "," /\ Kind(ts, e.at + 1) = ")" ->
                    Accepted(Node("tuple", "", <<e.n>>, Line(ts, i), Line(ts, e.at + 1)), e.at + 2)
              [] Kind(ts, e.at) = "," /\ Kind(ts, e.at + 1) # ")" ->
                    Parse("tuple_elements", Node("tuple", "", <<e.n>>, Line(ts, i), 0), e.at + 1, ts)
              [] OTHER -> Expect(ts, e.at, ")", LAMBDA at :
                    Accepted(Node("group", "", <<e.n>>, Line(ts, i), Line(ts, e.at)), at)))

Keys(n) == {n.es[f].a : f \in DOMAIN n.es}

\* #(key: value, ...), each key once; a key is a name or a string.
parse_dict_fields(left, i, ts) ==
    IF Kind(ts, i) \notin {"ident", "string"} THEN Refused(i)
    ELSE Expect(ts, i + 1, ":", LAMBDA at :
            IF Text(ts, i) \in Keys(left) THEN Refused(at)
            ELSE Then(Sub("parse_expr", at, ts), LAMBDA e :
                    Parse("after_field",
                          Plus(left, Marked("field", Text(ts, i), IF Kind(ts, i) = "ident" THEN {} ELSE {"quoted"},
                                            <<e.n>>, Line(ts, i), e.n.to)),
                          e.at, ts)))

after_field(left, i, ts) ==
    CASE Kind(ts, i) = "," /\ Kind(ts, i + 1) # ")" -> Parse("parse_dict_fields", left, i + 1, ts)
      [] Kind(ts, i) = "," /\ Kind(ts, i + 1) = ")" -> Accepted([left EXCEPT !.to = Line(ts, i + 1)], i + 2)
      [] OTHER -> Expect(ts, i, ")", LAMBDA at : Accepted([left EXCEPT !.to = Line(ts, i)], at))

parse_dict_literal(i, ts) ==
    IF Kind(ts, i + 1) = ")"
    THEN Accepted(Node("dict", "", <<>>, Line(ts, i), Line(ts, i + 1)), i + 2)
    ELSE Parse("parse_dict_fields", Node("dict", "", <<>>, Line(ts, i), 0), i + 1, ts)

IsErrorKind(i, ts) == Kind(ts, i) = "#" /\ Kind(ts, i + 1) = "#" /\ Kind(ts, i + 2) = "ident"

\* ##Kind("message")
parse_error_construct(i, ts) ==
    Expect(ts, i + 3, "(", LAMBDA a :
        IF ~(\A j \in i + 1 .. i + 3 : Touches(ts, j)) THEN Refused(i + 3) ELSE Then(Sub("parse_expr_juxt", a, ts), LAMBDA e :
            Expect(ts, e.at, ")", LAMBDA at :
                Accepted(Node("kind", Text(ts, i + 2), <<e.n>>, Line(ts, i), Line(ts, e.at)), at))))

Casts == {"##.", "###", "##!", "##'"}

Bases == {"0b", "0o", "0d", "0x"}

parse_cast(i, ts) ==
    Then(Sub("parse_postfix", i + 1, ts), LAMBDA e :
        Accepted(Node("cast", Kind(ts, i), <<e.n>>, Line(ts, i), e.n.to), e.at))

\* #|expr|
parse_numeric_eval(i, ts) ==
    Then(Sub("parse_expr", i + 1, ts), LAMBDA e :
        Expect(ts, e.at, "|", LAMBDA at :
            Accepted(Node("between", Kind(ts, i), <<e.n>>, Line(ts, i), Line(ts, e.at)), at)))

\* What stands between the bars of the format that begins at i.
between_bars(precision, i, bar, touching, ts) ==
    Expect(ts, bar, "|", LAMBDA a :
        IF touching /\ ~Touches(ts, bar) THEN Refused(bar) ELSE Then(Sub("parse_expr", a, ts), LAMBDA e :
            Expect(ts, e.at, "|", LAMBDA at :
                Accepted(Node("format", Kind(ts, i), <<precision, e.n>>, Line(ts, i), Line(ts, e.at)), at))))

IsPrecision(i, ts) == Kind(ts, i) \in {"int", "ident"} /\ Touches(ts, i)

\* #.N|e| and #!N|e|
parse_round_expr(i, ts) ==
    IF IsPrecision(i + 1, ts) THEN between_bars(Leaf(ts, i + 1), i, i + 2, TRUE, ts) ELSE Refused(i + 1)

\* #,|e|, #,.N|e|, #,!N|e| and those of #^
parse_format_expr(i, ts) ==
    CASE Kind(ts, i + 1) \in {".", "!"} /\ Touches(ts, i + 1) /\ IsPrecision(i + 2, ts) ->
            between_bars(Node("precision", Kind(ts, i + 1), <<Leaf(ts, i + 2)>>, Line(ts, i), Line(ts, i + 2)),
                         i, i + 3, TRUE, ts)
      [] Kind(ts, i + 1) \in {".", "!"} /\ Touches(ts, i + 1) /\ ~IsPrecision(i + 2, ts) -> Refused(i + 2)
      [] OTHER -> between_bars(None, i, i + 1, TRUE, ts)

\* <\ e e ... \>
parse_bash_exec_expr(left, i, ts) ==
    CASE Kind(ts, i) = "\\>" -> Accepted([left EXCEPT !.to = Line(ts, i)], i + 1)
      [] Kind(ts, i) = "eof" -> Refused(i)
      [] OTHER -> Then(Sub("parse_expr", i, ts), LAMBDA e : Parse("parse_bash_exec_expr", Plus(left, e.n), e.at, ts))

parse_primary_expr(i, ts) ==
    CASE Kind(ts, i) \in Literals \union {"hot", "prehot", "exec", ">>?"} -> Accepted(Leaf(ts, i), i + 1)
      [] Kind(ts, i) = "ident" -> parse_name(i, ts)
      [] Kind(ts, i) = "(" /\ is_lambda_start(i, ts) -> Sub("parse_lambda", i, ts)
      [] Kind(ts, i) = "(" /\ ~is_lambda_start(i, ts) -> parse_tuple_or_grouped(i, ts)
      [] Kind(ts, i) = "[" -> parse_array_literal("", i, ts)
      [] Kind(ts, i) = "#(" -> parse_dict_literal(i, ts)
      [] IsErrorKind(i, ts) -> parse_error_construct(i, ts)
      [] Kind(ts, i) = "#" /\ Kind(ts, i + 1) = "[" -> parse_mixed_array_literal(i, ts)
      [] Kind(ts, i) = "??" -> Sub("parse_match_expr_inner", i, ts)
      [] Kind(ts, i) = "#|" -> parse_numeric_eval(i, ts)
      [] Kind(ts, i) \in Casts -> parse_cast(i, ts)
      [] Kind(ts, i) \in {"#.", "#!"} -> parse_round_expr(i, ts)
      [] Kind(ts, i) \in {"#,", "#^"} -> parse_format_expr(i, ts)
      [] Kind(ts, i) \in Bases -> between_bars(None, i, i + 1, FALSE, ts)
      [] Kind(ts, i) = "<\\" -> Parse("parse_bash_exec_expr", Node("bash", "", <<>>, Line(ts, i), 0), i + 1, ts)
      [] OTHER -> Refused(i)

-----------------------------------------------------------------------------
(* Lambdas and patterns.                                                    *)

\* The parameters between parentheses, into `left`, up to what ends them.
lambda_parameters(left, i, ts) ==
    CASE Kind(ts, i) = ")" -> Accepted(left, i + 1)
      [] Kind(ts, i) = "ident" /\ Kind(ts, i + 1) = "," ->
            Parse("lambda_parameters", Plus(left, Leaf(ts, i)), i + 2, ts)
      [] Kind(ts, i) = "ident" /\ Kind(ts, i + 1) = ")" -> Accepted(Plus(left, Leaf(ts, i)), i + 2)
      [] Kind(ts, i) = "ident" /\ Kind(ts, i + 1) = "->" ->
            Accepted([Plus(left, Leaf(ts, i)) EXCEPT !.a = ""], i + 1)
      [] Kind(ts, i) = "ident" /\ Kind(ts, i + 1) \notin {",", ")", "->"} -> Refused(i + 1)
      [] OTHER -> Refused(i)

\* x -> e, (a, b) -> e, and (x -> e): a group, its closing parenthesis taken
\* when it is there.
parse_lambda(i, ts) ==
    Then(CASE Kind(ts, i) = "(" ->
                Parse("lambda_parameters", Node("lambda", "(", <<>>, Line(ts, i), 0), i + 1, ts)
           [] Kind(ts, i) = "ident" ->
                Accepted(Node("lambda", "", <<Leaf(ts, i)>>, Line(ts, i), 0), i + 1)
           [] OTHER -> Refused(i),
         LAMBDA p :
             Expect(ts, p.at, "->", LAMBDA a :
                 Then(Sub(IF Kind(ts, a) = "{" THEN "parse_block" ELSE "parse_expr", a, ts), LAMBDA b :
                     IF Kind(ts, i) = "(" /\ p.n.a = ""
                     THEN LET to == IF Kind(ts, b.at) = ")" THEN Line(ts, b.at) ELSE b.n.to
                          IN Accepted(Node("group", "", <<[Plus(p.n, b.n) EXCEPT !.to = to]>>, Line(ts, i), to),
                                      IF Kind(ts, b.at) = ")" THEN b.at + 1 ELSE b.at)
                     ELSE Accepted(Plus(p.n, b.n), b.at))))

Negative(i, ts) == Node("negative", "", <<Leaf(ts, i + 1)>>, Line(ts, i), Line(ts, i + 1))

\* a..b, the ends being integers.
finish_int_pattern(n, i, ts) ==
    CASE Kind(ts, i) # ".." -> Accepted(n, i)
      [] Kind(ts, i) = ".." /\ Kind(ts, i + 1) = "int" ->
            Accepted(Spanning("range", "", <<n, Leaf(ts, i + 1)>>, n, Leaf(ts, i + 1)), i + 2)
      [] Kind(ts, i) = ".." /\ Kind(ts, i + 1) = "-" /\ Kind(ts, i + 2) = "int" ->
            Accepted(Spanning("range", "", <<n, Negative(i + 1, ts)>>, n, Negative(i + 1, ts)), i + 3)
      [] OTHER -> Refused(i + 1)

\* ##Kind, ##Kind(name) and ##Kind(_).
parse_error_pattern(i, ts) ==
    CASE ~(Touches(ts, i + 1) /\ Touches(ts, i + 2)) -> Refused(i + 3)
      [] Kind(ts, i + 3) # "(" \/ ~Touches(ts, i + 3) ->
            Accepted(Node("kind", Text(ts, i + 2), <<>>, Line(ts, i), Line(ts, i + 2)), i + 3)
      [] Kind(ts, i + 3) = "(" /\ Kind(ts, i + 4) \in {"ident", "_"} ->
            Expect(ts, i + 5, ")", LAMBDA at :
                Accepted(Node("kind", Text(ts, i + 2), IF Kind(ts, i + 4) = "_" THEN <<>> ELSE <<Leaf(ts, i + 4)>>,
                              Line(ts, i), Line(ts, i + 5)), at))
      [] OTHER -> Refused(Advanced(ts, i + 4))

parse_pattern_primary(i, ts) ==
    CASE IsErrorKind(i, ts) -> parse_error_pattern(i, ts)
      [] Kind(ts, i) \in {"_", "string", "float", "bool", "ident"} -> Accepted(Leaf(ts, i), i + 1)
      [] Kind(ts, i) = "-" /\ Kind(ts, i + 1) = "int" -> finish_int_pattern(Negative(i, ts), i + 2, ts)
      [] Kind(ts, i) = "-" /\ Kind(ts, i + 1) = "float" -> Accepted(Negative(i, ts), i + 2)
      [] Kind(ts, i) = "int" -> finish_int_pattern(Leaf(ts, i), i + 1, ts)
      [] Kind(ts, i) = "char" /\ Kind(ts, i + 1) # ".." -> Accepted(Leaf(ts, i), i + 1)
      [] Kind(ts, i) = "char" /\ Kind(ts, i + 1) = ".." ->
            Expect(ts, i + 2, "char", LAMBDA at :
                Accepted(Spanning("range", "", <<Leaf(ts, i), Leaf(ts, i + 2)>>, Leaf(ts, i), Leaf(ts, i + 2)), at))
      [] Kind(ts, i) = "[" /\ Kind(ts, i + 1) = "]" ->
            Accepted(Node("bundle", "", <<>>, Line(ts, i), Line(ts, i + 1)), i + 2)
      [] Kind(ts, i) = "[" /\ Kind(ts, i + 1) # "]" ->
            Parse("pattern_elements", Node("bundle", "", <<>>, Line(ts, i), 0), i + 1, ts)
      [] Kind(ts, i) \in Comparisons ->
            Then(Sub("parse_addition", i + 1, ts), LAMBDA e :
                Accepted(Node("compare", Kind(ts, i), <<e.n>>, Line(ts, i), e.n.to), e.at))
      [] OTHER -> Refused(i)

RECURSIVE ErrorInList(_)
ErrorInList(n) ==
    n.k = "bundle" /\ \E e \in 1 .. Len(n.es) : n.es[e].k = "kind" \/ ErrorInList(n.es[e])

NamesMessage(n) == n.k = "kind" /\ n.es # <<>>

\* p || q || ...: no error in a list, and no alternative names a message.
parse_pattern(left, i, ts) ==
    CASE left = None ->
            Then(Sub("parse_pattern_primary", i, ts), LAMBDA p :
                IF Kind(ts, p.at) = "||"
                THEN Parse("parse_pattern", Node("either", "", <<p.n>>, p.n.from, p.n.to), p.at, ts)
                ELSE IF ErrorInList(p.n) THEN Refused(p.at) ELSE p)
      [] left # None /\ Kind(ts, i) = "||" ->
            Then(Sub("parse_pattern_primary", i + 1, ts), LAMBDA p :
                Parse("parse_pattern", Plus(left, p.n), p.at, ts))
      [] OTHER ->
            IF \E e \in 1 .. Len(left.es) : ErrorInList(left.es[e]) \/ NamesMessage(left.es[e])
            THEN Refused(i)
            ELSE Accepted(left, i)

\* pattern => value, pattern => { block }, pattern => value { block }
match_case(i, ts) ==
    Then(Sub("parse_pattern", i, ts), LAMBDA p :
        Expect(ts, p.at, "=>", LAMBDA a :
            Then(IF Kind(ts, a) = "{" THEN Accepted(None, a) ELSE Sub("parse_match_arm_value", a, ts), LAMBDA v :
                Then(IF Kind(ts, v.at) = "{" THEN Sub("parse_block", v.at, ts) ELSE Accepted(None, v.at),
                     LAMBDA b :
                         Accepted(Node("case", "", <<p.n, v.n, b.n>>, p.n.from,
                                       IF b.n = None THEN v.n.to ELSE b.n.to), b.at)))))

match_cases(left, i, ts) ==
    IF Kind(ts, i) \in {"}", "eof"}
    THEN Expect(ts, i, "}", LAMBDA at : Accepted([left EXCEPT !.to = Line(ts, i)], at))
    ELSE Then(match_case(i, ts), LAMBDA c : Parse("match_cases", Plus(left, c.n), c.at, ts))

parse_match_expr_inner(i, ts) ==
    Then(Sub("parse_expr", i + 1, ts), LAMBDA e :
        Expect(ts, e.at, "{", LAMBDA at :
            Parse("match_cases", Node("match", "", <<e.n>>, Line(ts, i), 0), at, ts)))

-----------------------------------------------------------------------------
(* Statements.  An edit of a collection is an assignment to its name.       *)

Ends == {"¶", "\\\\", "}", "eof"}

AssignOperators == {"="} \union DOMAIN Compound

\* name[...][...] =, looked for past the brackets.
RECURSIVE is_indexed_assignment(_, _)
is_indexed_assignment(i, ts) ==
    IF Kind(ts, i) = "["
    THEN is_indexed_assignment(AfterClose(i + 1, 1, {"["}, "]", ts), ts)
    ELSE Kind(ts, i) \in AssignOperators

IsAssignment(i, ts) ==
    \/ Kind(ts, i + 1) \in AssignOperators \union {"++", "--"}
    \/ Kind(ts, i + 1) = "$!!" /\ Kind(ts, i) # "prehot"
    \/ Kind(ts, i + 1) = "[" /\ is_indexed_assignment(i + 1, ts)

Stepping(ts, i, n, op, e) ==
    Node("assign", Kind(ts, i + 1),
         <<n, Node("binary", op, <<[n EXCEPT !.k = "ident"], e>>, n.from, e.to)>>, n.from, e.to)

\* `=` gives a value to a name: an assignment to an index is refused.  A name
\* that is incremented, or propagated, is read without its mark.
parse_assignment(i, ts) ==
    CASE Kind(ts, i + 1) = "[" ->
            Then(Sub("parse_expr", i + 2, ts), LAMBDA e :
                Expect(ts, e.at, "]", LAMBDA at : Refused(at)))
      [] Kind(ts, i + 1) = "$!!" ->
            Accepted(Node("expr", "",
                          <<Node("op", "$!!", <<[Leaf(ts, i) EXCEPT !.k = "ident"]>>, Line(ts, i), Line(ts, i + 1))>>,
                          Line(ts, i), Line(ts, i + 1)), i + 2)
      [] Kind(ts, i + 1) \in {"++", "--"} ->
            Accepted(Stepping(ts, i, Leaf(ts, i), IF Kind(ts, i + 1) = "++" THEN "+" ELSE "-",
                              Node("int", "1", <<>>, Line(ts, i + 1), Line(ts, i + 1))), i + 2)
      [] Kind(ts, i + 1) \in DOMAIN Compound ->
            Then(Sub("parse_expr", i + 2, ts), LAMBDA e :
                Accepted(Stepping(ts, i, Leaf(ts, i), Compound[Kind(ts, i + 1)], e.n), e.at))
      [] Kind(ts, i + 1) = "=" ->
            Then(parse_juxtapose_chain(i + 2, ts), LAMBDA e :
                Accepted(Node("assign", "=", <<Leaf(ts, i), e.n>>, Line(ts, i), e.n.to), e.at))

parse_const_decl(i, ts) ==
    Then(parse_juxtapose_chain(i + 2, ts), LAMBDA e :
        Accepted(Node("const", Text(ts, i), <<e.n>>, Line(ts, i), e.n.to), e.at))

EditingOperators == {"$+", "$+[", "$-", "$--", "$-[", "$^+", "$^-", "$^", "$~", "$++"}

\* The name an edit writes into, and the steps from it; no steps when the
\* receiver is no place.
Unanchored == [ok |-> FALSE, root |-> None, steps |-> <<>>]

Reaching(r, steps) == [r EXCEPT !.steps = @ \o steps]

RECURSIVE flatten_receiver(_)
flatten_receiver(n) ==
    CASE n.k = "group" -> flatten_receiver(n.es[1])
      [] n.k \in {"ident", "hot", "prehot"} -> [ok |-> TRUE, root |-> n, steps |-> <<>>]
      [] n.k = "index" -> Reaching(flatten_receiver(n.es[1]), <<n.es[2]>>)
      [] n.k = "deep" ->
            Reaching(flatten_receiver(n.es[1]), [s \in DOMAIN n.es[2].es |-> n.es[2].es[s].es[1]])
      [] n.k = "member" ->
            Reaching(flatten_receiver(n.es[1]), <<Node("string", n.a, <<>>, n.from, n.to)>>)
      [] OTHER -> Unanchored

\* root[a>b>...]$~ value: an edit of a part becomes one of the whole.
rewrite_edit_at_path(n, r) ==
    LET path == Stepped(Node("path", "", [s \in DOMAIN r.steps |-> Node("step", "", <<r.steps[s]>>, n.from, n.to)],
                             n.from, n.to))
        place == Node("deep", "", <<[r.root EXCEPT !.from = n.from, !.to = n.to], path>>, n.from, n.to)
    IN Node("op", "$~", <<place, IF n.k = "op" /\ n.a = "$~" THEN n.es[2] ELSE n>>, n.from, n.to)

IsEdit(n) == unwrap_group(n).k = "op" /\ unwrap_group(n).a \in EditingOperators

EditsWhole(n, r) == Len(r.steps) <= (IF unwrap_group(n).a = "$~" THEN 1 ELSE 0)

edited(n, r, at) ==
    CASE ~r.ok -> Refused(at)
      [] r.ok /\ EditsWhole(n, r) -> Accepted(Node("assign", "edit", <<r.root, n>>, n.from, n.to), at)
      [] r.ok /\ ~EditsWhole(n, r) ->
            Accepted(Node("assign", "edit", <<r.root, rewrite_edit_at_path(n, r), n>>, n.from, n.to), at)

parse_expr_or_edit_statement(i, ts) ==
    Then(Sub("parse_expr", i, ts), LAMBDA e :
        IF IsEdit(e.n)
        THEN edited(e.n, flatten_receiver(unwrap_group(e.n).es[1]), e.at)
        ELSE Accepted(Node("expr", "", <<e.n>>, e.n.from, e.n.to), e.at))

parse_function_call_statement(i, ts) ==
    Then(Sub("parse_expr", i, ts), LAMBDA e :
        IF e.n.k = "call"
        THEN Accepted(Node("expr", "", <<e.n>>, e.n.from, e.n.to), e.at)
        ELSE Refused(e.at))

\* name~ is changed by the function, name<~ is written back to the caller.
Parameter(i, ts) ==
    Marked("param", Text(ts, i), IF Kind(ts, i + 1) \in {"~", "<~"} THEN {Kind(ts, i + 1)} ELSE {}, <<>>,
           Line(ts, i), Line(ts, i))

parameters(left, i, ts) ==
    IF Kind(ts, i) # "ident" THEN Refused(i)
    ELSE LET after == IF Kind(ts, i + 1) \in {"~", "<~"} THEN i + 2 ELSE i + 1
         IN IF Kind(ts, after) = ","
            THEN Parse("parameters", Plus(left, Parameter(i, ts)), after + 1, ts)
            ELSE Expect(ts, after, ")", LAMBDA at : Accepted(Plus(left, Parameter(i, ts)), at))

parse_function_decl(i, ts) ==
    LET head == Node("function", Text(ts, i), <<>>, Line(ts, i), 0)
    IN Then(IF Kind(ts, i + 2) = ")" THEN Accepted(head, i + 3) ELSE Parse("parameters", head, i + 2, ts),
            LAMBDA p : Then(Sub("parse_block", p.at, ts), LAMBDA b : Accepted(Plus(p.n, b.n), b.at)))

\* A parenthesis after a name: a declaration when a block follows.
called_or_declared(i, ts) ==
    IF Kind(ts, AfterClose(i + 2, 1, {"("}, ")", ts)) = "{"
    THEN parse_function_decl(i, ts)
    ELSE parse_function_call_statement(i, ts)

parse_return(i, ts) ==
    IF Kind(ts, i + 1) \in Ends
    THEN Accepted(Node("return", "", <<>>, Line(ts, i), Line(ts, i)), i + 1)
    ELSE Then(parse_juxtapose_chain(i + 1, ts), LAMBDA e :
            Accepted(Node("return", "", <<e.n>>, Line(ts, i), e.n.to), e.at))

\* The names that take a value apart, up to the closing mark.  Commas may
\* stand anywhere between them; one name takes the rest.
destructured(left, i, ts) ==
    LET named == left.m = {"named"}
    IN CASE Kind(ts, i) = (IF left.a = "[" THEN "]" ELSE ")") -> Accepted(left, i + 1)
         [] Kind(ts, i) = "," -> Parse("destructured", left, i + 1, ts)
         [] Kind(ts, i) = "*" /\ ~named ->
                Expect(ts, i + 1, "ident", LAMBDA at :
                    IF \E e \in 1 .. Len(left.es) : left.es[e].k = "rest"
                    THEN Refused(at)
                    ELSE Parse("destructured",
                               Plus(left, Node("rest", Text(ts, i + 1), <<>>, Line(ts, i), Line(ts, i + 1))),
                               at, ts))
         [] Kind(ts, i) \in {"ident", "_"} /\ ~named -> Parse("destructured", Plus(left, Leaf(ts, i)), i + 1, ts)
         [] Kind(ts, i) = "ident" /\ named ->
                Expect(ts, i + 1, ":", LAMBDA a :
                    Expect(ts, a, "ident", LAMBDA at :
                        Parse("destructured",
                              Plus(left, Node("field", Text(ts, i), <<Leaf(ts, a)>>, Line(ts, i), Line(ts, a))),
                              at, ts)))
         [] OTHER -> Refused(i)

parse_array_destructure_pattern(i, ts) ==
    Parse("destructured", Node("names", "[", <<>>, Line(ts, i), 0), i + 1, ts)

\* A dictionary's pattern names its keys, and `#(` says it is one.
parse_tuple_destructure_pattern(i, ts) ==
    LET named == Kind(ts, i + 1) = "ident" /\ Kind(ts, i + 2) = ":"
    IN IF named # (Kind(ts, i) = "#(")
       THEN Refused(i + 1)
       ELSE Parse("destructured",
                  Marked("names", Kind(ts, i), IF named THEN {"named"} ELSE {}, <<>>, Line(ts, i), 0), i + 1, ts)

parse_destructure_pattern(i, ts) ==
    IF Kind(ts, i) = "["
    THEN parse_array_destructure_pattern(i, ts)
    ELSE parse_tuple_destructure_pattern(i, ts)

\* Whether what opens at i is a pattern: what follows its close says so.
is_destructure(i, ts) ==
    Kind(ts, IF Kind(ts, i) = "["
             THEN AfterClose(i + 1, 1, {"["}, "]", ts)
             ELSE AfterClose(i + 1, 1, {"(", "#("}, ")", ts)) = "="

parse_destructure_assign(i, ts) ==
    IF ~is_destructure(i, ts) THEN Refused(i)
    ELSE Then(parse_destructure_pattern(i, ts), LAMBDA p :
            Expect(ts, p.at, "=", LAMBDA at :
                Then(Sub("parse_expr", at, ts), LAMBDA e :
                    Accepted(Node("destructure", "", <<p.n, e.n>>, Line(ts, i), e.n.to), e.at))))

\* A construct of one mark and one name.
named(k, m, i, ts) ==
    Expect(ts, i + 1, "ident", LAMBDA at :
        Accepted(Marked(k, Text(ts, i + 1), m, <<>>, Line(ts, i), Line(ts, i + 1)), at))

-----------------------------------------------------------------------------
(* Output and input.                                                        *)

\* What ends the items of `>>` once there is one.  Their lines are not looked
\* at: a new line ends them only by what it begins with.
OutputStops == Ends \union {";", ">>", "?", "??", "@", "@:", "@~", "<<", "<<|", "<<|?", ">>!", ">>~", ">>|", "<~"}

BeginsAssignment(i, ts) ==
    Kind(ts, i) = "ident" /\ Kind(ts, i + 1) \in AssignOperators \union {"++", "--"}

output_items(left, i, ts) ==
    CASE Kind(ts, i) \in OutputStops \/ BeginsAssignment(i, ts) -> Accepted(left, i)
      [] Kind(ts, i) \in Comparisons \union {"&&", "||"} -> Refused(i)
      [] OTHER -> Then(Sub("parse_output_item", i, ts), LAMBDA e :
                      Parse("output_items", Plus(left, e.n), e.at, ts))

parse_output(i, ts) ==
    IF Kind(ts, i + 1) \in Ends
    THEN Accepted(Node("output", "", <<>>, Line(ts, i), Line(ts, i)), i + 1)
    ELSE Then(Sub("parse_output_item", i + 1, ts), LAMBDA e :
            Parse("output_items", Node("output", "", <<e.n>>, Line(ts, i), e.n.to), e.at, ts))

\* (row, column, ...): a slot may be left out, and five is the most.
parse_sparse_pos_tuple(left, i, ts) ==
    IF Kind(ts, i) = ")" THEN Accepted(left, i + 1)
    ELSE Then(IF Kind(ts, i) = "," THEN Accepted(None, i) ELSE Sub("parse_expr", i, ts), LAMBDA e :
            LET after == IF Kind(ts, e.at) = "," THEN e.at + 1 ELSE e.at
            IN IF Len(left.es) = 5
               THEN Refused(after)
               ELSE Parse("parse_sparse_pos_tuple", Plus(left, e.n), after, ts))

\* The items of `>>~`, on one line.
parse_output_items_same_line(left, i, ts) ==
    IF Kind(ts, i) \in Ends \/ ts[i].line \notin left.m
    THEN Accepted([left EXCEPT !.m = {}], i)
    ELSE Then(Sub("parse_output_item", i, ts), LAMBDA e :
            Parse("parse_output_items_same_line", Plus(left, e.n), e.at, ts))

output_position(i, ts) ==
    CASE Kind(ts, i) = "(" -> Parse("parse_sparse_pos_tuple", Node("slots", "", <<>>, 0, 0), i + 1, ts)
      [] Kind(ts, i) = "ident" -> Sub("parse_postfix", i, ts)
      [] OTHER -> Refused(i)

parse_output_pos(i, ts) ==
    Then(output_position(i + 1, ts), LAMBDA p :
        Expect(ts, p.at, ">", LAMBDA at :
            Then(Parse("parse_output_items_same_line",
                       Marked("items", "", {Line(ts, p.at)}, <<>>, Line(ts, p.at), Line(ts, p.at)), at, ts),
                 LAMBDA e :
                     Accepted(Marked("outpos", "", IF Kind(ts, i + 1) = "(" THEN {"("} ELSE {}, <<p.n, e.n>>,
                                     Line(ts, i), e.n.to), e.at))))

\* A size, or two, between parentheses.
Sizes(k, i, sizes, ts) ==
    LET close == i + 2 * sizes
    IN IF \A x \in 1 .. sizes :
            /\ Kind(ts, i + 2 * x - 1) = "int"
            /\ Kind(ts, i + 2 * x) = (IF x = sizes THEN ")" ELSE ",")
       THEN Accepted(Node("spec", k, [x \in 1 .. sizes |-> Leaf(ts, i + 2 * x - 1)], 0, 0), close + 1)
       ELSE Refused(CHOOSE j \in i + 1 .. close :
                      /\ Kind(ts, j) # (IF (j - i) % 2 = 1 THEN "int" ELSE IF j = close THEN ")" ELSE ",")
                      /\ \A x \in i + 1 .. j - 1 :
                            Kind(ts, x) = (IF (x - i) % 2 = 1 THEN "int" ELSE IF x = close THEN ")" ELSE ","))

\* ##., ##.(total, decimals), ###(digits), ##"(letters), ##'.  `##!` asks for an
\* Int too, and is not told from `###`.
parse_input_typespec(i, ts) ==
    CASE Kind(ts, i) \notin {"##.", "###", "##!", "##\"", "##'"} -> Accepted(None, i)
      [] Kind(ts, i) = "##'" -> Accepted(Node("spec", "##'", <<>>, 0, 0), i + 1)
      [] OTHER ->
            LET k == IF Kind(ts, i) = "##!" THEN "###" ELSE Kind(ts, i)
            IN IF Kind(ts, i + 1) = "("
               THEN Sizes(k, i + 1, IF k = "##." THEN 2 ELSE 1, ts)
               ELSE Accepted(Node("spec", k, <<>>, 0, 0), i + 1)

parse_input(i, ts) ==
    Then(parse_input_typespec(i + 1, ts), LAMBDA s :
        LET prompted == Kind(ts, s.at) \in {"string", "interp"}
            a == IF prompted THEN s.at + 1 ELSE s.at
            prompt == IF prompted THEN Leaf(ts, s.at) ELSE None
            numeric == s.n = None /\ Kind(ts, a) = "#|"
            b == IF numeric THEN a + 1 ELSE a
        IN Expect(ts, b, "ident", LAMBDA at :
               IF numeric /\ Kind(ts, at) # "|"
               THEN Refused(at)
               ELSE Accepted(Marked("input", Text(ts, b), IF numeric THEN {"numeric"} ELSE {}, <<s.n, prompt>>,
                                    Line(ts, i), Line(ts, b)), IF numeric THEN at + 1 ELSE at)))

-----------------------------------------------------------------------------
(* Statements with blocks, and the jumps.                                   *)

\* `_? condition { }`, as many as there are, then `_ { }`.
else_branches(left, i, ts) ==
    CASE Kind(ts, i) = "_?" /\ Kind(ts, i + 1) = "{" -> Refused(i + 1)
      [] Kind(ts, i) = "_?" /\ Kind(ts, i + 1) # "{" -> Parse("if_branch", left, i + 1, ts)
      [] Kind(ts, i) = "_" ->
            Then(Sub("parse_block", i + 1, ts), LAMBDA b : Accepted(Plus(left, b.n), b.at))
      [] OTHER -> Accepted(left, i)

if_branch(left, i, ts) ==
    Then(Sub("parse_expr", i, ts), LAMBDA c :
        Then(Sub("parse_block", c.at, ts), LAMBDA b :
            Parse("else_branches", Plus(Plus(left, c.n), b.n), b.at, ts)))

is_loop_pattern(i, ts) ==
    /\ Kind(ts, i) \in {"(", "[", "#("}
    /\ Kind(ts, IF Kind(ts, i) = "["
                THEN AfterClose(i + 1, 1, {"["}, "]", ts)
                ELSE AfterClose(i + 1, 1, {"("}, ")", ts)) = ":"

\* What a loop runs over: names, one name, nothing, or a condition.
loop_head(i, ts) ==
    IF is_loop_pattern(i, ts) \/ (Kind(ts, i) = "ident" /\ Kind(ts, i + 1) = ":")
    THEN Then(IF Kind(ts, i) = "ident" THEN Accepted(Leaf(ts, i), i + 1) ELSE parse_destructure_pattern(i, ts),
              LAMBDA p :
                  Then(Sub("parse_expr", p.at + 1, ts), LAMBDA e :
                      Accepted(Node("each", "", <<p.n, e.n>>, Line(ts, i), e.n.to), e.at)))
    ELSE IF Kind(ts, i) = "{" THEN Accepted(None, i) ELSE Sub("parse_expr", i, ts)

parse_loop(i, ts) ==
    Then(loop_head(i + 1, ts), LAMBDA h :
        Then(Sub("parse_block", h.at, ts), LAMBDA b :
            Accepted(Node("loop", Text(ts, i), <<h.n, b.n>>, Line(ts, i), b.n.to), b.at)))

\* A label is inside the jump; a name after one, on its line, is refused.
parse_jump(k, i, ts) ==
    IF Text(ts, i) = "" /\ Kind(ts, i + 1) = "ident" /\ Line(ts, i + 1) = Line(ts, i)
    THEN Refused(i + 1)
    ELSE Accepted(Node(k, Text(ts, i), <<>>, Line(ts, i), Line(ts, i)), i + 1)

parse_error_type(i, ts) ==
    CASE Kind(ts, i) = "unit" -> Accepted(Leaf(ts, i), i + 1)
      [] Kind(ts, i) = "#" ->
            Expect(ts, i + 1, "#", LAMBDA a :
                CASE Kind(ts, a) = "ident" ->
                        Accepted(Node("kind", Text(ts, a), <<>>, Line(ts, i), Line(ts, a)), a + 1)
                  [] Kind(ts, a) = "_" -> Accepted(Node("unit", "", <<>>, Line(ts, i), Line(ts, a)), a + 1)
                  [] OTHER -> Refused(a))
      [] OTHER -> Accepted(None, i)

catch_clauses(left, i, ts) ==
    CASE Kind(ts, i) = ":!" ->
            Then(parse_error_type(i + 1, ts), LAMBDA k :
                Then(Sub("parse_block", k.at, ts), LAMBDA b :
                    Parse("catch_clauses",
                          Plus(left, Node("catch", "", <<k.n, b.n>>, Line(ts, i), b.n.to)), b.at, ts)))
      [] Kind(ts, i) = ":>" ->
            Then(Sub("parse_block", i + 1, ts), LAMBDA b :
                Accepted(Plus(left, Node("finally", "", <<b.n>>, Line(ts, i), b.n.to)), b.at))
      [] OTHER -> Accepted(left, i)

parse_try_statement(i, ts) ==
    Then(Sub("parse_block", i + 1, ts), LAMBDA b :
        Parse("catch_clauses", Node("try", "", <<b.n>>, Line(ts, i), b.n.to), b.at, ts))

\* A construct of one mark and one part.
Holding(k, rule, i, ts) ==
    Then(Sub(rule, i + 1, ts), LAMBDA e : Accepted(Node(k, "", <<e.n>>, Line(ts, i), e.n.to), e.at))

\* Past a `#> { }` where none may be.
skip_export_block(i, ts) ==
    IF Kind(ts, i + 1) = "{" THEN AfterClose(i + 2, 1, {"{"}, "}", ts) ELSE i + 1

parse_statement(i, ts) ==
    CASE Kind(ts, i) = "#>" -> Refused(skip_export_block(i, ts))
      [] Kind(ts, i) = "mode" -> Accepted(Leaf(ts, i), i + 1)
      [] Kind(ts, i) = ">>" -> parse_output(i, ts)
      [] Kind(ts, i) = ">>!" -> Accepted(Leaf(ts, i), i + 1)
      [] Kind(ts, i) = ">>~" -> parse_output_pos(i, ts)
      [] Kind(ts, i) = ">>|" -> Holding("tui", "parse_block", i, ts)
      [] Kind(ts, i) = "<<" -> parse_input(i, ts)
      [] Kind(ts, i) = "<<|" -> named("key", {"blocking"}, i, ts)
      [] Kind(ts, i) = "<<|?" -> named("key", {}, i, ts)
      [] Kind(ts, i) = "><" -> named("args", {}, i, ts)
      [] Kind(ts, i) = "\\" -> named("end", {}, i, ts)
      [] Kind(ts, i) = "?" -> Parse("if_branch", Node("if", "", <<>>, Line(ts, i), 0), i + 1, ts)
      [] Kind(ts, i) = "??" -> parse_match_expr_inner(i, ts)
      [] Kind(ts, i) \in {"@", "@:"} -> parse_loop(i, ts)
      [] Kind(ts, i) \in {"@!", "@:!"} -> parse_jump("break", i, ts)
      [] Kind(ts, i) \in {"@>", "@:>"} -> parse_jump("continue", i, ts)
      [] Kind(ts, i) = "@~" -> Holding("sleep", "parse_expr", i, ts)
      [] Kind(ts, i) = "!?" -> parse_try_statement(i, ts)
      [] Kind(ts, i) \in {"¶", "\\\\"} -> Accepted(Node("¶", Kind(ts, i), <<>>, Line(ts, i), Line(ts, i)), i + 1)
      [] Kind(ts, i) = "<~" -> parse_return(i, ts)
      [] Kind(ts, i) = "ident" /\ Kind(ts, i + 1) = ":=" -> parse_const_decl(i, ts)
      [] Kind(ts, i) = "ident" /\ Kind(ts, i + 1) = "::" -> parse_function_call_statement(i, ts)
      [] Kind(ts, i) = "ident" /\ Kind(ts, i + 1) = "(" -> called_or_declared(i, ts)
      [] Kind(ts, i) = "ident" /\ Kind(ts, i + 1) \notin {":=", "::", "("} ->
            IF IsAssignment(i, ts) THEN parse_assignment(i, ts) ELSE parse_expr_or_edit_statement(i, ts)
      [] Kind(ts, i) = "hot" ->
            IF IsAssignment(i, ts) THEN parse_assignment(i, ts) ELSE parse_expr_or_edit_statement(i, ts)
      [] Kind(ts, i) = "prehot" ->
            IF IsAssignment(i, ts) THEN parse_assignment(i, ts) ELSE Refused(i)
      [] Kind(ts, i) \in {"[", "(", "#("} -> parse_destructure_assign(i, ts)
      [] Kind(ts, i) = "<\\" ->
            Then(Sub("parse_expr", i, ts), LAMBDA e : Accepted(Node("expr", "", <<e.n>>, e.n.from, e.n.to), e.at))
      [] OTHER -> Refused(i)

-----------------------------------------------------------------------------
(* Sequences of statements, and what goes on after a refusal.               *)

\* OpenBraces, if a skip began counting at zero (a mutant).
OpenBracesForgotten(start, at, ts) == 0

\* How many braces of the statement are open at a token.
OpenBraces(start, at, ts) ==
    LET Depth[i \in start - 1 .. at - 1] ==
            IF i < start THEN 0
            ELSE CASE ts[i].t = "{" -> Depth[i - 1] + 1
                   [] ts[i].t = "}" /\ Depth[i - 1] > 0 -> Depth[i - 1] - 1
                   [] OTHER -> Depth[i - 1]
    IN Depth[at - 1]

RECURSIVE Skipping(_, _, _, _)
Skipping(i, depth, line, ts) ==
    CASE Kind(ts, i) = "eof" -> i
      [] Kind(ts, i) = "{" -> Skipping(i + 1, depth + 1, line, ts)
      [] Kind(ts, i) = "}" -> IF depth = 0 THEN i ELSE Skipping(i + 1, depth - 1, Line(ts, i), ts)
      [] Kind(ts, i) \notin {"eof", "{", "}"} ->
            IF depth = 0 /\ (Kind(ts, i) = ";" \/ Line(ts, i) # line)
            THEN i
            ELSE Skipping(i + 1, depth, line, ts)

\* Past the statement that began at `start` and was refused at `at`.
skip_statement(start, at, insideBlock, ts) ==
    CASE Kind(ts, at) = "eof" -> at
      [] Kind(ts, at) = "}" /\ insideBlock /\ at > start /\ OpenBraces(start, at, ts) = 0 -> at
      [] OTHER -> Skipping(at + 1, OpenBraces(start, at + 1, ts), Line(ts, at), ts)

\* The next statement, into the block or the program that `left` is; r is what
\* became of the one that began at i.
after_statement(rule, left, i, r, ts) ==
    IF r.ok
    THEN Counting(Parse(rule, Plus(left, r.n), IF Kind(ts, r.at) = ";" THEN r.at + 1 ELSE r.at, ts),
                  r.errs + (IF r.n.k = "function" /\ left.k = "block" THEN 1 ELSE 0))
    ELSE Counting(Parse(rule, left, skip_statement(i, r.at, left.k = "block", ts), ts), r.errs + 1)

block_statements(left, i, ts) ==
    IF Kind(ts, i) \in {"}", "eof"}
    THEN Expect(ts, i, "}", LAMBDA at : Accepted([left EXCEPT !.to = Line(ts, i)], at))
    ELSE after_statement("block_statements", left, i, Sub("parse_statement", i, ts), ts)

parse_block(i, ts) ==
    Expect(ts, i, "{", LAMBDA at :
        Parse("block_statements", Node("block", "", <<>>, Line(ts, i), 0), at, ts))

program_statements(left, i, ts) ==
    IF Kind(ts, i) = "eof"
    THEN Accepted(left, i)
    ELSE after_statement("program_statements", left, i, Sub("parse_statement", i, ts), ts)

-----------------------------------------------------------------------------
(* Modules: `# name { }`, what they import and what they export.            *)

\* `../`, as many as there are.
parents(left, i, ts) ==
    IF Kind(ts, i) = ".."
    THEN Expect(ts, i + 1, "/", LAMBDA at : Parse("parents", Plus(left, Leaf(ts, i)), at, ts))
    ELSE Parse("path_components", left, i, ts)

path_components(left, i, ts) ==
    CASE Kind(ts, i) = "ident" /\ Kind(ts, i + 1) = "/" ->
            Parse("path_components", Plus(left, Leaf(ts, i)), i + 2, ts)
      [] Kind(ts, i) = "ident" /\ Kind(ts, i + 1) # "/" -> Accepted(Plus(left, Leaf(ts, i)), i + 1)
      [] OTHER -> IF \E p \in 1 .. Len(left.es) : left.es[p].k = "ident" THEN Accepted(left, i) ELSE Refused(i)

\* ./a, ../a, /a, ~/a and a
parse_module_path(i, ts) ==
    LET From(a, at) == Parse("path_components", Node("module path", a, <<>>, 0, 0), at, ts)
    IN CASE Kind(ts, i) = "." ->
                Expect(ts, i + 1, "/", LAMBDA at : IF Kind(ts, at) = ".." THEN Refused(at) ELSE From("relative", at))
         [] Kind(ts, i) = ".." -> Parse("parents", Node("module path", "relative", <<>>, 0, 0), i, ts)
         [] Kind(ts, i) = "/" -> From("absolute", i + 1)
         [] Kind(ts, i) = "~" -> Expect(ts, i + 1, "/", LAMBDA at : From("absolute", at))
         [] OTHER -> From("", i)

parse_import_statement(i, ts) ==
    Then(parse_module_path(i + 1, ts), LAMBDA p :
        Expect(ts, p.at, "=>", LAMBDA a :
            Expect(ts, a, "ident", LAMBDA at :
                Accepted(Node("import", Text(ts, a), <<p.n>>, Line(ts, i), Line(ts, a)),
                         IF Kind(ts, at) = ";" THEN at + 1 ELSE at))))

import_statements(left, i, ts) ==
    IF Kind(ts, i) # "<#"
    THEN Accepted(left, i)
    ELSE LET r == Sub("parse_import_statement", i, ts)
         IN IF r.ok
            THEN Parse("import_statements", Plus(left, r.n), r.at, ts)
            ELSE Counting(Parse("import_statements", left, skip_statement(i, r.at, FALSE, ts), ts), 1)

exported(i, ts) ==
    IF Kind(ts, i + 1) \in {"::", "."}
    THEN Expect(ts, i + 2, "ident", LAMBDA at :
            Accepted(Node(IF Kind(ts, i + 1) = "::" THEN "scope" ELSE "member", Text(ts, i + 2), <<Leaf(ts, i)>>,
                          Line(ts, i), Line(ts, i + 2)), at))
    ELSE Accepted(Leaf(ts, i), i + 1)

\* name, alias::name and alias.NAME, and the name they are known by outside.
parse_export_item(i, ts) ==
    IF Kind(ts, i) # "ident" THEN Refused(i)
    ELSE Then(exported(i, ts), LAMBDA e :
            IF Kind(ts, e.at) # "=>"
            THEN Accepted(Node("item", "", <<e.n>>, Line(ts, i), e.n.to), e.at)
            ELSE Expect(ts, e.at + 1, "ident", LAMBDA at :
                    Accepted(Node("item", Text(ts, e.at + 1), <<e.n>>, Line(ts, i), Line(ts, e.at + 1)), at)))

\* The items of `#> { }`, each marked if a comma follows it.
parse_export_block(left, i, ts) ==
    IF Kind(ts, i) = "}"
    THEN Accepted([left EXCEPT !.to = Line(ts, i)], i + 1)
    ELSE Then(parse_export_item(i, ts), LAMBDA e :
            LET comma == IF Kind(ts, e.at) = "," THEN {","} ELSE {}
            IN Parse("parse_export_block", Plus(left, [e.n EXCEPT !.m = comma]),
                     IF Kind(ts, e.at) \in {",", ";"} THEN e.at + 1 ELSE e.at, ts))

RECURSIVE is_literal_expr(_)
is_literal_expr(n) ==
    LET e == unwrap_group(n)
    IN \/ e.k \in Literals
       \/ e.k = "unary" /\ e.a \in {"-", "+"} /\ unwrap_group(e.es[1]).k \in Literals
       \/ e.k \in {"array", "tuple", "dict"}
            /\ \A x \in 1 .. Len(e.es) :
                  is_literal_expr(IF e.k = "dict" THEN e.es[x].es[1] ELSE e.es[x])

\* What may stand in a module: constants and variables with literal values,
\* and functions.
module_statement(i, ts) ==
    CASE Kind(ts, i) # "ident" -> Refused(i)
      [] Kind(ts, i + 1) \in {":=", "="} ->
            Then(IF Kind(ts, i + 1) = ":=" THEN parse_const_decl(i, ts) ELSE parse_assignment(i, ts), LAMBDA s :
                IF is_literal_expr(s.n.es[Len(s.n.es)]) THEN s ELSE Refused(s.at))
      [] Kind(ts, i + 1) = "(" /\ Kind(ts, AfterClose(i + 2, 1, {"("}, ")", ts)) = "{" -> parse_function_decl(i, ts)
      [] OTHER -> Refused(i)

\* A program is its imports, its exports and its statements; `left` has them.
module_elements(left, i, ts) ==
    LET With(part, r) == Counting(Parse("module_elements", [left EXCEPT !.es[part] = r.n], r.at, ts), r.errs)
    IN CASE Kind(ts, i) \in {"}", "eof"} -> Expect(ts, i, "}", LAMBDA at : Accepted(left, at))
         [] Kind(ts, i) = "<#" ->
                Then(Sub("parse_import_statement", i, ts), LAMBDA r :
                    With(1, Accepted(Plus(left.es[1], r.n), r.at)))
         [] Kind(ts, i) = "#>" ->
                IF left.es[2] # None \/ Kind(ts, i + 1) # "{"
                THEN Refused(i)
                ELSE Then(Parse("parse_export_block", Node("export", "", <<>>, Line(ts, i), 0), i + 2, ts), LAMBDA r :
                        With(2, Accepted(r.n, r.at)))
         [] OTHER ->
                Then(module_statement(i, ts), LAMBDA r : With(3, Accepted(Plus(left.es[3], r.n), r.at)))

Program(name, imports, statements) ==
    Node("program", name, <<imports, None, statements>>, 1, 0)

NoImports == Node("imports", "", <<>>, 0, 0)

NoStatements == Node("statements", "", <<>>, 0, 0)

\* A leading dot is part of the name.
parse_module_block(i, ts) ==
    LET a == IF Kind(ts, i + 1) = "." THEN i + 2 ELSE i + 1
    IN Expect(ts, a, "ident", LAMBDA b :
           Expect(ts, b, "{", LAMBDA at :
               LET empty == Program(Text(ts, a), NoImports, NoStatements)
               IN Parse("module_elements", [empty EXCEPT !.m = {t \in {"."} : a = i + 2}, !.from = Line(ts, i)], at, ts)))

WholeModule(r, ts) ==
    CASE ~r.ok -> Counting(Accepted(None, r.at), r.errs + 1)
      [] r.ok /\ r.errs = 0 /\ Kind(ts, r.at) # "eof" -> Counting(r, 1)
      [] OTHER -> r

WholeProgram(imports, body) ==
    Counting(Accepted(Program("", imports.n, body.n), body.at), imports.errs + body.errs)

StatementsAfter(imports, ts) == WholeProgram(imports, Parse("program_statements", NoStatements, imports.at, ts))

\* A module is refused whole, and nothing may follow it.
parse_program(i, ts) ==
    IF Kind(ts, i) = "#"
    THEN WholeModule(Parse("parse_module_block", None, i, ts), ts)
    ELSE StatementsAfter(Parse("import_statements", NoImports, i, ts), ts)

-----------------------------------------------------------------------------

Parse(rule, left, i, ts) ==
    CASE rule \in {"parse_expr", "parse_pipe"} -> parse_pipe("parse_pipe", left, i, ts)
      [] rule = "parse_match_arm_value" -> parse_pipe(rule, left, i, ts)
      [] rule \in {"pipe_arguments", "pipe_arguments_no_comparison"} -> pipe_arguments(rule, left, i, ts)
      [] rule \in DOMAIN OperandOf -> LeftLevel(rule, left, i, ts)
      [] rule = "parse_power" -> RightLevel(rule, "parse_range", i, ts)
      [] rule = "parse_slice_bound_power" -> RightLevel(rule, "parse_postfix", i, ts)
      [] rule = "parse_output_item_term" -> RightLevel(rule, "output_item_operand", i, ts)
      [] rule = "parse_range" -> parse_range(i, ts)
      [] rule = "parse_postfix" -> parse_prefixed(rule, "parse_postfix_ops", i, ts)
      [] rule = "parse_postfix_structural" -> parse_prefixed(rule, "parse_structural_ops", i, ts)
      [] rule = "output_item_operand" -> parse_prefixed(rule, "parse_output_item_postfix", i, ts)
      [] rule = "parse_prefixed_primary" -> parse_prefixed(rule, "", i, ts)
      [] rule = "parse_postfix_ops" -> parse_postfix_ops(left, i, ts)
      [] rule = "operators" -> operators(left, i, ts)
      [] rule = "operator" -> operator(left, i, ts)
      [] rule = "parse_structural_ops" -> parse_structural_ops(left, i, ts)
      [] rule = "parse_output_item_postfix" -> parse_output_item_postfix(left, i, ts)
      [] rule = "parse_postfix_without_calls" -> parse_postfix_without_calls(left, i, ts)
      [] rule = "index_or_nav" -> index_or_nav(left, i, ts)
      [] rule \in {"call_arguments", "call_arguments_juxt"} -> call_arguments(rule, left, i, ts)
      [] rule = "after_argument" -> after_argument(left, i, ts)
      [] rule = "parse_nav_path" -> parse_nav_path(left, i, ts)
      [] rule \in {"group_paths", "flat_paths"} -> paths(rule, left, i, ts)
      [] rule = "parse_extract_group" -> parse_extract_group(i, ts)
      [] rule = "more_groups" -> more_groups(left, i, ts)
      [] rule = "parse_string_insert" -> parse_string_insert(left, i, ts)
      [] rule \in {"juxtapose", "juxtapose_lparen"} -> juxtapose(rule, left, i, ts)
      [] rule = "parse_expr_juxt" -> parse_expr_juxt(i, ts)
      [] rule = "parse_primary_expr" -> parse_primary_expr(i, ts)
      [] rule \in {"array_elements", "tuple_elements", "pattern_elements"} -> elements(rule, left, i, ts)
      [] rule = "closed" -> closed(left, i, ts)
      [] rule = "parse_dict_fields" -> parse_dict_fields(left, i, ts)
      [] rule = "after_field" -> after_field(left, i, ts)
      [] rule = "parse_bash_exec_expr" -> parse_bash_exec_expr(left, i, ts)
      [] rule = "parse_lambda" -> parse_lambda(i, ts)
      [] rule = "parse_lambda_or_ident" -> parse_lambda_or_ident(i, ts)
      [] rule = "lambda_parameters" -> lambda_parameters(left, i, ts)
      [] rule = "parse_pattern" -> parse_pattern(left, i, ts)
      [] rule = "parse_pattern_primary" -> parse_pattern_primary(i, ts)
      [] rule = "match_cases" -> match_cases(left, i, ts)
      [] rule = "parse_match_expr_inner" -> parse_match_expr_inner(i, ts)
      [] rule = "parameters" -> parameters(left, i, ts)
      [] rule = "destructured" -> destructured(left, i, ts)
      [] rule = "output_items" -> output_items(left, i, ts)
      [] rule = "parse_sparse_pos_tuple" -> parse_sparse_pos_tuple(left, i, ts)
      [] rule = "parse_output_items_same_line" -> parse_output_items_same_line(left, i, ts)
      [] rule = "if_branch" -> if_branch(left, i, ts)
      [] rule = "else_branches" -> else_branches(left, i, ts)
      [] rule = "catch_clauses" -> catch_clauses(left, i, ts)
      [] rule = "parse_statement" -> parse_statement(i, ts)
      [] rule = "parse_block" -> parse_block(i, ts)
      [] rule = "block_statements" -> block_statements(left, i, ts)
      [] rule = "program_statements" -> program_statements(left, i, ts)
      [] rule = "parents" -> parents(left, i, ts)
      [] rule = "path_components" -> path_components(left, i, ts)
      [] rule = "parse_import_statement" -> parse_import_statement(i, ts)
      [] rule = "import_statements" -> import_statements(left, i, ts)
      [] rule = "parse_export_block" -> parse_export_block(left, i, ts)
      [] rule = "parse_program" -> parse_program(i, ts)
      [] rule = "parse_module_block" -> parse_module_block(i, ts)
      [] rule = "module_elements" -> module_elements(left, i, ts)

\* Parser::parse: the program, and how many diagnostics it gave.
parse(ts) == Parse("parse_program", None, 1, ts)
=============================================================================
