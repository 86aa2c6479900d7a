------------------------------ MODULE Formatter ------------------------------
(* zymbol-formatter: the tree written back as tokens and line breaks.       *)
(*                                                                          *)
(* Widths are not counted.  `wide` says whether what is written exceeds the *)
(* line, for every construct that asks; `long` the same for an array's own  *)
(* limit.  `sameLine` and `inline` are FormatterConfig::brace_same_line and *)
(* inline_single_statement.  Spaces, indentation, blank lines and comments  *)
(* are left out: none of them is a token, and none moves a token to another *)
(* line.                                                                    *)
EXTENDS Parser, SequencesExt

Layout == [wide : BOOLEAN, long : BOOLEAN, sameLine : BOOLEAN, inline : BOOLEAN]

Break == <<[t |-> "\n", v |-> ""]>>

Mark(t) == <<[t |-> t, v |-> ""]>>

Word(t, v) == <<[t |-> t, v |-> v]>>

Separated(parts, between) ==
    FlattenSeq([i \in 1 .. Len(parts) |-> IF i = 1 THEN parts[i] ELSE between \o parts[i]])

\* A list on one line, or one element to a line.
Listed(open, parts, close, broken) ==
    IF broken
    THEN Mark(open) \o Break \o Separated(parts, Mark(",") \o Break) \o Break \o Mark(close)
    ELSE Mark(open) \o Separated(parts, Mark(",")) \o Mark(close)

Parenthesized(yes, pieces) == IF yes THEN Mark("(") \o pieces \o Mark(")") ELSE pieces

open_brace(c) == IF c.sameLine THEN Mark("{") ELSE Break \o Mark("{")

operator_precedence(op) ==
    CASE op = "||" -> 1
      [] op = "&&" -> 2
      [] op \in {"==", "<>"} -> 3
      [] op \in {"<", ">", "<=", ">="} -> 4
      [] op \in {"+", "-"} -> 5
      [] op \in {"*", "/", "%"} -> 6
      [] op = "^" -> 7
      [] op = "juxt" -> 9

needs_parens_for_child(child, op, isLeft) ==
    /\ child.k = "binary"
    /\ \/ operator_precedence(child.a) < operator_precedence(op)
       \/ /\ operator_precedence(child.a) = operator_precedence(op)
          /\ ~isLeft
          /\ op # "^"

is_breakable_binary(n) == n.a \in {"&&", "||"} \/ n.es[1].k = "binary" \/ n.es[2].k = "binary"

\* The operators after which a postfix would bind to the operand.
expr_needs_postfix_parens(n) ==
    /\ n.k = "op"
    /\ \/ n.a \in {"$^", "$^+", "$^-", "$>", "$|", "$<", "$+", "$+[", "$--", "$~"}
       \/ n.a = "$-[" /\ Len(n.es) = 2

\* `>` joins the steps of a path and compares.
nav_step_index_needs_parens(n) == n.k \in {"binary", "unary", "call"}

is_simple_statement(s) ==
    s.k \in {"output", "assign", "const", "destructure", "break", "continue", "return", "expr"}

\* joins_previous_output, if it looked at where the output before begins (a
\* mutant).
joins_previous_output_begun(before, s) == before.k = "output" /\ s.k = "output" /\ before.from = s.from

joins_previous_output(before, s) == before.k = "output" /\ s.k = "output" /\ before.to = s.from

\* Whether statement i of a body is written on the line of the one before it:
\* the second `>>` of `>> a >> b`, and `¶` after anything but another `¶`.
Joined(body, i) ==
    /\ i > 1
    /\ \/ body[i].k = "¶" /\ body[i - 1].k # "¶"
       \/ joins_previous_output(body[i - 1], body[i])

Lines(body, written) ==
    FlattenSeq([i \in 1 .. Len(body) |->
                 (IF i = 1 \/ Joined(body, i) THEN <<>> ELSE Break) \o written[i]])

-----------------------------------------------------------------------------
(* What becomes of a node n, its parts being written as w.                  *)

format_binary(n, w, wraps) ==
    Parenthesized(needs_parens_for_child(n.es[1], n.a, TRUE), w[1])
      \o (IF n.a = "juxt" THEN <<>> ELSE Mark(n.a))
      \o (IF wraps /\ n.a # "juxt" /\ is_breakable_binary(n) THEN Break ELSE <<>>)
      \o Parenthesized(needs_parens_for_child(n.es[2], n.a, FALSE), w[2])

\* Unary operators and casts.
format_unary(n, w) == Mark(n.a) \o Parenthesized(n.es[1].k = "binary", w[1])

format_range(w) ==
    w[1] \o Mark("..") \o w[2] \o (IF Len(w) = 3 THEN Mark(":") \o w[3] ELSE <<>>)

\* An array breaks by a limit of its own, whatever it stands in.
format_array_literal(n, w, long) ==
    (IF n.a = "#" THEN Mark("#") ELSE <<>>) \o Listed("[", w, "]", long /\ w # <<>>)

format_tuple(w, wraps) ==
    IF Len(w) = 1
    THEN Mark("(") \o w[1] \o Mark(",") \o Mark(")")
    ELSE Listed("(", w, ")", wraps /\ Len(w) > 2)

\* A key is written as the source spelled it.
dict_key(n) == Word(IF n.m = {} THEN "ident" ELSE "string", n.a)

format_named_tuple(w, wraps) == Listed("#(", w, ")", wraps /\ Len(w) > 1)

format_member_access(n, w) == w[1] \o Mark(".") \o Word("ident", n.a)

format_index(n, w) ==
    Parenthesized((n.es[1].k = "op" /\ n.es[1].a = "#?") \/ expr_needs_postfix_parens(n.es[1]), w[1])
      \o Mark("[") \o w[2] \o Mark("]")

format_deep_index(n, w) ==
    Parenthesized(expr_needs_postfix_parens(n.es[1]), w[1]) \o Mark("[") \o w[2] \o Mark("]")

format_nav_step(n, w) ==
    Parenthesized(n.a = "multi" /\ nav_step_index_needs_parens(n.es[1]), w[1])
      \o (IF Len(w) = 2 THEN Mark("..") \o w[2] ELSE <<>>)

format_nav_path(w) == Separated(w, Mark(">"))

format_extract_group(w) == Listed("[", w, "]", FALSE)

\* [[path]] when it was one path in two brackets.
format_extract(n, w) ==
    IF n.k = "flat" /\ n.a = "[[" /\ Len(w) = 2
    THEN w[1] \o Mark("[") \o Mark("[") \o w[2] \o Mark("]") \o Mark("]")
    ELSE w[1] \o Mark("[") \o Separated(Tail(w), Mark(";")) \o Mark("]")

format_function_call(n, w, wraps) ==
    Parenthesized(n.es[1].k = "lambda", w[1])
      \o Listed("(", [i \in 1 .. Len(w) - 1 |-> w[i + 1] \o (IF i \in n.m THEN Mark("<~") ELSE <<>>)],
                ")", wraps /\ Len(w) > 1)

format_match(w, c) ==
    Mark("??") \o w[1] \o open_brace(c) \o Break
      \o FlattenSeq([i \in 1 .. Len(w) - 1 |-> w[i + 1] \o Break]) \o Mark("}")

format_match_case(w) == w[1] \o Mark("=>") \o w[2] \o w[3]

format_error_kind(n, w) ==
    Mark("#") \o Mark("#") \o Word("ident", n.a) \o (IF w = <<>> THEN <<>> ELSE Listed("(", w, ")", FALSE))

\* BoundsOf, if a count were written as an end (a mutant).
BoundsAlike(n, w) == w[2] \o Mark("..") \o w[3] \o Mark("]")

\* The bounds of a slice or of a removal: start:count, or start..end.
BoundsOf(n, w) == w[2] \o Mark(IF n.m = {} THEN ".." ELSE ":") \o w[3] \o Mark("]")

format_collection_length(n, w) ==
    Parenthesized(expr_needs_postfix_parens(n.es[1]), w[1]) \o Mark("$#")

format_collection_append(n, w) == w[1] \o Mark("$+") \o Parenthesized(n.es[2].k = "binary", w[2])

format_collection_insert(w) == w[1] \o Mark("$+[") \o w[2] \o Mark("]") \o w[3]

format_collection_remove_at(w) == w[1] \o Mark("$-[") \o w[2] \o Mark("]")

format_collection_slice(n, w) == w[1] \o Mark(n.a) \o BoundsOf(n, w)

format_string_replace(w) == w[1] \o Mark("$~~") \o Mark("[") \o Separated(Tail(w), Mark(":")) \o Mark("]")

format_collection_reduce(w) == w[1] \o Mark("$<") \o Listed("(", Tail(w), ")", FALSE)

format_concat_build(n, w) ==
    w[1] \o Mark("$++")
      \o FlattenSeq([i \in 1 .. Len(w) - 1 |-> Parenthesized(n.es[i + 1].k = "binary", w[i + 1])])

format_operator(n, w) ==
    CASE n.a = "$#" -> format_collection_length(n, w)
      [] n.a = "$+" -> format_collection_append(n, w)
      [] n.a = "$+[" -> format_collection_insert(w)
      [] n.a = "$-[" /\ Len(w) = 2 -> format_collection_remove_at(w)
      [] n.a = "$[" \/ (n.a = "$-[" /\ Len(w) = 3) -> format_collection_slice(n, w)
      [] n.a = "$~~" -> format_string_replace(w)
      [] n.a = "$<" -> format_collection_reduce(w)
      [] n.a = "$++" -> format_concat_build(n, w)
      [] OTHER -> w[1] \o Mark(n.a) \o FlattenSeq(Tail(w))

format_format_expr(n, w) == Mark(n.a) \o w[1] \o Mark("|") \o w[2] \o Mark("|")

format_precision(n, w) == Mark(n.a) \o w[1]

format_numeric_eval(n, w) == Mark(n.a) \o w[1] \o Mark("|")

format_bash_exec(w) == Mark("<\\") \o FlattenSeq(w) \o Mark("\\>")

format_lambda(n, w) ==
    (IF n.a = "(" THEN Listed("(", Front(w), ")", FALSE) ELSE Separated(Front(w), Mark(",")))
      \o Mark("->") \o Last(w)

format_pipe(n, w) ==
    w[1] \o Mark("|>") \o Parenthesized(n.es[2].k = "lambda", w[2])
      \o (IF n.a = "implicit" THEN <<>> ELSE Listed("(", SubSeq(w, 3, Len(w)), ")", FALSE))

format_output(n, w) ==
    Mark(">>") \o FlattenSeq([i \in 1 .. Len(w) |->
        Parenthesized(n.es[i].k = "binary" /\ n.es[i].a \in {"&&", "||"}, w[i])])

format_output_pos(n, w) == Mark(">>~") \o Parenthesized(n.m # {}, w[1]) \o Mark(">") \o w[2]

\* `x += e`, when the value still has the shape the sugar stood for; value is
\* the right side of it.
KeepsCompound(n) ==
    /\ n.a \in DOMAIN Compound
    /\ n.es[2].k = "binary"
    /\ n.es[2].a = Compound[n.a]

format_assignment(n, w, value) ==
    CASE n.a = "edit" -> Last(w)
      [] n.a \in {"++", "--"} -> w[1] \o Mark(n.a)
      [] KeepsCompound(n) -> w[1] \o Mark(n.a) \o value
      [] OTHER -> w[1] \o Mark("=") \o w[2]

format_const_decl(n, w) == Word("ident", n.a) \o Mark(":=") \o w[1]

format_destructure_pattern(n, w) == Listed(n.a, w, IF n.a = "[" THEN "]" ELSE ")", FALSE)

format_input(n, w) ==
    Mark("<<") \o w[1] \o w[2]
      \o (IF n.m = {} THEN Word("ident", n.a) ELSE Mark("#|") \o Word("ident", n.a) \o Mark("|"))

format_if(w) ==
    FlattenSeq([i \in 1 .. Len(w) \div 2 |-> Mark(IF i = 1 THEN "?" ELSE "_?") \o w[2 * i - 1] \o w[2 * i]])
      \o (IF Len(w) % 2 = 0 THEN <<>> ELSE Mark("_") \o Last(w))

format_loop(n, w) == (IF n.a = "" THEN Mark("@") ELSE Word("@:", n.a)) \o w[1] \o w[2]

format_jump(mark, label, n) == IF n.a = "" THEN Mark(mark) ELSE Word(label, n.a)

format_try(w) == Mark("!?") \o FlattenSeq(w)

format_catch_clause(w) == Mark(":!") \o w[1] \o w[2]

format_finally_clause(w) == Mark(":>") \o w[1]

format_return(w) == Mark("<~") \o FlattenSeq(w)

format_function_decl(n, w) == Word("ident", n.a) \o Listed("(", Front(w), ")", FALSE) \o Last(w)

format_parameter(n) ==
    Word("ident", n.a) \o (IF n.m = {} THEN <<>> ELSE Mark(CHOOSE mark \in n.m : TRUE))

format_block(n, w, c) ==
    IF c.inline /\ Len(w) = 1 /\ is_simple_statement(Head(n.es))
    THEN Mark("{") \o w[1] \o Mark("}")
    ELSE open_brace(c) \o Break \o Lines(n.es, w) \o Break \o Mark("}")

format_import(n, w) == Mark("<#") \o w[1] \o Mark("=>") \o Word("ident", n.a)

\* An absolute path loses what makes it so.
format_module_path(n) ==
    LET names == SelectSeq(n.es, LAMBDA e : e.k = "ident")
        ups == Len(n.es) - Len(names)
    IN (IF n.a # "relative" THEN <<>>
        ELSE IF ups = 0 THEN Mark(".") \o Mark("/")
        ELSE FlattenSeq([i \in 1 .. ups |-> Mark("..") \o Mark("/")]))
         \o Separated([i \in 1 .. Len(names) |-> Word("ident", names[i].a)], Mark("/"))

format_export_item(n, w) == w[1] \o (IF n.a = "" THEN <<>> ELSE Mark("=>") \o Word("ident", n.a))

format_export_block(n, w, c) ==
    LET item == [i \in 1 .. Len(w) |-> w[i] \o (IF n.es[i].m = {} THEN <<>> ELSE Mark(","))]
    IN IF n.from = n.to
       THEN Mark("#>") \o Mark("{") \o FlattenSeq(item) \o Mark("}")
       ELSE Mark("#>") \o open_brace(c) \o Break
              \o FlattenSeq([i \in 1 .. Len(item) |-> item[i] \o Break]) \o Mark("}")

\* The exports go before the imports, before a statement or last, where their
\* line puts them; imports are all written together.
Body(exports, body, written, writtenExports, pending) ==
    LET after == {i \in 1 .. Len(body) : exports.from < body[i].from}
        at == IF after = {} THEN Len(body) + 1 ELSE Min(after)
        Part(from, to) == Lines(SubSeq(body, from, to), SubSeq(written, from, to)) \o Break
    IN IF ~pending
       THEN Part(1, Len(body))
       ELSE Part(1, at - 1) \o writtenExports \o Break \o Part(at, Len(body))

format_program(n, imports, exports, statements, c) ==
    LET early == /\ n.es[2].k = "export" /\ n.es[1].es # <<>>
                 /\ n.es[2].from < Head(n.es[1].es).from
        text == (IF early THEN exports \o Break ELSE <<>>)
                  \o FlattenSeq([i \in 1 .. Len(imports) |-> imports[i] \o Break])
                  \o Body(n.es[2], n.es[3].es, statements, exports, n.es[2].k = "export" /\ ~early)
    IN IF n.a = ""
       THEN text
       ELSE Mark("#") \o (IF n.m = {} THEN <<>> ELSE Mark("."))
              \o Word("ident", n.a) \o open_brace(c) \o Break \o text \o Mark("}") \o Break

-----------------------------------------------------------------------------

\* What holds inside a node: `noWrap` is FormatVisitor::no_wrap.
Within(n, c) == IF n.k \in {"output", "outpos"} THEN [c EXCEPT !.noWrap = TRUE] ELSE c

\* One node, its parts being written as w, and as value the right side of the
\* sum it assigns.  c is the layout and what holds inside the node.
Composed(n, w, value, wraps, c) ==
    CASE n.k = "none" -> <<>>
      [] n.k \in Literals \union {"ident", "hot", "prehot", "exec", "mode"} -> Word(n.k, n.a)
      [] n.k \in {"_", "¶", ">>?", ">>!"} -> Mark(IF n.k = "¶" THEN n.a ELSE n.k)
      [] n.k = "group" -> Mark("(") \o w[1] \o Mark(")")
      [] n.k = "binary" -> format_binary(n, w, wraps)
      [] n.k = "unary" -> format_unary(n, w)
      [] n.k = "range" -> format_range(w)
      [] n.k = "array" -> format_array_literal(n, w, c.long)
      [] n.k = "tuple" -> format_tuple(w, wraps)
      [] n.k = "dict" -> format_named_tuple(w, wraps)
      [] n.k = "field" -> dict_key(n) \o Mark(":") \o w[1]
      [] n.k = "member" -> format_member_access(n, w)
      [] n.k = "scope" -> w[1] \o Mark("::") \o Word("ident", n.a)
      [] n.k = "index" -> format_index(n, w)
      [] n.k = "deep" -> format_deep_index(n, w)
      [] n.k = "path" -> format_nav_path(w)
      [] n.k = "step" -> format_nav_step(n, w)
      [] n.k \in {"flat", "structured"} -> format_extract(n, w)
      [] n.k = "bundle" -> format_extract_group(w)
      [] n.k = "call" -> format_function_call(n, w, wraps)
      [] n.k = "match" -> format_match(w, c)
      [] n.k = "case" -> format_match_case(w)
      [] n.k = "either" -> Separated(w, Mark("||"))
      [] n.k = "compare" -> Mark(n.a) \o w[1]
      [] n.k = "kind" -> format_error_kind(n, w)
      [] n.k = "op" -> format_operator(n, w)
      [] n.k = "cast" -> format_unary(n, w)
      [] n.k = "negative" -> Mark("-") \o w[1]
      [] n.k = "format" -> format_format_expr(n, w)
      [] n.k = "precision" -> format_precision(n, w)
      [] n.k = "between" -> format_numeric_eval(n, w)
      [] n.k = "lambda" -> format_lambda(n, w)
      [] n.k = "pipe" -> format_pipe(n, w)
      [] n.k = "bash" -> format_bash_exec(w)
      [] n.k = "output" -> format_output(n, w)
      [] n.k = "outpos" -> format_output_pos(n, w)
      [] n.k = "slots" -> Separated(w, Mark(","))
      [] n.k = "items" -> FlattenSeq(w)
      [] n.k = "assign" -> format_assignment(n, w, value)
      [] n.k = "destructure" -> w[1] \o Mark("=") \o w[2]
      [] n.k = "names" -> format_destructure_pattern(n, w)
      [] n.k = "rest" -> Mark("*") \o Word("ident", n.a)
      [] n.k = "const" -> format_const_decl(n, w)
      [] n.k = "end" -> Mark("\\") \o Word("ident", n.a)
      [] n.k = "if" -> format_if(w)
      [] n.k = "loop" -> format_loop(n, w)
      [] n.k = "each" -> w[1] \o Mark(":") \o w[2]
      [] n.k = "break" -> format_jump("@!", "@:!", n)
      [] n.k = "continue" -> format_jump("@>", "@:>", n)
      [] n.k = "try" -> format_try(w)
      [] n.k = "catch" -> format_catch_clause(w)
      [] n.k = "finally" -> format_finally_clause(w)
      [] n.k = "function" -> format_function_decl(n, w)
      [] n.k = "param" -> format_parameter(n)
      [] n.k = "return" -> format_return(w)
      [] n.k = "expr" -> w[1]
      [] n.k = "sleep" -> Mark("@~") \o w[1]
      [] n.k = "tui" -> Mark(">>|") \o w[1]
      [] n.k = "key" -> Mark(IF n.m = {} THEN "<<|?" ELSE "<<|") \o Word("ident", n.a)
      [] n.k = "args" -> Mark("><") \o Word("ident", n.a)
      [] n.k = "input" -> format_input(n, w)
      [] n.k = "spec" -> Mark(n.a) \o (IF w = <<>> THEN <<>> ELSE Listed("(", w, ")", FALSE))
      [] n.k = "block" -> format_block(n, w, c)
      [] n.k = "import" -> format_import(n, w)
      [] n.k = "module path" -> format_module_path(n)
      [] n.k = "item" -> format_export_item(n, w)
      [] n.k = "export" -> format_export_block(n, w, c)

RECURSIVE Written(_, _)
Written(n, c) ==
    Composed(n,
             [i \in 1 .. Len(n.es) |-> Written(n.es[i], Within(n, c))],
             IF n.k = "assign" /\ KeepsCompound(n) THEN Written(n.es[2].es[2], c) ELSE <<>>,
             c.wide /\ ~c.noWrap, c)

-----------------------------------------------------------------------------

\* The pieces as the next reader's tokens: a break starts a line and is no
\* token itself.
RECURSIVE Tokenized(_, _, _)
Tokenized(pieces, i, line) ==
    CASE i > Len(pieces) -> <<Eof(line)>>
      [] i <= Len(pieces) /\ pieces[i].t = "\n" -> Tokenized(pieces, i + 1, line + 1)
      [] OTHER -> <<Token(pieces[i].t, pieces[i].v, line)>> \o Tokenized(pieces, i + 1, line)

format(program, layout) ==
    LET c == [noWrap |-> FALSE] @@ layout
        Each(ns) == [i \in 1 .. Len(ns) |-> Written(ns[i], c)]
    IN Tokenized(format_program(program, Each(program.es[1].es), Written(program.es[2], c),
                                Each(program.es[3].es), c), 1, 1)
=============================================================================
