----------------------------- MODULE Formatting -----------------------------
(* `zymbol fmt` on one file: parse, write back, and the gate that compares  *)
(* what was written with what was read before the file is replaced.         *)
(*                                                                          *)
(* Someone lays the source out (BreakLine), then formats it, and formats    *)
(* what was written once more.                                              *)
EXTENDS Formatter

CONSTANTS
    Sources,     \* the sources: their tokens, where a line of them may break, whether the
                 \* formatter can write them, and what is left of them without their mistake
    Layouts,     \* what the formatter is set to, and what it finds too long
    MaxBreaks    \* bound: how often a line is broken by hand

ASSUME SourcesAssumption ==
    /\ \A s \in Sources :
            /\ DOMAIN s = {"tokens", "places", "writable", "rest"}
            /\ s.places \subseteq 2 .. Len(s.tokens)
            /\ s.writable \in BOOLEAN
    /\ Layouts \subseteq Layout
    /\ MaxBreaks \in Nat

VARIABLES
    source,     \* what was chosen
    layout,
    file,       \* the tokens of the file
    before,     \* the tokens it had before it was last written
    breaks,
    phase

vars == <<source, layout, file, before, breaks, phase>>

-----------------------------------------------------------------------------
(* The gate.                                                                *)

\* G1: layout is line ends and `;`.
significant_tokens(ts) ==
    LET kept == SelectSeq(ts, LAMBDA t : t.t \notin {";", "eof"})
    IN [i \in 1 .. Len(kept) |-> <<kept[i].t, kept[i].v>>]

\* G3: the statements and how deep they are.  Blocks inside expressions are
\* not looked into.
BlocksOf(s) ==
    CASE s.k \in {"if", "loop", "function", "tui"} -> SelectSeq(s.es, LAMBDA e : e.k = "block")
      [] s.k = "try" -> [i \in 1 .. Len(s.es) |-> IF i = 1 THEN s.es[1] ELSE Last(s.es[i].es)]
      [] s.k = "match" -> SelectSeq([i \in 1 .. Len(s.es) - 1 |-> Last(s.es[i + 1].es)],
                                    LAMBDA e : e.k = "block")
      [] OTHER -> <<>>

RECURSIVE Shape(_, _)
Shape(statements, depth) ==
    FlattenSeq([i \in 1 .. Len(statements) |->
        <<<<depth, statements[i].k>>>>
          \o FlattenSeq([b \in 1 .. Len(BlocksOf(statements[i])) |->
                            Shape(BlocksOf(statements[i])[b].es, depth + 1)])])

Reads(ts) == parse(ts).errs = 0

\* verify, without its third comparison (a mutant).
verify_tokens(original, program, formatted) ==
    /\ significant_tokens(original) = significant_tokens(formatted)
    /\ Reads(formatted)

\* gate.rs: verify.
verify(original, program, formatted) ==
    /\ significant_tokens(original) = significant_tokens(formatted)
    /\ Reads(formatted)
    /\ Shape(program.es[3].es, 0) = Shape(parse(formatted).n.es[3].es, 0)

-----------------------------------------------------------------------------

Init ==
    /\ source \in Sources
    /\ layout \in Layouts
    /\ file = source.tokens
    /\ before = source.tokens
    /\ breaks = 0
    /\ phase = "laid out"

\* The rest of the file, from place i, goes to the next line.
BreakLine(i) ==
    /\ phase = "laid out"
    /\ breaks < MaxBreaks
    /\ i \in source.places
    /\ file[i].line = file[i - 1].line
    /\ file' = [j \in 1 .. Len(file) |-> IF j < i THEN file[j] ELSE [file[j] EXCEPT !.line = @ + 1]]
    /\ before' = file'
    /\ breaks' = breaks + 1
    /\ UNCHANGED <<source, layout, phase>>

\* format_with_config, when the parser refuses the file.
RefuseToRead ==
    /\ phase = "laid out"
    /\ ~Reads(file)
    /\ phase' = "unread"
    /\ UNCHANGED <<source, layout, file, before, breaks>>

Formatted == format(parse(file).n, layout)

\* format_with_config, when the gate lets the text through.
WriteFile ==
    /\ phase \in {"laid out", "written"}
    /\ Reads(file)
    /\ verify(file, parse(file).n, Formatted)
    /\ file' = Formatted
    /\ before' = file
    /\ phase' = IF phase = "laid out" THEN "written" ELSE "written again"
    /\ UNCHANGED <<source, layout, breaks>>

\* The same when it does not: the file is left alone.
RefuseToWrite ==
    /\ phase \in {"laid out", "written"}
    /\ Reads(file)
    /\ ~verify(file, parse(file).n, Formatted)
    /\ phase' = "refused"
    /\ UNCHANGED <<source, layout, file, before, breaks>>

Next ==
    \/ \E i \in 1 .. Len(file) : BreakLine(i)
    \/ RefuseToRead
    \/ WriteFile
    \/ RefuseToWrite

Spec == Init /\ [][Next]_vars

-----------------------------------------------------------------------------

Meaning(ts) == Bare(parse(ts).n)

\* What the formatter writes says what the source said: the same tree, the
\* operands grouped as they were.  The gate compares tokens and statements, and
\* no more than that; the printer has to see to the rest.  And it does write: a
\* source that parses is refused only if it is one of those the formatter is
\* known not to print, the printer's output passing its own gate otherwise.
KeepsMeaning ==
    /\ phase \in {"written", "written again"} => Reads(file) /\ Meaning(file) = Meaning(before)
    /\ phase = "refused" => ~source.writable

\* Formatting a formatted file changes nothing, its lines included.
FixedPoint == phase = "written again" => file = before

\* One refused statement is one diagnostic, wherever it stands, and costs no
\* other statement: the tree is that of the source without it.
OneMistakeOneDiagnostic ==
    phase = "laid out" /\ breaks = 0 =>
        /\ parse(file).errs = (IF source.rest = source.tokens THEN 0 ELSE 1)
        /\ Meaning(file) = Meaning(source.rest)
=============================================================================
