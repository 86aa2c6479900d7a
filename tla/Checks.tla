------------------------------- MODULE Checks -------------------------------
(* What `check` says of a program without running it: four passes of         *)
(* zymbol-semantic, each a walk over the statements.  A statement keeps its  *)
(* kind, the name it writes, the names it reads, what its condition folds to *)
(* and its blocks; values and types are left out.                            *)
EXTENDS Integers, Sequences, FiniteSets, SequencesExt, FiniteSetsExt

(***************************************************************************)
(* A statement [k, x, on, c, label, parts] and a block's part              *)
(* [role, on, c, x, pats, in].                                             *)
(*   k    : set x = on, hot °x = on, const x := on, input << x, read >> on,*)
(*          end \ x, return, break, continue, if, loop, match, try, tui,   *)
(*          fun, lambda (a block lambda that an operator calls), call      *)
(*   c    : what a condition folds to: "#1", "#0", or "?"; for a loop also *)
(*          "each" (over something) and "ever" (no condition)              *)
(*   role : branch, else, loop, function, lambda, arm, try, clause,        *)
(*          finally, tui; x is the parameter or the name an arm binds      *)
(***************************************************************************)
NoName == ""

Stmt(k, x, on) == [k |-> k, x |-> x, on |-> on, c |-> "?", label |-> NoName, parts |-> <<>>]
With(s, c, label, parts) == [s EXCEPT !.c = c, !.label = label, !.parts = parts]
Part(role, on, c, x, pats, in) ==
    [role |-> role, on |-> on, c |-> c, x |-> x, pats |-> pats, in |-> in]

Blank(role, in) == Part(role, <<>>, "?", NoName, {}, in)

\* Every statement and part with its place in the source: the numbers of the
\* statements and parts it is inside.
RECURSIVE WithSpans(_, _)
WithSpans(in, at) ==
    [i \in 1 .. Len(in) |->
       [at |-> at \o <<i>>] @@
       [in[i] EXCEPT !.parts =
          [j \in 1 .. Len(in[i].parts) |->
             [at |-> at \o <<i, j>>] @@
             [in[i].parts[j] EXCEPT !.in = WithSpans(in[i].parts[j].in, at \o <<i, j>>)]]]]

Blocks(s) == {s.parts[j].in : j \in 1 .. Len(s.parts)}

Jumps == {"return", "break", "continue"}
Functions(program) == {program[i].x : i \in {j \in 1 .. Len(program) : program[j].k = "fun"}}

-----------------------------------------------------------------------------
(* unreachable.rs *)

HasElse(s) == \E j \in 1 .. Len(s.parts) : s.parts[j].role = "else"

RECURSIVE block_leaves(_)
leaves(s) ==
    \/ s.k \in Jumps
    \/ s.k = "if" /\ HasElse(s) /\ \A in \in Blocks(s) : block_leaves(in)
block_leaves(in) == \E i \in 1 .. Len(in) : leaves(in[i])

FirstOf(in) == IF in = <<>> THEN {} ELSE {in[1].at}

\* What follows any statement that leaves on some path (a mutant).
AfterExitOfAny(in) ==
    LET exits == {i \in 1 .. Len(in) : leaves(in[i]) \/ \E b \in Blocks(in[i]) : block_leaves(b)}
    IN IF exits = {} \/ Min(exits) = Len(in) THEN {} ELSE {in[Min(exits) + 1].at}

\* What follows the first statement that always leaves.
AfterExit(in) ==
    LET exits == {i \in 1 .. Len(in) : leaves(in[i])}
    IN IF exits = {} \/ Min(exits) = Len(in) THEN {} ELSE {in[Min(exits) + 1].at}

Conditions(s) == {j \in 1 .. Len(s.parts) : s.parts[j].role = "branch"}
Decides(s) == {j \in Conditions(s) : s.parts[j].c = "#1"}
Reached(s, j) == \A i \in Decides(s) : i >= j

\* The branches a constant condition rules out.
DeadBranches(s) ==
    LET never == {j \in Conditions(s) : Reached(s, j) /\ s.parts[j].c = "#0"}
        later == {j \in 1 .. Len(s.parts) : ~Reached(s, j) /\ s.parts[j].in # <<>>}
    IN UNION {FirstOf(s.parts[j].in) : j \in never}
         \cup (IF later = {} THEN {} ELSE FirstOf(s.parts[Min(later)].in))

DeadBlocks(s) ==
    CASE s.k = "if" -> DeadBranches(s)
      [] s.k = "loop" /\ s.c = "#0" -> FirstOf(s.parts[1].in)
      [] OTHER -> {}

RECURSIVE Unreachable(_)
Unreachable(in) ==
    AfterExit(in) \cup UNION {DeadBlocks(in[i]) \cup UNION {Unreachable(b) : b \in Blocks(in[i])} :
                              i \in 1 .. Len(in)}

-----------------------------------------------------------------------------
(* loop_context.rs *)

\* A jump needs a loop around it, or the one with its label.
control(s, labels) ==
    IF s.label = NoName THEN labels = <<>>
    ELSE \A i \in 1 .. Len(labels) : labels[i] # s.label

\* A lambda that sees the loops around it (a mutant).
InScopeThroughLambda(s, p, labels) ==
    CASE p.role = "loop" -> Append(labels, s.label)
      [] p.role = "function" -> <<>>
      [] OTHER -> labels

\* The loops a part's statements can leave: a function or a lambda sees none.
InScope(s, p, labels) ==
    CASE p.role = "loop" -> Append(labels, s.label)
      [] p.role \in {"function", "lambda"} -> <<>>
      [] OTHER -> labels

RECURSIVE StrayJumps(_, _)
StrayJumps(in, labels) ==
    UNION {(IF in[i].k \in {"break", "continue"} /\ control(in[i], labels) THEN {in[i].at} ELSE {})
             \cup UNION {StrayJumps(in[i].parts[j].in, InScope(in[i], in[i].parts[j], labels)) :
                         j \in 1 .. Len(in[i].parts)} :
           i \in 1 .. Len(in)}

-----------------------------------------------------------------------------
(* match_coverage.rs.  A pattern is a set of alternatives [op, k]: op is "_", *)
(* "bool" or "lit" with the literal k, or a comparison with the constant k.   *)

Alternatives(s) == UNION {s.parts[j].pats : j \in 1 .. Len(s.parts)}

\* Touching bounds of which neither is included (a mutant).
CoversBut(lo, hi) ==
    \/ lo.op \in {"<", "<="} /\ hi.op \in {">", ">="} /\ hi.k <= lo.k
    \/ lo.op = "==" /\ hi.op = "<>" /\ lo.k = hi.k

\* Two comparisons that leave no number out.
Covers(lo, hi) ==
    \/ /\ lo.op \in {"<", "<="} /\ hi.op \in {">", ">="}
       /\ hi.k < lo.k \/ (hi.k = lo.k /\ (lo.op = "<=" \/ hi.op = ">="))
    \/ lo.op = "==" /\ hi.op = "<>" /\ lo.k = hi.k

complete(s) ==
    \/ \E a \in Alternatives(s) : a.op = "_"
    \/ {a.k : a \in {b \in Alternatives(s) : b.op = "bool"}} = {0, 1}
    \/ \E lo, hi \in Alternatives(s) : Covers(lo, hi)

RECURSIVE Incomplete(_)
Incomplete(in) ==
    UNION {(IF in[i].k = "match" /\ ~complete(in[i]) THEN {in[i].at} ELSE {})
             \cup UNION {Incomplete(b) : b \in Blocks(in[i])} : i \in 1 .. Len(in)}

-----------------------------------------------------------------------------
(* destroyed.rs.  st says whether the place can be reached, which names are   *)
(* certainly destroyed there, and what was warned on the way.                *)

Alive == [reached |-> TRUE, dead |-> {}, said |-> {}]
Unreached(st) == [st EXCEPT !.reached = FALSE, !.dead = {}]

\* Destroyed on either path (a mutant).
meet_any(a, b) ==
    [reached |-> a.reached \/ b.reached, dead |-> a.dead \cup b.dead, said |-> a.said \cup b.said]

\* Destroyed on both paths; a path that cannot get here has no say.
meet(a, b) ==
    [reached |-> a.reached \/ b.reached,
     dead |-> CASE ~a.reached -> b.dead [] ~b.reached -> a.dead [] OTHER -> a.dead \cap b.dead,
     said |-> a.said \cup b.said]

revive(st, x) == [st EXCEPT !.dead = @ \ {x}]
reads(at, on, st) == [st EXCEPT !.said = @ \cup {<<at, x>> : x \in ToSet(on) \cap st.dead}]
OnlySaid(st, from) == [st EXCEPT !.said = @ \cup from.said]

Writes == {"set", "hot", "const", "input"}

\* Only what the block itself assigns (a mutant).
AssignedAtOnce(in) == {in[i].x : i \in {j \in 1 .. Len(in) : in[j].k \in Writes}}

\* Every name a block can assign at any depth, functions and lambdas aside.
RECURSIVE assigned_in(_)
assigned_in(in) ==
    UNION {(IF in[i].k \in Writes \/ (in[i].k = "loop" /\ in[i].x # NoName) THEN {in[i].x} ELSE {})
             \cup (IF in[i].k \in {"fun", "lambda"} THEN {}
                   ELSE UNION {assigned_in(b) : b \in Blocks(in[i])}) : i \in 1 .. Len(in)}

Without(st, names) == [st EXCEPT !.dead = @ \ names]

RECURSIVE Walked(_, _, _)

\* The branches that can run, each from what is destroyed before the `?`; a
\* chain that nothing decides and that has no `_` may run none of them.
WalkIf(s, st, fns) ==
    LET seen == FoldSet(LAMBDA j, u : reads(s.parts[j].at, s.parts[j].on, u), st,
                        {j \in 1 .. Len(s.parts) : Reached(s, j)})
        runs == {j \in 1 .. Len(s.parts) : Reached(s, j) /\ s.parts[j].c # "#0"}
        ends == [j \in runs |-> Walked(s.parts[j].in, st, fns)]
        out == FoldSet(LAMBDA j, o : meet(o, ends[j]), Unreached(seen), runs)
    IN IF HasElse(s) \/ Decides(s) # {} THEN out ELSE meet(out, seen)

\* What the body assigns is not certain on a later turn, nor after the loop.
WalkLoop(s, st, fns) ==
    LET body == s.parts[1].in
        kept == Without(st, assigned_in(body) \cup {s.x})
    IN IF s.c = "#0" THEN st ELSE OnlySaid(kept, Walked(body, kept, fns))

\* No arm may match: an error, but a path.
WalkMatch(s, st, fns) ==
    FoldLeft(LAMBDA o, p : meet(o, Walked(p.in, revive(st, p.x), fns)), st, s.parts)

\* A failure can come before the block's `\` or after an assignment of it.
WalkTry(s, st, fns) ==
    LET after == Walked(s.parts[1].in, st, fns)
        failed == Without(st, assigned_in(s.parts[1].in))
        out == FoldLeft(LAMBDA o, p : meet(o, Walked(p.in, failed, fns)), after,
                        SelectSeq(s.parts, LAMBDA p : p.role = "clause"))
        finally == SelectSeq(s.parts, LAMBDA p : p.role = "finally")
    IN IF finally = <<>> THEN out
       ELSE OnlySaid(out, Walked(finally[1].in, meet(failed, after), fns))

WalkStmt(s, st, fns) ==
    LET read == reads(s.at, s.on, st)
    IN CASE ~st.reached ->
              IF s.k = "fun" THEN OnlySaid(st, Walked(s.parts[1].in, Alive, fns)) ELSE st
         [] st.reached /\ s.k = "end" -> IF s.x \in fns THEN st ELSE [st EXCEPT !.dead = @ \cup {s.x}]
         [] st.reached /\ s.k \in Writes -> revive(IF s.k = "input" THEN st ELSE read, s.x)
         [] st.reached /\ s.k \in Jumps -> Unreached(read)
         [] st.reached /\ s.k = "fun" -> OnlySaid(st, Walked(s.parts[1].in, Alive, fns))
         [] st.reached /\ s.k = "if" -> WalkIf(s, st, fns)
         [] st.reached /\ s.k = "loop" -> WalkLoop(s, read, fns)
         [] st.reached /\ s.k = "match" -> WalkMatch(s, read, fns)
         [] st.reached /\ s.k = "try" -> WalkTry(s, st, fns)
         [] st.reached /\ s.k = "tui" -> Walked(s.parts[1].in, st, fns)
         [] OTHER -> read

Walked(in, st, fns) == FoldLeft(LAMBDA u, s : WalkStmt(s, u, fns), st, in)

\* The reads that are certain to fail: <<place, name>>.
DestroyedReads(program) == Walked(program, Alive, Functions(program)).said
=============================================================================
