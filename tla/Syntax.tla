------------------------------- MODULE Syntax -------------------------------
(***************************************************************************)
(* The syntax tree (crates/zymbol-ast) that the two engines share, as      *)
(* records whose field k tells the kinds apart, and the two facts about    *)
(* a program that both engines ask the analysis for                        *)
(* (crates/zymbol-semantic/src/last_use.rs): which names a statement       *)
(* mentions, and after which statement of a region a name is last used.    *)
(*                                                                         *)
(* Names, labels and error kinds are strings.  A block is a sequence of    *)
(* statements.  Kept: the statements that move control, calls with output  *)
(* arguments, errors as values and as exceptions, and the end of a name.   *)
(***************************************************************************)
EXTENDS Naturals, Sequences, FiniteSets

NoLabel == ""

-----------------------------------------------------------------------------
(* Expressions.                                                            *)

Num(n) == [k |-> "int", n |-> n]
Truth(b) == [k |-> "bool", b |-> b]
Name(x) == [k |-> "name", x |-> x]
Bin(op, l, r) == [k |-> "bin", op |-> op, l |-> l, r |-> r]
And(l, r) == [k |-> "and", l |-> l, r |-> r]
Or(l, r) == [k |-> "or", l |-> l, r |-> r]

(* f(args): which arguments are output arguments is the declaration's.     *)
Call(f, args) == [k |-> "call", f |-> f, args |-> args]

ErrorValue(kind) == [k |-> "error", kind |-> kind]   \* ##Kind("message")
Check(e) == [k |-> "check", e |-> e]                 \* e$!
Propagate(e) == [k |-> "propagate", e |-> e]         \* e$!!

-----------------------------------------------------------------------------
(* Statements.                                                             *)

Output(es) == [k |-> "output", es |-> es]
Assign(x, e) == [k |-> "assign", x |-> x, e |-> e]
Do(e) == [k |-> "do", e |-> e]
LifetimeEnd(x) == [k |-> "end", x |-> x]             \* \ x
Return(e) == [k |-> "return", e |-> e]
Break(label) == [k |-> "break", label |-> label]
Continue(label) == [k |-> "continue", label |-> label]

If(cond, then, else) ==
  [k |-> "if", cond |-> cond, then |-> then, else |-> else]

(* `@ cond { }`, `@ { }` and `@ x:from..to { }`.                           *)
Loop(label, cond, body) ==
  [k |-> "loop", label |-> label, cond |-> cond, body |-> body]
Forever(label, body) == [k |-> "forever", label |-> label, body |-> body]
ForRange(label, x, from, to, body) ==
  [k |-> "range", label |-> label, x |-> x, from |-> from, to |-> to,
   body |-> body]

(* A clause with kind "_" catches every error; finally is <<>> or one      *)
(* block.                                                                  *)
Clause(kind, block) == [kind |-> kind, block |-> block]
Try(body, clauses, finally) ==
  [k |-> "try", body |-> body, clauses |-> clauses, finally |-> finally]

(* A function declaration, and a program: its functions and its file body. *)
Param(x, out) == [x |-> x, out |-> out]
Function(f, params, body) == [name |-> f, params |-> params, body |-> body]
Program(fns, main) == [fns |-> fns, main |-> main]

IsFunction(p, f) == \E i \in DOMAIN p.fns : p.fns[i].name = f

Declaration(p, f) ==
  LET i == CHOOSE j \in DOMAIN p.fns : p.fns[j].name = f IN p.fns[i]

OutPositions(decl) == {i \in DOMAIN decl.params : decl.params[i].out}

-----------------------------------------------------------------------------
(* What an expression, a statement and a block hold directly.              *)

SubExprs(e) ==
  CASE e.k \in {"bin", "and", "or"} -> <<e.l, e.r>>
    [] e.k = "call" -> e.args
    [] e.k \in {"check", "propagate"} -> <<e.e>>
    [] OTHER -> <<>>

ExprsOf(s) ==
  CASE s.k = "output" -> s.es
    [] s.k \in {"assign", "do", "return"} -> <<s.e>>
    [] s.k \in {"if", "loop"} -> <<s.cond>>
    [] s.k = "range" -> <<s.from, s.to>>
    [] OTHER -> <<>>

BlocksOf(s) ==
  CASE s.k = "if" -> <<s.then, s.else>>
    [] s.k \in {"loop", "forever", "range"} -> <<s.body>>
    [] s.k = "try" -> <<s.body>> \o [i \in DOMAIN s.clauses |-> s.clauses[i].block]
                        \o s.finally
    [] OTHER -> <<>>

RECURSIVE ExprNames(_)

(* scan_expr *)
ExprNames(e) ==
  (IF e.k = "name" THEN {e.x} ELSE {})
    \cup UNION {ExprNames(SubExprs(e)[i]) : i \in DOMAIN SubExprs(e)}

(* The name a statement itself writes or ends.                             *)
OwnName(s) == IF s.k \in {"assign", "end", "range"} THEN {s.x} ELSE {}

RECURSIVE Mentions(_)

(* scan_stmt: every name anywhere in the statement, nested blocks included *)
Mentions(s) ==
  OwnName(s)
    \cup UNION {ExprNames(ExprsOf(s)[i]) : i \in DOMAIN ExprsOf(s)}
    \cup UNION {UNION {Mentions(BlocksOf(s)[i][j]) :
                         j \in DOMAIN BlocksOf(s)[i]} : i \in DOMAIN BlocksOf(s)}

(* creations: what a statement of the region itself gives a value.         *)
Creations(s) == IF s.k = "assign" THEN {s.x} ELSE {}

MaxOf(S) == CHOOSE n \in S : \A m \in S : m <= n

(* Mutation of LastUse: the first statement that mentions the name.        *)
FirstUse(stmts, x) ==
  CHOOSE i \in DOMAIN stmts :
    x \in Mentions(stmts[i]) /\ \A j \in 1..(i - 1) : x \notin Mentions(stmts[j])

LastUse(stmts, x) == MaxOf({i \in DOMAIN stmts : x \in Mentions(stmts[i])})

(***************************************************************************)
(* region_schedule: the names to end after each statement of a region,     *)
(* among those the region creates and its parameters, less the excluded.   *)
(***************************************************************************)
RegionSchedule(stmts, params, excluded) ==
  LET candidates == (params \cup UNION {Creations(stmts[i]) : i \in DOMAIN stmts})
                      \ (excluded \cup {"_err"})
      mentioned == {x \in candidates : \E i \in DOMAIN stmts : x \in Mentions(stmts[i])}
  IN  [i \in DOMAIN stmts |-> {x \in mentioned : LastUse(stmts, x) = i}]

(* By-value parameters are candidates; output parameters feed the caller.  *)
BodySchedule(decl) ==
  LET outs == {decl.params[i].x : i \in OutPositions(decl)}
      all == {decl.params[i].x : i \in DOMAIN decl.params}
  IN  RegionSchedule(decl.body, all \ outs, outs)

RECURSIVE DestroyedNames(_)

(* destroyed_names: every name a `\` ends anywhere in these statements.    *)
DestroyedNames(stmts) ==
  UNION {(IF stmts[i].k = "end" THEN {stmts[i].x} ELSE {})
           \cup UNION {DestroyedNames(BlocksOf(stmts[i])[j]) :
                         j \in DOMAIN BlocksOf(stmts[i])} : i \in DOMAIN stmts}

RECURSIVE WrittenByCalls(_, _)

(* names_written_through_output, of one expression and what it holds.      *)
WrittenByCalls(p, e) ==
  (IF e.k = "call"
   THEN {e.args[i].x : i \in {j \in OutPositions(Declaration(p, e.f)) :
                                e.args[j].k = "name"}}
   ELSE {})
    \cup UNION {WrittenByCalls(p, SubExprs(e)[i]) : i \in DOMAIN SubExprs(e)}

RECURSIVE WrittenThroughOutput(_, _)

(* names_written_through_output: nested blocks are included.               *)
WrittenThroughOutput(p, s) ==
  UNION {WrittenByCalls(p, ExprsOf(s)[i]) : i \in DOMAIN ExprsOf(s)}
    \cup UNION {UNION {WrittenThroughOutput(p, BlocksOf(s)[i][j]) :
                         j \in DOMAIN BlocksOf(s)[i]} : i \in DOMAIN BlocksOf(s)}
=============================================================================
