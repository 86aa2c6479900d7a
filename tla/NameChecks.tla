----------------------------- MODULE NameChecks -----------------------------
(* Names, without running the program: which variables nothing reads         *)
(* (variable_analysis.rs), and which uses of a name reach nothing, or reach  *)
(* out of a function (type_check.rs).  Both walk the statements in the order *)
(* they are written, with a stack of scopes.                                 *)
EXTENDS Checks, TLC

CONSTANT Underscored    \* the names that begin with `_`

-----------------------------------------------------------------------------
(* variable_analysis.rs.  vars is keyed by name over the whole file; what a   *)
(* later declaration of the name displaces is retired.                       *)

Info(at, const) == [at |-> at, const |-> const, used |-> FALSE, assigned |-> FALSE]

NothingDeclared ==
    [vars |-> <<>>, retired |-> {}, view |-> <<{}>>, persisting |-> {},
     nodes |-> <<[parent |-> 0, names |-> {}]>>, current |-> 1, refused |-> {}]

enter_scope(v) ==
    [v EXCEPT !.view = Append(@, {}), !.nodes = Append(@, [parent |-> v.current, names |-> {}]),
              !.current = Len(v.nodes) + 1]
exit_scope(v) == [v EXCEPT !.view = Front(@), !.current = v.nodes[v.current].parent]

declare_variable(v, x, at, const) ==
    LET known == [v EXCEPT !.vars = (x :> Info(at, const)) @@ @]
    IN IF x \in Underscored THEN [known EXCEPT !.nodes[v.current].names = @ \cup {x}]
       ELSE [known EXCEPT !.view[Len(v.view)] = @ \cup {x},
                          !.retired = @ \cup (IF x \in DOMAIN v.vars /\ v.vars[x].at # at
                                              THEN {v.vars[x]} ELSE {})]

RECURSIVE Ancestors(_, _)
Ancestors(v, n) ==
    IF v.nodes[n].parent = 0 THEN {}
    ELSE {v.nodes[n].parent} \cup Ancestors(v, v.nodes[n].parent)

\* A name with `_` may not be reached from a block inside its own.
validate_underscore_access(v, x) ==
    LET holders == {n \in 1 .. Len(v.nodes) : x \in v.nodes[n].names}
    IN \/ v.current \in holders
       \/ holders = {}
       \/ Min(holders) \notin Ancestors(v, v.current)

\* Marks a variable, unless a `_` forbids it.
Touch(v, x, at, field) ==
    IF x \in Underscored /\ ~validate_underscore_access(v, x)
    THEN [v EXCEPT !.refused = @ \cup {<<at, x>>}]
    ELSE IF x \in DOMAIN v.vars THEN [v EXCEPT !.vars[x][field] = TRUE] ELSE v

use_variable(v, x, at) == Touch(v, x, at, "used")
assign_variable(v, x, at) == Touch(v, x, at, "assigned")
Uses(v, on, at) == FoldLeft(LAMBDA w, x : use_variable(w, x, at), v, on)

InView(v, x) == \E i \in 1 .. Len(v.view) : x \in v.view[i]

\* A write that reaches a variable there is assigns it; any other declares one.
reaches_existing(v, x) ==
    x \in DOMAIN v.vars /\ (x \in Underscored \cup v.persisting \/ InView(v, x))

Binds(v, x, at) ==
    IF reaches_existing(v, x) THEN assign_variable(v, x, at) ELSE declare_variable(v, x, at, FALSE)
bind_iterator(v, x, at) ==
    IF InView(v, x) THEN assign_variable(v, x, at) ELSE declare_variable(v, x, at, FALSE)

IsConst(v, x) == x \in DOMAIN v.vars /\ v.vars[x].const

\* A parameter is declared, and counts as used.
declare_parameter(v, x, at) ==
    IF x = NoName THEN v ELSE use_variable(declare_variable(v, x, at, FALSE), x, at)

analyze_own(s, v) ==
    CASE s.k = "set" -> Binds(Uses(v, s.on, s.at), s.x, s.at)
      [] s.k = "hot" -> Binds([Uses(v, s.on, s.at) EXCEPT !.persisting = @ \cup {s.x}], s.x, s.at)
      [] s.k = "const" -> IF IsConst(Uses(v, s.on, s.at), s.x) THEN Uses(v, s.on, s.at)
                          ELSE declare_variable(Uses(v, s.on, s.at), s.x, s.at, TRUE)
      [] s.k = "input" -> IF reaches_existing(v, s.x) THEN Uses(v, s.on, s.at)
                          ELSE declare_variable(Uses(v, s.on, s.at), s.x, s.at, FALSE)
      [] s.k = "end" -> use_variable(v, s.x, s.at)
      [] OTHER -> Uses(v, s.on, s.at)

RECURSIVE Analyzed(_, _)
analyze_block(in, v) == exit_scope(Analyzed(in, enter_scope(v)))

\* A lambda's parameter declared over the outer variable (a mutant).
analyze_lambda_over(p, v) ==
    exit_scope(analyze_block(p.in, declare_parameter(enter_scope(v), p.x, p.at)))

\* A lambda's parameter hides the outer variable for its body only.
analyze_lambda(p, v) ==
    LET outer == [v EXCEPT !.vars = Restrict(@, DOMAIN @ \ {p.x})]
        after == analyze_block(p.in, declare_parameter(enter_scope(outer), p.x, p.at))
        back == Restrict(after.vars, DOMAIN after.vars \ {p.x})
    IN exit_scope([after EXCEPT !.vars = IF p.x \in DOMAIN v.vars THEN (p.x :> v.vars[p.x]) @@ back
                                         ELSE back])

analyze_part(p, s, v) ==
    CASE p.role = "loop" ->
           LET w == enter_scope(v)
           IN exit_scope(Analyzed(p.in, IF s.x = NoName \/ IsConst(w, s.x) THEN w
                                        ELSE bind_iterator(w, s.x, s.at)))
      [] p.role = "function" ->
           exit_scope(analyze_block(p.in, declare_parameter(enter_scope(v), p.x, p.at)))
      [] p.role = "lambda" -> analyze_lambda(p, v)
      [] p.role = "arm" /\ p.x # NoName ->
           exit_scope(analyze_block(p.in, Binds(enter_scope(v), p.x, p.at)))
      [] p.role = "clause" ->
           exit_scope(Analyzed(p.in, declare_variable(enter_scope(v), "_err", p.at, FALSE)))
      [] OTHER -> analyze_block(p.in, Uses(v, p.on, p.at))

Analyzed(in, v) ==
    FoldLeft(LAMBDA w, s : FoldLeft(LAMBDA u, p : analyze_part(p, s, u), analyze_own(s, w), s.parts),
             v, in)

\* The declarations of which it is said that nothing reads them.
Unread(program) ==
    LET v == Analyzed(program, NothingDeclared)
        kept == {v.vars[x] : x \in DOMAIN v.vars \ Underscored}
    IN {d.at : d \in {e \in kept \cup v.retired : ~e.used}}

\* The uses of a `_` name from a block inside its own.
Reaching(program) == Analyzed(program, NothingDeclared).refused

-----------------------------------------------------------------------------
(* type_check.rs, as far as it decides whether a name is there.  A constant   *)
(* is everywhere from where it is declared; a function sees only its own.    *)

NoNames(fns) == [scopes |-> <<{}>>, constants |-> {}, functions |-> fns,
                 boundaries |-> <<>>, floors |-> <<>>, errors |-> {}]

Opens(n) == [n EXCEPT !.scopes = Append(@, {})]
Closes(n) == [n EXCEPT !.scopes = Front(@)]
define_var(n, x) == [n EXCEPT !.scopes[Len(n.scopes)] = @ \cup {x}]
Refuse(n, at, x) == [n EXCEPT !.errors = @ \cup {<<at, x>>}]

Holding(n, x) == {i \in 1 .. Len(n.scopes) : x \in n.scopes[i]}
lookup_var(n, x) == x \in n.constants \/ Holding(n, x) # {}

\* One scope too few is outside (a mutant).
crosses_later(n, x) ==
    /\ n.boundaries # <<>> /\ x \notin n.constants /\ Holding(n, x) # {}
    /\ Max(Holding(n, x)) < Last(n.boundaries) - 1

\* The name lives outside the function whose body this is.
crosses_strong_boundary(n, x) ==
    /\ n.boundaries # <<>> /\ x \notin n.constants /\ Holding(n, x) # {}
    /\ Max(Holding(n, x)) < Last(n.boundaries)

\* A name that is nowhere, or that lives outside the function.
infer_identifier(n, x, at) ==
    IF lookup_var(n, x)
    THEN IF crosses_strong_boundary(n, x) THEN Refuse(n, at, x) ELSE n
    ELSE IF x \in n.functions THEN n ELSE Refuse(n, at, x)

Infers(n, on, at) == FoldLeft(LAMBDA m, x : infer_identifier(m, x, at), n, on)

check_lifetime_end(n, x, at) ==
    IF x \in n.constants \/ ~lookup_var(n, x) \/ crosses_strong_boundary(n, x) THEN Refuse(n, at, x)
    ELSE n

\* Where an assignment writes: where the name lives, if that is on this side
\* of the function and not below the lambda.
home(n, x) ==
    LET at == Max(Holding(n, x))
    IN IF \/ Holding(n, x) = {} \/ x \in n.constants \/ crosses_strong_boundary(n, x)
          \/ n.floors # <<>> /\ at < Last(n.floors)
       THEN Len(n.scopes) ELSE at

Assigns(n, x, at) ==
    IF x \in n.constants THEN Refuse(n, at, x) ELSE [n EXCEPT !.scopes[home(n, x)] = @ \cup {x}]

\* The names written hot in a loop's body, its branches included and the
\* loops in it not.
RECURSIVE collect_pre_hot_vars(_)
collect_pre_hot_vars(in) ==
    UNION {(IF in[i].k = "hot" THEN {in[i].x} ELSE {})
             \cup (IF in[i].k = "if" THEN UNION {collect_pre_hot_vars(b) : b \in Blocks(in[i])} ELSE {}) :
           i \in 1 .. Len(in)}

check_own(s, n) ==
    CASE s.k = "set" -> Assigns(Infers(n, s.on, s.at), s.x, s.at)
      [] s.k = "hot" -> Assigns(Infers(IF lookup_var(n, s.x) THEN n ELSE define_var(n, s.x), s.on, s.at),
                                s.x, s.at)
      [] s.k = "const" -> IF s.x \in n.constants THEN Refuse(n, s.at, s.x)
                          ELSE [Infers(n, s.on, s.at) EXCEPT !.constants = @ \cup {s.x}]
      [] s.k = "input" -> IF s.x \in n.constants THEN Refuse(Infers(n, s.on, s.at), s.at, s.x)
                          ELSE define_var(Infers(n, s.on, s.at), s.x)
      [] s.k = "end" -> check_lifetime_end(n, s.x, s.at)
      [] s.k = "loop" -> LET m == Infers(n, s.on, s.at)
                         IN FoldSet(LAMBDA x, o : IF lookup_var(o, x) THEN o ELSE define_var(o, x), m,
                                    collect_pre_hot_vars(s.parts[1].in))
      [] s.k = "call" -> Infers(infer_identifier(n, s.x, s.at), s.on, s.at)
      [] OTHER -> Infers(n, s.on, s.at)

RECURSIVE Checked(_, _)

Within(f, n) == [n EXCEPT ![f] = Append(@, Len(n.scopes))]
Beyond(f, n) == [n EXCEPT ![f] = Front(@)]
DefineIf(n, x) == IF x = NoName THEN n ELSE define_var(n, x)

check_part(p, s, n) ==
    CASE p.role = "loop" ->
           Closes(Checked(p.in, IF s.x \in n.constants THEN Refuse(Opens(n), s.at, s.x)
                                ELSE DefineIf(Opens(n), s.x)))
      [] p.role = "function" ->
           Closes(Beyond("boundaries", Checked(p.in, DefineIf(Within("boundaries", Opens(n)), p.x))))
      [] p.role = "lambda" ->
           Closes(Beyond("floors", Checked(p.in, Within("floors", DefineIf(Opens(n), p.x)))))
      [] p.role = "arm" /\ p.x # NoName ->
           Closes(Closes(Checked(p.in, Opens(define_var(Opens(n), p.x)))))
      [] p.role = "clause" -> Closes(Checked(p.in, define_var(Opens(n), "_err")))
      [] OTHER -> Closes(Checked(p.in, Opens(Infers(n, p.on, p.at))))

Checked(in, n) ==
    FoldLeft(LAMBDA m, s : FoldLeft(LAMBDA o, p : check_part(p, s, o), check_own(s, m), s.parts), n, in)

\* A file in which one name is a function twice, a function and a variable,
\* or a function and its own parameter.
check_name_collisions(program) ==
    LET funs == {i \in 1 .. Len(program) : program[i].k = "fun"}
    IN {<<program[i].at, program[i].x>> : i \in
          {j \in funs : \/ program[j].parts[1].x = program[j].x
                        \/ \E i \in 1 .. Len(program) :
                             /\ program[i].x = program[j].x
                             /\ program[i].k \in {"set", "hot"} \/ (i \in funs /\ i < j)}}

NameErrors(program) ==
    check_name_collisions(program) \cup Checked(program, NoNames(Functions(program))).errors

\* A program that `check` lets run.
Accepted(program) ==
    StrayJumps(program, <<>>) = {} /\ Reaching(program) = {} /\ NameErrors(program) = {}

\* What it says of a program it lets run.
Report(program) ==
    [unreachable |-> Unreachable(program), destroyed |-> DestroyedReads(program),
     unread |-> Unread(program), incomplete |-> Incomplete(program)]
=============================================================================
