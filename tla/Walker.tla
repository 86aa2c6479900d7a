------------------------------- MODULE Walker -------------------------------
(***************************************************************************)
(* The tree-walking interpreter's statements and expressions               *)
(* (crates/zymbol-interpreter/src/lib.rs, loops.rs, if_stmt.rs, io.rs,     *)
(* expressions.rs, functions_lambda.rs), as the state each leaves.         *)
(*                                                                         *)
(* Two things travel apart.  An error (err) stops whatever is running at   *)
(* once, up to a `!?`.  A `<~`, `@!` or `@>` is left in flow by the        *)
(* statement that ran it, and is looked at when that statement ends.       *)
(***************************************************************************)
EXTENDS Syntax, Scopes, Values

CONSTANT MaxCalls   \* MAX_ACTIVE_CALLS

LOCAL INSTANCE SequencesExt

NoFlow == <<"none">>
Returning(v) == <<"return", v>>
Breaking(label) == <<"break", label>>
Continuing(label) == <<"continue", label>>

(* A call's own frame: a script has no module scope.                       *)
NewFrame ==
  [scopes |-> <<EmptyScope>>, loops |-> <<>>, dead |-> [n \in Names |-> 0],
   moduleScope |-> FALSE]

(***************************************************************************)
(* The interpreter's state: tail holds the arguments of a tail call asked  *)
(* for, ended the names auto-free ended (frees is FALSE to end none),      *)
(* tries how many `!?` are open in this call, calls how many calls are     *)
(* active, val the last value.                                             *)
(***************************************************************************)
Start ==
  [frame |-> NewFrame, moduleDead |-> {}, ended |-> {}, said |-> <<>>,
   flow |-> NoFlow, err |-> NoError, val |-> Unit, fn |-> "", tries |-> 0,
   tail |-> <<>>, wantsTail |-> FALSE, calls |-> 0, frees |-> TRUE]

Throw(s, kind) == [s EXCEPT !.err = kind]
Give(s, v) == [s EXCEPT !.val = v]

(* Go on, unless an error stopped what came before.                        *)
Then(s, F(_)) == IF s.err = NoError THEN F(s) ELSE s

(* set_variable, in the running frame                                      *)
Store(s, x, v) == [SetVariable(s, x, v) EXCEPT !.ended = @ \ {x}]

(* auto_destroy_variable, of each name                                     *)
RECURSIVE AutoDestroy(_, _)

AutoDestroy(s, names) ==
  IF names = {} \/ ~ s.frees THEN s
  ELSE LET x == CHOOSE n \in names : TRUE
           at == Innermost(s.frame.scopes, x)
       IN  AutoDestroy(IF ~ InView(s.frame.scopes, x) THEN s
                       ELSE [s EXCEPT !.frame.scopes[at] = Unbind(@, x),
                                      !.ended = @ \cup {x}],
                       names \ {x})

-----------------------------------------------------------------------------
(* What running a node of the syntax tree, an expression or a statement,   *)
(* leaves of the state s in the program p.                                 *)
RECURSIVE Run(_, _, _)

(* After a statement: whether the next is not to run.                      *)
Stopping(s) == [s |-> s, stop |-> s.err # NoError \/ s.flow # NoFlow]

(* One after the other; the first runs whatever is in flow.                *)
ExecAll(p, s, stmts) ==
  FoldLeft(LAMBDA a, st : IF a.stop THEN a ELSE Stopping(Run(p, a.s, st)),
           [s |-> s, stop |-> FALSE], stmts).s

(* The names whose last statement this was are let go.                     *)
LetLast(ran, names) == IF ran.stop THEN ran ELSE [ran EXCEPT !.s = AutoDestroy(@, names)]

(* execute_body_scheduled                                                  *)
ExecScheduled(p, s, stmts, schedule) ==
  FoldLeftDomain(
    LAMBDA a, i : IF a.stop THEN a ELSE LetLast(Stopping(Run(p, a.s, stmts[i])), schedule[i]),
    [s |-> s, stop |-> FALSE], stmts).s

(* eval_identifier, after check_variable_alive                             *)
Read(s, x) ==
  IF IsEnded(s.frame, s.moduleDead, x) \/ x \in s.ended \/ ~ InView(s.frame.scopes, x)
  THEN Throw(s, "_")
  ELSE Give(s, ValueOf(s.frame.scopes, x))

(* eval_binary: left, right, then the operator.                            *)
Operate(s, op, l, r) ==
  IF op = "CmpEq" THEN Give(s, BoolV(l = r))
  ELSE IF ~ IsInt(l) \/ ~ IsInt(r) THEN Throw(s, "Type")
  ELSE IF op = "DivInt" /\ r[2] = 0 THEN Throw(s, "Div")
  ELSE Give(s, Calculate(op, l[2], r[2]))

EvalBinary(p, s, e) ==
  Then(Run(p, s, e.l), LAMBDA a :
    Then(Run(p, a, e.r), LAMBDA b : Operate(b, e.op, a.val, b.val)))

(* `$!!` leaves a `<~` in flow, and is itself the error.                   *)
EvalPropagate(p, s, e) ==
  Then(Run(p, s, e.e), LAMBDA a :
    IF IsError(a.val) THEN [a EXCEPT !.flow = Returning(a.val)] ELSE a)

(* The left operand alone may decide, and the right is then not evaluated. *)
EvalLogic(p, s, e) ==
  LET conj == e.k = "and"
      MustBool(a) == IF IsBool(a.val) THEN a ELSE Throw(a, "Type")
      Right(a) == IF a.val[2] # conj THEN a
                  ELSE Then(Run(p, a, e.r), MustBool)
  IN  Then(Then(Run(p, s, e.l), MustBool), Right)

(***************************************************************************)
(* lendable_arguments: the output arguments that are plain variables the   *)
(* frame holds, each passed once.                                          *)
(***************************************************************************)
Lendable(s, decl, args) ==
  LET named == {i \in OutPositions(decl) :
                  args[i].k = "name" /\ InView(s.frame.scopes, args[i].x)}
  IN  {i \in named : \A j \in named \ {i} : args[j].x # args[i].x}

Passed(vals, a) == [s |-> a, vals |-> Append(vals, a.val)]

(* The arguments, a lent one as Unit.                                      *)
EvalArgs(p, s, args, lent) ==
  FoldLeftDomain(
    LAMBDA done, i :
      IF done.s.err # NoError THEN done
      ELSE Passed(done.vals, IF i \in lent THEN Give(done.s, Unit) ELSE Run(p, done.s, args[i])),
    [s |-> s, vals |-> <<>>], args)

RECURSIVE LetGo(_, _)

(* The names lent are Unit in the caller while the call runs.              *)
LetGo(f, names) ==
  IF names = {} THEN f
  ELSE LET x == CHOOSE n \in names : TRUE
       IN  LetGo(SetAt(f, Innermost(f.scopes, x), x, Unit), names \ {x})

WriteBack(s, given) == FoldLeft(LAMBDA a, g : Store(a, g.x, g.v), s, given)

(* What the frame gives back through the output parameters at `places`.    *)
GivenBackBy(s, decl, args, places) ==
  LET at == SelectSeq([i \in DOMAIN args |-> i], LAMBDA i : i \in places)
  IN  [n \in DOMAIN at |-> [x |-> args[at[n]].x,
                            v |-> TakeVariable(s.frame, decl.params[at[n]].x, Unit)]]

(* The parameters, as variables of the frame.                              *)
Rebind(s, params, vals) ==
  FoldLeftDomain(LAMBDA a, i : Store(a, params[i].x, vals[i]), s, params)

RECURSIVE RunBody(_, _, _)

(* The frame and its other variables stay.                                 *)
NextTurn(body, decl) ==
  Rebind([body EXCEPT !.flow = NoFlow, !.tail = <<>>, !.wantsTail = FALSE],
         decl.params, body.tail)

(* The body, again for as long as it ended in a call of itself.            *)
AfterBody(p, body, decl) ==
  IF body.err # NoError THEN body
  ELSE IF body.wantsTail THEN RunBody(p, NextTurn(body, decl), decl)
  ELSE [body EXCEPT !.val = IF body.flow[1] = "return" THEN body.flow[2] ELSE Unit,
                    !.flow = NoFlow]

RunBody(p, s, decl) ==
  AfterBody(p, ExecScheduled(p, s, decl.body, BodySchedule(decl)), decl)

(* The caller goes on, with what was lent or bound to an output parameter. *)
Resume(left, at, caller, decl, args, lent) ==
  LET outs == IF left.err # NoError THEN lent
              ELSE {i \in OutPositions(decl) : args[i].k = "name"}
  IN  WriteBack([left EXCEPT !.frame = caller, !.ended = at.ended, !.fn = at.fn,
                             !.tries = at.tries],
                GivenBackBy(left, decl, args, outs))

(* The callee sees its parameters and nothing of the caller.               *)
Enter(p, at, vals, decl, args, lent) ==
  LET passed == [i \in DOMAIN vals |->
                   IF i \in lent THEN ValueOf(at.frame.scopes, args[i].x) ELSE vals[i]]
  IN  Resume(RunBody(p, Rebind([at EXCEPT !.frame = NewFrame, !.ended = {}, !.fn = decl.name,
                                          !.tries = 0],
                               decl.params, passed),
                     decl),
             at, LetGo(at.frame, {args[i].x : i \in lent}), decl, args, lent)

CallWith(p, done, decl, args, lent) ==
  IF done.s.err # NoError THEN done.s ELSE Enter(p, done.s, done.vals, decl, args, lent)

Lend(p, s, decl, args, lent) ==
  CallWith(p, EvalArgs(p, s, args, lent), decl, args, lent)

(***************************************************************************)
(* eval_traditional_function_call.  A call is active while its arguments   *)
(* are computed.                                                           *)
(***************************************************************************)
EvalCall(p, s, e) ==
  LET decl == Declaration(p, e.f)
  IN  IF s.calls >= MaxCalls THEN Throw(s, "Depth")
      ELSE [Lend(p, [s EXCEPT !.calls = @ + 1], decl, e.args, Lendable(s, decl, e.args))
              EXCEPT !.calls = s.calls]

-----------------------------------------------------------------------------
(* Blocks.  A statement runs before flow is looked at.                     *)

(* An error leaves the block's scope behind, for the `!?` to unwind.       *)
ExecBlock(p, s, stmts) ==
  Then(ExecAll(p, [s EXCEPT !.frame = PushScope(@, EmptyScope)], stmts), LAMBDA a :
    [a EXCEPT !.frame = PopScope(@)])

NeedsOwnScope(stmts) == \E i \in DOMAIN stmts : stmts[i].k = "assign"

ExecBranch(p, s, stmts) ==
  IF NeedsOwnScope(stmts) THEN ExecBlock(p, s, stmts) ELSE ExecAll(p, s, stmts)

-----------------------------------------------------------------------------
(* Loops.                                                                  *)

(* body_needs_own_scope: does the body introduce a variable?               *)
BodyNeedsOwnScope(s, stmts) ==
  \E i \in DOMAIN stmts : stmts[i].k = "assign" /\ ~ InView(s.frame.scopes, stmts[i].x)

IsOurs(flow, label) ==
  flow[1] \in {"break", "continue"} /\ flow[2] \in {NoLabel, label}

(* One turn, then handle_loop_control.                                     *)
Turn(p, s, st, needs, GoOn(_)) ==
  Then(IF needs THEN ExecBlock(p, s, st.body) ELSE ExecAll(p, s, st.body), LAMBDA a :
    LET settled == IF IsOurs(a.flow, st.label) THEN [a EXCEPT !.flow = NoFlow] ELSE a
    IN  IF settled.flow = NoFlow /\ a.flow[1] # "break" THEN GoOn(settled) ELSE settled)

RECURSIVE Times(_, _, _, _, _), While(_, _, _, _, _), Endlessly(_, _, _, _),
          Through(_, _, _, _, _)

Times(p, s, st, needs, n) ==
  IF n <= 0 THEN s ELSE Turn(p, s, st, needs, LAMBDA a : Times(p, a, st, needs, n - 1))

(* Each turn but the first computes the condition again.                   *)
While(p, s, st, needs, going) ==
  IF ~ going THEN s
  ELSE Turn(p, s, st, needs, LAMBDA a :
         Then(Run(p, a, st.cond), LAMBDA b :
           IF IsBool(b.val) THEN While(p, b, st, needs, b.val[2]) ELSE Throw(b, "_")))

Endlessly(p, s, st, needs) ==
  Turn(p, s, st, needs, LAMBDA a : Endlessly(p, a, st, needs))

Through(p, s, st, needs, range) ==
  IF range.n > range.high \/ range.n < range.low THEN s
  ELSE Turn(p, Store(s, st.x, IntV(range.n)), st, needs, LAMBDA a :
         Through(p, a, st, needs, [range EXCEPT !.n = @ + range.step]))

(* run_loop: the first value of the condition tells a count from a test.   *)
RunLoop(p, s, st) ==
  CASE st.k = "forever" -> Endlessly(p, s, st, BodyNeedsOwnScope(s, st.body))
    [] st.k = "loop" ->
         Then(Run(p, s, st.cond), LAMBDA a :
           LET needs == BodyNeedsOwnScope(a, st.body) IN
           IF IsInt(a.val) THEN Times(p, a, st, needs, a.val[2])
           ELSE IF IsBool(a.val) THEN While(p, a, st, needs, a.val[2])
           ELSE Throw(a, "_"))
    [] st.k = "range" ->
         Then(Run(p, s, st.from), LAMBDA a :
           Then(Run(p, a, st.to), LAMBDA b :
             LET from == a.val[2]
                 to == b.val[2]
                 range == [n |-> from, step |-> IF from <= to THEN 1 ELSE -1,
                           low |-> IF from <= to THEN from ELSE to,
                           high |-> IF from <= to THEN to ELSE from]
             IN  Through(p, b, st, BodyNeedsOwnScope(b, st.body), range)))

(* execute_loop: a scope of its own, popped whatever happened.             *)
ExecLoop(p, s, st) ==
  LET opened == [s EXCEPT !.frame = [PushScope(@, EmptyScope) EXCEPT
                                       !.loops = Append(@, Len(s.frame.scopes) + 1)]]
      ran == RunLoop(p, opened, st)
  IN  [ran EXCEPT !.frame = [PopScope(@) EXCEPT
                               !.loops = IF @ = <<>> THEN @ ELSE Front(@)]]

-----------------------------------------------------------------------------
(* `!?` *)

(* unwind_scopes_to where the `!?` began                                   *)
Unwound(a, s) ==
  [a EXCEPT !.frame = [PopTo(@, Len(s.frame.scopes)) EXCEPT !.loops = s.frame.loops]]

Inside(p, s, stmts) ==
  [ExecBlock(p, [s EXCEPT !.tries = @ + 1], stmts) EXCEPT !.tries = s.tries]

ClausesFor(st, kind) ==
  {i \in DOMAIN st.clauses : st.clauses[i].kind \in {"_", kind}}

CloseClause(ran, s) ==
  [ran EXCEPT !.frame = IF ran.err = NoError THEN PopScope(@) ELSE @, !.tries = s.tries]

(* execute_catch_block, with the error in _err                             *)
Catch(p, s, block, kind) ==
  LET opened == [s EXCEPT !.frame = PushScope(@, EmptyScope), !.tries = @ + 1, !.err = NoError]
  IN  CloseClause(ExecAll(p, Store(opened, "_err", ErrorV(kind)), block), s)

UnwoundIfFailed(a, s) == IF a.err = NoError THEN a ELSE Unwound(a, s)

(* The first clause that takes the error of the body.                      *)
TryClauses(p, body, s, st) ==
  LET takers == ClausesFor(st, body.err)
      first == CHOOSE i \in takers : \A j \in takers : i <= j
  IN  IF body.err = NoError \/ takers = {} THEN UnwoundIfFailed(body, s)
      ELSE UnwoundIfFailed(Catch(p, Unwound(body, s), st.clauses[first].block, body.err), s)

Attempt(p, s, st) == TryClauses(p, Inside(p, s, st.body), s, st)

(* What is pending waits for the `:>`, and a `:>` that fails replaces it.  *)
(* What the `:>` itself leaves in flow is dropped.                         *)
AfterCleanup(cleaned, tried, s) ==
  IF cleaned.err # NoError THEN Unwound(cleaned, s)
  ELSE [cleaned EXCEPT !.flow = tried.flow, !.err = tried.err]

CleanUp(p, tried, s, st) ==
  IF st.finally = <<>> THEN tried
  ELSE AfterCleanup(Inside(p, [tried EXCEPT !.err = NoError, !.flow = NoFlow], st.finally[1]),
                    tried, s)

(* execute_try                                                             *)
ExecTry(p, s, st) == CleanUp(p, Attempt(p, s, st), s, st)

-----------------------------------------------------------------------------
(* Statements.                                                             *)

(* execute_output: each value is written as soon as it is computed.        *)
Say(p, s, es) ==
  FoldLeft(LAMBDA done, e :
             Then(done, LAMBDA b : Then(Run(p, b, e), LAMBDA a : [a EXCEPT !.said = Append(@, a.val)])),
           s, es)

AskForTurn(passed) ==
  Then(passed.s, LAMBDA a :
    [a EXCEPT !.tail = passed.vals, !.wantsTail = TRUE, !.flow = Returning(Unit)])

(* A call of the running function, outside every `!?`, asks for a turn.    *)
ExecReturn(p, s, e) ==
  IF s.tries = 0 /\ e.k = "call" /\ e.f = s.fn THEN AskForTurn(EvalArgs(p, s, e.args, {}))
  ELSE Then(Run(p, s, e), LAMBDA a : [a EXCEPT !.flow = Returning(a.val)])

ExecIf(p, s, st) ==
  Then(Run(p, s, st.cond), LAMBDA a :
    IF ~ IsBool(a.val) THEN Throw(a, "Type")
    ELSE ExecBranch(p, a, IF a.val[2] THEN st.then ELSE st.else))

(* destroy_variable *)
ExecEnd(s, x) ==
  IF OwnHolders(s.frame, x) # {} THEN Destroy(s, x)
  ELSE IF IsEnded(s.frame, s.moduleDead, x) THEN Throw(s, "_") ELSE s

Run(p, s, node) ==
  CASE node.k = "int" -> Give(s, IntV(node.n))
    [] node.k = "bool" -> Give(s, BoolV(node.b))
    [] node.k = "name" -> Read(s, node.x)
    [] node.k = "bin" -> EvalBinary(p, s, node)
    [] node.k \in {"and", "or"} -> EvalLogic(p, s, node)
    [] node.k = "call" -> EvalCall(p, s, node)
    [] node.k = "error" -> Give(s, ErrorV(node.kind))
    [] node.k = "check" -> Then(Run(p, s, node.e), LAMBDA a : Give(a, BoolV(IsError(a.val))))
    [] node.k = "propagate" -> EvalPropagate(p, s, node)
    [] node.k = "output" -> Say(p, s, node.es)
    [] node.k = "assign" -> Then(Run(p, s, node.e), LAMBDA a : Store(a, node.x, a.val))
    [] node.k = "do" -> Run(p, s, node.e)
    [] node.k = "end" -> ExecEnd(s, node.x)
    [] node.k = "return" -> ExecReturn(p, s, node.e)
    [] node.k = "break" -> [s EXCEPT !.flow = Breaking(node.label)]
    [] node.k = "continue" -> [s EXCEPT !.flow = Continuing(node.label)]
    [] node.k = "if" -> ExecIf(p, s, node)
    [] node.k \in {"loop", "forever", "range"} -> ExecLoop(p, s, node)
    [] node.k = "try" -> ExecTry(p, s, node)

-----------------------------------------------------------------------------
(* execute: a `<~` that reaches the file body ends the program with an     *)
(* exit status, or with the error it carries.                              *)
Verdict(end) ==
  [said |-> end.said,
   outcome |-> IF end.err # NoError THEN Failed(end.err)
               ELSE IF end.flow[1] # "return" THEN Done
               ELSE IF IsError(end.flow[2]) THEN Failed(end.flow[2][2])
               ELSE Exit(end.flow[2])]

(* What the program does, ending variables at their last use or not.       *)
Meaning(p, frees) ==
  Verdict(ExecScheduled(p, [Start EXCEPT !.frees = frees], p.main,
                        RegionSchedule(p.main, {}, {})))
=============================================================================
