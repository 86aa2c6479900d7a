------------------------------ MODULE Compiler ------------------------------
(***************************************************************************)
(* The compiler from the syntax tree to the register machine's bytecode    *)
(* (crates/zymbol-compiler/src/lib.rs): which registers hold what, where   *)
(* every jump goes, what a jump out of a `!?` owes, and what is dropped    *)
(* from the code before it runs.                                           *)
(*                                                                         *)
(* A context c (FunctionCtx) is the function being compiled; an operator   *)
(* gives the context after it, and that of an expression has the register  *)
(* of its value in c.val.                                                  *)
(***************************************************************************)
EXTENDS Syntax, Bytecode, TLC

LOCAL INSTANCE SequencesExt

(* What ZYMBOL_POISON_TEMPS writes over a temporary that is given back.    *)
Poison == IntV(-99)

NewContext(prog, name, body, poison) ==
  [prog |-> prog, name |-> name, map |-> << >>, next |-> 0, live |-> <<>>,
   free |-> <<>>, code |-> <<>>, loops |-> <<>>, tries |-> <<>>, pinned |-> {},
   ended |-> DestroyedNames(body), results |-> {}, poison |-> poison,
   val |-> NoReg, vals |-> <<>>]

-----------------------------------------------------------------------------
(* Code.                                                                   *)

(* The same sequence, which TLC then computes once.                        *)
Listed(seq) == seq \o <<>>

(* A call's result may be a collection; what was added up is a number.     *)
Emit(c, i) ==
  [c EXCEPT !.code = Append(@, i),
            !.results = CASE i.op = "Call" -> @ \cup {i.d}
                          [] i.op \in {"AddInt", "SubInt", "DivInt"} -> @ \ {i.a, i.b}
                          [] OTHER -> @]

EmitAll(c, instructions) == FoldLeft(Emit, c, instructions)

(* The place of the next instruction, and of the last one.                 *)
Label(c) == Len(c.code)
Last1(c) == Len(c.code)

Patch(c, places, to) ==
  [c EXCEPT !.code = Listed([n \in DOMAIN @ |->
                               IF n \in places THEN [@[n] EXCEPT !.to = to] ELSE @[n]])]

PatchHere(c, places) == Patch(c, places, Label(c))

-----------------------------------------------------------------------------
(* Registers.                                                              *)

HasReg(c, x) == x \in DOMAIN c.map

BindReg(c, x, r) == [c EXCEPT !.map = (x :> r) @@ @]

AllocReg(c, x) ==
  IF HasReg(c, x) THEN [c EXCEPT !.val = c.map[x]]
  ELSE [BindReg(c, x, c.next) EXCEPT !.next = @ + 1, !.val = c.next]

AllocTemp(c) ==
  IF c.free # <<>>
  THEN [c EXCEPT !.val = Last(c.free), !.free = Front(@), !.live = Append(@, Last(c.free))]
  ELSE [c EXCEPT !.val = c.next, !.next = @ + 1, !.live = Append(@, c.next)]

(* count temporaries, in c.vals.                                           *)
AllocTemps(c, count) ==
  FoldLeft(LAMBDA a, n : LET t == AllocTemp(a) IN [t EXCEPT !.vals = Append(@, t.val)],
           [c EXCEPT !.vals = <<>>], [n \in 1..count |-> n])

IsNamed(c, r) == \E x \in DOMAIN c.map : c.map[x] = r

(***************************************************************************)
(* release_temps: the statement that began at mark gives its temporaries   *)
(* back, except one that is a variable now.                                *)
(***************************************************************************)
ReleaseTemps(c, mark) ==
  LET given == SelectSeq(SubSeq(c.live, mark + 1, Len(c.live)), LAMBDA r : ~ IsNamed(c, r))
      wiped == IF c.poison THEN given ELSE SelectSeq(given, LAMBDA r : r \in c.results)
  IN  [c EXCEPT !.live = SubSeq(@, 1, mark),
                !.free = @ \o given,
                !.code = @ \o [n \in DOMAIN wiped |->
                                 Load(wiped[n], IF c.poison THEN Poison ELSE Unit)],
                !.results = @ \ ToSet(wiped)]

(* The numbers of S below top, in order.                                   *)
InOrder(S, top) == SelectSeq([n \in 1..top |-> n - 1], LAMBDA n : n \in S)

ClearNames(c, names) ==
  LET rs == InOrder({c.map[x] : x \in names \cap DOMAIN c.map}, c.next)
  IN  [c EXCEPT !.code = @ \o [n \in DOMAIN rs |-> Load(rs[n], Unit)]]

(* zero_new_vars: the variables a block introduced end with it.            *)
ZeroNewVars(c, saved) ==
  [ClearNames(c, DOMAIN c.map \ saved) EXCEPT !.map = [x \in DOMAIN @ \cap saved |-> @[x]]]

(* emit_auto_free: names that have no register are skipped.                *)
AutoFree(c, names) == ClearNames(c, names)

-----------------------------------------------------------------------------
(* A `!?` being compiled: which part of it (body, catch or finally), the   *)
(* registers of its save and its guard (NoReg without one), and its `:>`.  *)

TryCtx(region, save, guard, finally) ==
  [region |-> region, save |-> save, guard |-> guard, finally |-> finally]

InRegion(c, region, t) == [c EXCEPT !.tries = Append(@, [t EXCEPT !.region = region])]
OutOfRegion(c) == [c EXCEPT !.tries = Front(@)]

InFinally(c) == \E n \in DOMAIN c.tries : c.tries[n].region = "finally"

(* A loop being compiled.                                                  *)
PushLoop(c, label) ==
  [c EXCEPT !.loops = Append(@, [label |-> label, breaks |-> {}, continues |-> {},
                                 depth |-> Len(c.tries)])]

PopLoop(c, continueAt) ==
  LET l == Last(c.loops)
      ended == Patch(PatchHere(c, l.breaks), l.continues, continueAt)
  IN  [ended EXCEPT !.loops = Front(@)]

(* loop_target *)
LoopTarget(c, label) ==
  MaxOf({n \in DOMAIN c.loops : label \in {NoLabel, c.loops[n].label}})

(* expr_is_always_bool, and the forms whose last instruction writes them.  *)
Comparison == {"CmpLt", "CmpLe", "CmpGe", "CmpEq"}

RECURSIVE IsAlwaysBool(_)

IsAlwaysBool(e) ==
  \/ e.k = "bool"
  \/ e.k = "bin" /\ e.op \in Comparison
  \/ e.k \in {"and", "or"} /\ IsAlwaysBool(e.l) /\ IsAlwaysBool(e.r)

EndsInOneInstruction(e) == e.k \in {"int", "bool", "bin"}

Retargeted == {"Load", "AddInt", "SubInt", "DivInt"} \cup Comparison

-----------------------------------------------------------------------------
(* The context after a node of the syntax tree, an expression or a         *)
(* statement.                                                              *)
RECURSIVE Compile(_, _)

(* compile_stmt: a statement has its own pinned names and temporaries.     *)
CompileStmt(c, s) ==
  LET done == Compile([c EXCEPT !.pinned = WrittenThroughOutput(c.prog, s)], s)
  IN  ReleaseTemps([done EXCEPT !.pinned = c.pinned], Len(c.live))

CompileBlock(c, stmts) == FoldLeft(CompileStmt, c, stmts)

Guarded(c, t, i) == IF t.guard = NoReg THEN c ELSE Emit(c, i)

(* Mutation of TryExit: a clause is left with its guard armed.             *)
TryExitForgettingGuard(c, t) ==
  CASE t.region = "body" -> Emit(c, TryEnd(t.save))
    [] t.region = "catch" -> c
    [] t.region = "finally" -> Guarded(Emit(c, TryRethrow(t.save)), t, TryRethrow(t.guard))

TryExit(c, t) ==
  CASE t.region = "body" -> Emit(c, TryEnd(t.save))
    [] t.region = "catch" -> Guarded(c, t, TryEnd(t.guard))
    [] t.region = "finally" -> Guarded(Emit(c, TryRethrow(t.save)), t, TryRethrow(t.guard))

(* emit_try_exits: what leaving every `!?` above downTo owes, innermost    *)
(* first.  Each `:>` is compiled again, in its own region.                 *)
EmitTryExits(c, downTo) ==
  LET Leave(a, n) ==
        LET t == c.tries[n]
            left == TryExit(a, t)
            inside == InRegion([left EXCEPT !.tries = SubSeq(c.tries, 1, n - 1)], "finally", t)
        IN  IF t.region = "finally" \/ t.finally = <<>> THEN left
            ELSE CompileBlock(inside, t.finally[1])
      crossed == [n \in 1..(Len(c.tries) - downTo) |-> Len(c.tries) + 1 - n]
  IN  [FoldLeft(Leave, c, crossed) EXCEPT !.tries = c.tries]

-----------------------------------------------------------------------------
(* Expressions.                                                            *)

CompileLiteral(c, v) == LET t == AllocTemp(c) IN Emit(t, Load(t.val, v))

(* A name the statement writes through `<~` is read where it stands.       *)
CompileName(c, x) ==
  LET r == c.map[x]
      alive == IF x \in c.ended THEN Emit(c, OnLocal("CheckAlive", r)) ELSE c
      t == AllocTemp(alive)
  IN  IF x \in c.pinned THEN Emit(t, CopyReg(t.val, r)) ELSE [alive EXCEPT !.val = r]

(* The right operand is a literal: a division takes it from a register.    *)
CompileByLiteral(left, e) ==
  LET t == AllocTemp(left)
      by == AllocTemp(Emit(t, Load(t.val, IntV(e.r.n))))
  IN  IF e.op = "DivInt" THEN Emit(by, Binary(e.op, by.val, left.val, t.val))
      ELSE Emit(t, BinaryImm(e.op, t.val, left.val, IntV(e.r.n)))

CompileBinary(c, e) ==
  LET left == Compile(c, e.l)
      right == Compile(left, e.r)
      t == AllocTemp(right)
  IN  IF e.r.k # "int" THEN Emit(t, Binary(e.op, t.val, left.val, right.val))
      ELSE CompileByLiteral(left, e)

(* compile_and, compile_or *)
CompileLogic(c, e) ==
  LET conj == e.k = "and"
      t == AllocTemp(c)
      left == Compile(t, e.l)
      skip == Emit(Emit(left, RequireBool(left.val)),
                   JumpOn(IF conj THEN "JumpIfNot" ELSE "JumpIf", left.val, 0))
      right == Compile(skip, e.r)
      both == Emit(Emit(right, Binary(IF conj THEN "And" ELSE "Or", t.val, left.val, right.val)),
                   JumpTo(0))
      short == Emit(PatchHere(both, {Last1(skip)}), Load(t.val, BoolV(~ conj)))
  IN  [PatchHere(short, {Last1(both)}) EXCEPT !.val = t.val]

(* An output argument is the variable's own register.                      *)
CompileArgs(c, e, outs) ==
  FoldLeftDomain(
    LAMBDA a, n :
      LET own == n \in outs /\ e.args[n].k = "name"
          done == Compile(IF own THEN [a.c EXCEPT !.pinned = @ \ {e.args[n].x}] ELSE a.c, e.args[n])
      IN  [c |-> [done EXCEPT !.pinned = c.pinned], args |-> Append(a.args, done.val)],
    [c |-> c, args |-> <<>>], e.args)

CompileCall(c, e) ==
  LET outs == OutPositions(Declaration(c.prog, e.f))
      passed == CompileArgs(c, e, outs)
      t == AllocTemp(passed.c)
      lent == InOrder({n - 1 : n \in {m \in outs : e.args[m].k = "name"}}, Len(e.args))
      pairs == [n \in DOMAIN lent |-> <<lent[n], passed.args[lent[n] + 1]>>]
      setup == IF pairs = <<>> THEN t ELSE Emit(t, SetupWriteback(pairs))
  IN  Emit(setup, CallFn(t.val, e.f, passed.args))

(* `$!!` is a `<~` of the value, when that is an error.                    *)
CompilePropagate(c, e) ==
  LET value == Compile(c, e.e)
      t == AllocTemp(value)
      skip == Emit(Emit(t, UnaryOp("IsError", t.val, value.val)), JumpOn("JumpIfNot", t.val, 0))
      out == Emit(EmitTryExits(skip, 0), ReturnReg(value.val))
  IN  IF InFinally(c) THEN value
      ELSE [PatchHere(out, {Last1(skip)}) EXCEPT !.val = value.val]

CompileErrorValue(c, e) ==
  LET m == CompileLiteral(c, TextV("message"))
      t == AllocTemp(m)
  IN  Emit(t, MakeError(t.val, e.kind, m.val))

CompileCheck(c, e) ==
  LET value == Compile(c, e.e)
      t == AllocTemp(value)
  IN  Emit(t, UnaryOp("IsError", t.val, value.val))

-----------------------------------------------------------------------------
(* Statements.                                                             *)

(* compile_assignment, store_to_name_with: the value is written straight   *)
(* to the variable when one instruction computes it in a temporary.        *)
CompileAssign(c, s) ==
  LET value == Compile(c, s.e)
      dst == AllocReg(value, s.x)
      tail == Last(dst.code)
      direct == /\ EndsInOneInstruction(s.e)
                /\ ~ IsNamed(dst, value.val)
                /\ tail.op \in Retargeted /\ tail.d = value.val
      stored == IF value.val = dst.val THEN dst
                ELSE IF direct THEN [dst EXCEPT !.code[Len(dst.code)].d = dst.val]
                ELSE Emit(dst, CopyReg(dst.val, value.val))
  IN  IF s.x \in c.ended THEN Emit(stored, OnLocal("Revive", dst.val)) ELSE stored

CompileOutput(c, es) ==
  FoldLeft(LAMBDA a, e : LET value == Compile(a, e) IN Emit(value, PrintReg(value.val)), c, es)

CompileIf(c, s) ==
  LET cond == Compile(c, s.cond)
      skip == Emit(cond, JumpOn("JumpIfNotCond", cond.val, 0))
      then == Emit(ZeroNewVars(CompileBlock(skip, s.then), DOMAIN skip.map), JumpTo(0))
      else == PatchHere(then, {Last1(skip)})
  IN  PatchHere(ZeroNewVars(CompileBlock(else, s.else), DOMAIN else.map), {Last1(then)})

(* The body runs at least once: the count is at least 1.                   *)
CompileTimes(c, s) ==
  LET t == AllocTemps(c, 4)
      i == t.vals[1]
      end == t.vals[2]
      fwd == t.vals[3]
      one == t.vals[4]
      start == EmitAll(t, <<Load(i, IntV(0)), Load(end, IntV(s.cond.n - 1)),
                            Load(one, IntV(1)), Load(fwd, BoolV(TRUE))>>)
      body == CompileBlock(PushLoop(start, s.label), s.body)
      step == Emit(body, RangeStep(i, end, one, fwd, Label(start)))
  IN  IF s.cond.n <= 0 THEN c ELSE PopLoop(step, Label(body))

CompileWhile(c, s) ==
  LET cond == Compile(PushLoop(c, s.label), s.cond)
      skip == Emit(cond, JumpOn("JumpIfNot", cond.val, 0))
      body == Emit(CompileBlock(skip, s.body), JumpTo(Label(c)))
  IN  PopLoop(PatchHere(body, {Last1(skip)}), Label(c))

CompileForever(c, s) ==
  LET body == Emit(CompileBlock(PushLoop(c, s.label), s.body), JumpTo(Label(c)))
  IN  PopLoop(body, Label(c))

(***************************************************************************)
(* compile_adaptive_loop: whether the value counts the turns or is tested  *)
(* before each is known when it is first computed, and that first value is *)
(* not computed again.  The registers r hold it, whether it is an Int, the *)
(* turns done, a comparison, 0 and the value that is tested.               *)
(***************************************************************************)
AdaptiveTurns(test, r, s, top) ==
  LET body == CompileBlock(PatchHere(test, {top + 4}), s.body)
      next == EmitAll(body, <<BinaryImm("AddInt", r[3], r[3], IntV(1)), JumpTo(top)>>)
  IN  PopLoop(PatchHere(next, {top + 3, Last1(test)}), Label(body))

AdaptiveTest(c, r, s, top) ==
  LET checked == AllocTemp(PatchHere(c, {top + 8}))
  IN  AdaptiveTurns(EmitAll(checked, <<UnaryOp("AsLoopCond", checked.val, r[6]),
                                       JumpOn("JumpIfNot", checked.val, 0)>>), r, s, top)

AdaptiveCond(start, r, s) ==
  LET top == Label(start)
      again == EmitAll(PushLoop(start, s.label),
                 <<JumpOn("JumpIfNot", r[2], top + 4),
                   Binary("CmpGe", r[4], r[3], r[1]), JumpOn("JumpIf", r[4], 0), JumpTo(0),
                   Binary("CmpEq", r[4], r[3], r[5]), JumpOn("JumpIfNot", r[4], top + 8),
                   CopyReg(r[6], r[1]), JumpTo(0)>>)
      cond == Compile(again, s.cond)
  IN  AdaptiveTest(Emit(cond, CopyReg(r[6], cond.val)), r, s, top)

CompileAdaptive(c, s) ==
  LET first == Compile(c, s.cond)
      t == AllocTemps(first, 6)
      r == t.vals
  IN  AdaptiveCond(EmitAll(t, <<CopyReg(r[1], first.val), UnaryOp("IsInt", r[2], r[1]),
                                Load(r[3], IntV(0)), Load(r[5], IntV(0))>>), r, s)

(* compile_loop *)
CompileLoop(c, s) ==
  IF s.cond.k = "int" THEN CompileTimes(c, s)
  ELSE IF IsAlwaysBool(s.cond) THEN CompileWhile(c, s)
  ELSE CompileAdaptive(c, s)

(* The counter is hidden: the variable gets a copy of it each turn.        *)
CompileRange(c, s) ==
  LET i == AllocReg(c, s.x)
      t == AllocTemps(i, 4)
      cnt == t.vals[1]
      end == t.vals[2]
      step == t.vals[3]
      fwd == t.vals[4]
      from == Compile(t, s.from)
      to == Compile(Emit(from, CopyReg(cnt, from.val)), s.to)
      ready == EmitAll(to, <<CopyReg(end, to.val), Load(step, IntV(1)),
                             Binary("CmpLe", fwd, cnt, end)>>)
      published == Emit(PushLoop(ready, s.label), CopyReg(i.val, cnt))
      bound == IF s.x \in c.ended THEN Emit(published, OnLocal("Revive", i.val)) ELSE published
      body == CompileBlock(bound, s.body)
  IN  PopLoop(Emit(body, RangeStep(cnt, end, step, fwd, Label(ready))), Label(body))

CompileBreak(c, s) ==
  LET at == LoopTarget(c, s.label)
      jump == Emit(EmitTryExits(c, c.loops[at].depth), JumpTo(0))
  IN  [jump EXCEPT !.loops[at].breaks = @ \cup {Last1(jump)}]

CompileContinue(c, s) ==
  LET at == LoopTarget(c, s.label)
      jump == Emit(EmitTryExits(c, c.loops[at].depth), JumpTo(0))
  IN  [jump EXCEPT !.loops[at].continues = @ \cup {Last1(jump)}]

(* A call of the function itself replaces the frame, which must not have a *)
(* handler armed, nor owe a `:>`.                                          *)
IsTailCall(c, e) == e.k = "call" /\ e.f = c.name /\ c.tries = <<>>

(* Mutation of CompileReturn: the value is read when the `:>` has run.     *)
CompileReturnLate(c, s) ==
  LET value == Compile(c, s.e)
      passed == CompileArgs(c, s.e, {})
  IN  IF InFinally(c) THEN value
      ELSE IF IsTailCall(c, s.e) THEN Emit(passed.c, TailCallFn(s.e.f, passed.args))
      ELSE Emit(EmitTryExits(value, 0), ReturnReg(value.val))

(* In a `:>` a `<~` only evaluates.  The value is fixed before any `:>`.   *)
CompileReturn(c, s) ==
  LET value == Compile(c, s.e)
      passed == CompileArgs(c, s.e, {})
      held == AllocTemp(value)
      out == EmitTryExits(Emit(held, CopyReg(held.val, value.val)), 0)
  IN  IF InFinally(c) THEN value
      ELSE IF IsTailCall(c, s.e) THEN Emit(passed.c, TailCallFn(s.e.f, passed.args))
      ELSE IF c.tries = <<>> THEN Emit(value, ReturnReg(value.val))
      ELSE Emit(out, ReturnReg(held.val))

(* While the clauses are compiled: the context, the jumps to the `:>`, the *)
(* places that arm the guard, and whether a clause for every error closed  *)
(* the list.                                                               *)
Clauses(c, exits, begins, closed) ==
  [c |-> c, exits |-> exits, begins |-> begins, closed |-> closed]

(* The clause's error is dealt with, and a failure of the clause itself    *)
(* must still reach the `:>`.                                              *)
MatchClause(c, t) ==
  LET handled == Emit(c, TryHandled(t.save))
  IN  IF t.guard = NoReg THEN handled ELSE Emit(handled, TryBegin(0, t.guard))

CompileClause(k, clause, t, kind) ==
  LET typed == clause.kind # "_"
      str == AllocTemp(k.c)
      eq == AllocTemp(Emit(str, Load(str.val, TextV(clause.kind))))
      test == EmitAll(eq, <<Binary("CmpEq", eq.val, kind, str.val), JumpOn("JumpIfNot", eq.val, 0)>>)
      match == MatchClause(IF typed THEN test ELSE k.c, t)
      block == OutOfRegion(CompileBlock(InRegion(match, "catch", t), clause.block))
      out == Emit(Guarded(block, t, TryEnd(t.guard)), JumpTo(0))
      begins == IF t.guard = NoReg THEN k.begins ELSE k.begins \cup {Last1(match)}
  IN  IF k.closed THEN k
      ELSE Clauses(IF typed THEN PatchHere(out, {Last1(test)}) ELSE out,
                   k.exits \cup {Last1(out)}, begins, ~ typed)

(* The body, and where its errors land.                                    *)
CompileTryBody(begin, s, t, err) ==
  LET body == OutOfRegion(CompileBlock(InRegion(begin, "body", t), s.body))
      leave == EmitAll(body, <<TryEnd(t.save), JumpTo(0)>>)
      land == Emit(PatchHere(leave, {Last1(begin)}), TryLand(t.save, err))
  IN  Clauses(BindReg(land, "_err", err), {Last1(leave)}, {}, FALSE)

CompileClauses(k, s, t) ==
  LET typed == \E n \in DOMAIN s.clauses : s.clauses[n].kind # "_"
      kind == AllocTemp(k.c)
      loaded == [k EXCEPT !.c = Emit(kind, LoadErrorKind(kind.val))]
  IN  FoldLeft(LAMBDA a, clause : CompileClause(a, clause, t, kind.val),
               IF typed THEN loaded ELSE k, s.clauses)

(* No clause takes the error, or the one that took it failed: on to the    *)
(* `:>`, with that error pending.                                          *)
JoinClauses(k, t) ==
  LET missed == Emit(k.c, JumpTo(0))
      err == AllocTemp(PatchHere(missed, k.begins))
      failed == IF t.guard = NoReg THEN missed ELSE Emit(err, TryLand(t.guard, err.val))
  IN  PatchHere(failed, k.exits \cup {Last1(missed)})

CompileCleanup(c, s, t) ==
  LET cleaned == IF s.finally = <<>> THEN c
                 ELSE OutOfRegion(CompileBlock(InRegion(c, "finally", t), s.finally[1]))
  IN  Guarded(Emit(cleaned, TryRethrow(t.save)), t, TryRethrow(t.guard))

(***************************************************************************)
(* compile_try.  One guard serves every clause.  An error no clause takes, *)
(* and the error of a clause that failed, is pending through the `:>` and  *)
(* leaves after it.                                                        *)
(***************************************************************************)
CompileTry(c, s) ==
  LET hasGuard == s.finally # <<>> /\ s.clauses # <<>>
      room == AllocTemps(c, IF hasGuard THEN 3 ELSE 2)
      t == TryCtx("body", room.vals[1], IF hasGuard THEN room.vals[3] ELSE NoReg, s.finally)
      tried == CompileTryBody(Emit(room, TryBegin(0, t.save)), s, t, room.vals[2])
  IN  CompileCleanup(JoinClauses(CompileClauses(tried, s, t), t), s, t)

(* compile_expr, compile_stmt_inner *)
Compile(c, node) ==
  CASE node.k = "int" -> CompileLiteral(c, IntV(node.n))
    [] node.k = "bool" -> CompileLiteral(c, BoolV(node.b))
    [] node.k = "name" -> CompileName(c, node.x)
    [] node.k = "bin" -> CompileBinary(c, node)
    [] node.k \in {"and", "or"} -> CompileLogic(c, node)
    [] node.k = "call" -> CompileCall(c, node)
    [] node.k = "error" -> CompileErrorValue(c, node)
    [] node.k = "check" -> CompileCheck(c, node)
    [] node.k = "propagate" -> CompilePropagate(c, node)
    [] node.k = "output" -> CompileOutput(c, node.es)
    [] node.k = "assign" -> CompileAssign(c, node)
    [] node.k = "do" -> Compile(c, node.e)
    [] node.k = "end" -> Emit(c, OnLocal("DestroyLocal", c.map[node.x]))
    [] node.k = "return" -> CompileReturn(c, node)
    [] node.k = "break" -> CompileBreak(c, node)
    [] node.k = "continue" -> CompileContinue(c, node)
    [] node.k = "if" -> CompileIf(c, node)
    [] node.k = "loop" -> CompileLoop(c, node)
    [] node.k = "forever" -> CompileForever(c, node)
    [] node.k = "range" -> CompileRange(c, node)
    [] node.k = "try" -> CompileTry(c, node)

-----------------------------------------------------------------------------
(* Chunks.                                                                 *)

(* A body with its schedule: a name is let go after its last statement.    *)
CompileRegion(c, stmts, schedule) ==
  FoldLeftDomain(LAMBDA a, n : AutoFree(CompileStmt(a, stmts[n]), schedule[n]), c, stmts)

BindParams(c, params) == FoldLeft(LAMBDA a, param : AllocReg(a, param.x), c, params)

Successors(code, n) ==
  LET i == code[n + 1] IN
  (IF FallsThrough(i) THEN {n + 1} ELSE {}) \cup (IF i.op \in Jumps THEN {i.to} ELSE {})

RECURSIVE Reachable(_, _)

(* The instructions, counted from 0, that run may reach from those of S.   *)
Reachable(code, S) ==
  LET more == S \cup {n \in UNION {Successors(code, m) : m \in S} : n < Len(code)}
  IN  IF more = S THEN S ELSE Reachable(code, more)

IsLoadUnit(i) == i.op = "Load" /\ i.v = Unit

(* Clears the frame's end makes pointless: only clears between them and a  *)
(* Return, of some other register.                                         *)
IdleClears(code) ==
  {n \in 0..(Len(code) - 1) :
     /\ IsLoadUnit(code[n + 1])
     /\ \E m \in (n + 1)..(Len(code) - 1) :
          /\ \A j \in (n + 1)..(m - 1) : IsLoadUnit(code[j + 1])
          /\ code[m + 1].op = "Return" /\ code[m + 1].a # code[n + 1].d}

(* Mutation of RegsUsed: a register that is only written is forgotten.     *)
RegsRead(i) == Registers([i EXCEPT !.d = NoReg])

(* max_reg_used, of one instruction.                                       *)
RegsUsed(i) == Registers(i)

(* eliminate_dead_code *)
EliminateDeadCode(code, nregs, nparams) ==
  LET kept == Reachable(code, {0}) \ IdleClears(code)
      order == InOrder(kept, Len(code))
      moved(n) == Cardinality({m \in kept : m < n})
      new == Listed([n \in DOMAIN order |->
                       LET i == code[order[n] + 1]
                       IN  IF i.op \in Jumps THEN [i EXCEPT !.to = moved(@)] ELSE i])
      used == UNION {RegsUsed(new[n]) : n \in DOMAIN new}
  IN  IF kept = 0..(Len(code) - 1) THEN Chunk(code, nregs, nparams)
      ELSE Chunk(new, MaxOf({r + 1 : r \in used} \cup {nparams, IF nregs > 0 THEN 1 ELSE 0}),
                 nparams)

(* into_chunk *)
IntoChunk(c, nparams) ==
  EliminateDeadCode(Append(c.code, Halt), c.next, nparams)

(* A body that runs off its end returns Unit.                              *)
CloseBody(c, nparams) ==
  LET t == AllocTemp(c)
  IN  IntoChunk(EmitAll(t, <<Load(t.val, Unit), ReturnReg(t.val)>>), nparams)

(* compile_function *)
CompileFunction(prog, decl, poison) ==
  LET c == BindParams(NewContext(prog, decl.name, decl.body, poison), decl.params)
  IN  CloseBody(CompileRegion(c, decl.body, BodySchedule(decl)), Len(decl.params))

CompileMain(prog, poison) ==
  IntoChunk(CompileRegion(NewContext(prog, Main, prog.main, poison), prog.main,
                          RegionSchedule(prog.main, {}, {})), 0)

CompileFunctions(prog, poison) ==
  FoldLeft(LAMBDA image, decl : (decl.name :> CompileFunction(prog, decl, poison)) @@ image,
           << >>, prog.fns)

(* compile_named *)
CompileProgram(prog, poison) ==
  (Main :> CompileMain(prog, poison)) @@ CompileFunctions(prog, poison)
=============================================================================
