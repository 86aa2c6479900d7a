----------------------------- MODULE MCEngines -----------------------------
(***************************************************************************)
(* Programs for the two engines: every way control leaves, from every      *)
(* place two constructs deep, and the rules of calls.                      *)
(***************************************************************************)
EXTENDS Engines

MCNames == {"n", "m", "x", "y", "i", "j", "b", "c", "r", "q", "_err"}

-----------------------------------------------------------------------------
(* Parts of programs.                                                      *)

Mark(n) == Output(<<Num(n)>>)
Fails == Do(Bin("DivInt", Num(1), Num(0)))
Next1Of(x) == Assign(x, Bin("AddInt", Name(x), Num(1)))
ShowsError == Output(<<Name("_err")>>)

(* A `:>` that shows itself and changes what a `<~` returns.               *)
Cleanup(d) == << Mark(30 + d), Assign("x", Bin("AddInt", Name("x"), Num(10))) >>

Caught(body, clauses, d) == <<Try(body, clauses, <<Cleanup(d)>>)>>

Places ==
  {"body", "clause", "other clause", "typed", "untaken", "cleanup", "cleanup of error",
   "cleanup of return", "no cleanup", "if", "times", "while", "forever", "range",
   "count", "flag"}

Loops == {"times", "while", "forever", "range", "count", "flag"}
Cleanups == {"cleanup", "cleanup of error", "cleanup of return"}

(* The statements that put hole in that place; d tells nested places apart.*)
Around(place, d, hole) ==
  LET i == IF d = 1 THEN "i" ELSE "j"
      b == IF d = 1 THEN "b" ELSE "c"
      label == IF d = 1 THEN "out" ELSE NoLabel
      marked == <<Mark(20 + d)>> \o hole \o <<Mark(40 + d)>>
  IN CASE place = "body" -> Caught(marked, <<Clause("_", <<ShowsError>>)>>, d)
       [] place = "clause" -> Caught(<<Fails>>, <<Clause("_", marked)>>, d)
       [] place = "other clause" ->
            Caught(<<Fails>>, <<Clause("Type", <<Mark(9)>>), Clause("Div", marked),
                                Clause("_", <<Mark(8)>>)>>, d)
       [] place = "typed" -> <<Try(marked, <<Clause("Div", <<ShowsError>>)>>, <<>>)>>
       [] place = "untaken" -> Caught(marked, <<Clause("Index", <<ShowsError>>)>>, d)
       [] place = "cleanup" -> <<Try(<<Mark(20 + d)>>, <<>>, <<hole \o Cleanup(d)>>)>>
       [] place = "cleanup of error" ->
            <<Try(<<Fails>>, <<Clause("Type", <<Mark(9)>>)>>, <<hole \o Cleanup(d)>>)>>
       [] place = "cleanup of return" ->
            <<Try(<<Return(Name("x"))>>, <<>>, <<hole \o Cleanup(d)>>)>>
       [] place = "no cleanup" -> <<Try(<<Fails>>, <<Clause("_", marked)>>, <<>>)>>
       [] place = "if" -> <<If(Bin("CmpEq", Name("n"), Num(1)), marked, <<Mark(7)>>)>>
       [] place = "times" -> <<Loop(label, Num(2), marked)>>
       [] place = "while" ->
            <<Assign(i, Num(0)), Loop(label, Bin("CmpLt", Name(i), Num(2)), <<Next1Of(i)>> \o marked)>>
       [] place = "forever" ->
            <<Assign(i, Num(0)),
              Forever(label, <<Next1Of(i), If(Bin("CmpGe", Name(i), Num(3)), <<Break(NoLabel)>>, <<>>)>>
                               \o marked)>>
       [] place = "range" -> <<ForRange(label, i, Num(2), Num(1), <<Output(<<Name(i)>>)>> \o marked)>>
       [] place = "count" -> <<Assign(i, Num(2)), Loop(label, Name(i), marked)>>
       [] place = "flag" ->
            <<Assign(b, Truth(TRUE)), Loop(label, Name(b), <<Assign(b, Truth(FALSE))>> \o marked)>>

(* The ways out of a place, among them simply going on.                    *)
Leaves ==
  [goOn |-> <<Mark(5)>>,
   fail |-> <<Fails>>,
   mistype |-> <<Do(Bin("AddInt", Truth(TRUE), Num(1)))>>,
   break |-> <<Break(NoLabel)>>,
   continue |-> <<Continue(NoLabel)>>,
   breakOut |-> <<Break("out")>>,
   continueOut |-> <<Continue("out")>>,
   return |-> <<Return(Name("x"))>>,
   again |-> <<If(Bin("CmpGe", Name("n"), Num(1)),
                  <<Return(Call("f", <<Bin("SubInt", Name("n"), Num(1))>>))>>, <<>>)>>,
   propagate |-> <<Do(Propagate(ErrorValue("Index")))>>]

Leaving == {"break", "continue", "breakOut", "continueOut", "return", "again", "propagate"}

(* What the way out needs: a loop to leave, which no `:>` stands before.   *)
InPlace(leaf, outer, inner) ==
  CASE leaf \in {"break", "continue"} ->
         \/ inner \in Loops
         \/ outer \in Loops /\ inner \notin Cleanups
    [] leaf \in {"breakOut", "continueOut"} -> outer \in Loops \ {"cleanup"} /\ inner \notin Cleanups
    [] leaf \in Leaving -> outer \notin Cleanups /\ inner \notin Cleanups
    [] OTHER -> TRUE

(* No `<~` in a `:>` either, as the body of an inner `!?`.                 *)
Nests(outer, inner) == ~ (outer \in Cleanups /\ inner = "cleanup of return")

Nested(outer, inner, leaf) ==
  Program(<<Function("f", <<Param("n", FALSE)>>,
              <<Assign("x", Num(1))>>
                \o Around(outer, 1, Around(inner, 2, Leaves[leaf]))
                \o <<Mark(6), Return(Name("x"))>>)>>,
          <<Try(<<Output(<<Call("f", <<Num(1)>>)>>)>>, <<Clause("_", <<ShowsError>>)>>, <<>>),
            Mark(99)>>)

WaysOut ==
  {Nested(t[1], t[2], t[3]) :
     t \in {u \in Places \X Places \X DOMAIN Leaves :
              InPlace(u[3], u[1], u[2]) /\ Nests(u[1], u[2])}}

-----------------------------------------------------------------------------
(* Output arguments: what is lent, where from, and what becomes of it.     *)

Plus(l, n) == Bin("AddInt", l, Num(n))
X == Name("x")
A == Name("n")
Lent == <<Param("n", TRUE)>>
Add1 == Assign("n", Plus(A, 1))

(* What the function does with the variable it was lent, in n.             *)
Borrowers ==
  [writes |-> <<Add1, Return(A)>>,
   fails |-> <<Add1, Fails, Return(A)>>,
   falls |-> <<Add1, Mark(3)>>,
   lends |-> <<Add1, Do(Call("g", <<A>>)), Return(A)>>,
   cleans |-> <<Try(<<Add1, Return(A)>>, <<>>, <<<<Add1>>>>)>>,
   catches |-> <<Try(<<Add1, Do(Call("g", <<A>>))>>, <<Clause("_", <<Add1>>)>>, <<>>),
                 Fails>>,
   local |-> <<Assign("y", Plus(A, 1)), LifetimeEnd("y"), Assign("n", Num(8)), Return(A)>>]

CallOfF == Call("f", <<X>>)

(* How the lender calls it, with its variable x.                           *)
Lenders ==
  [alone |-> <<Do(CallOfF)>>,
   after |-> <<Output(<<Bin("AddInt", X, CallOfF)>>)>>,
   before |-> <<Output(<<Bin("AddInt", CallOfF, X)>>)>>,
   twice |-> <<Output(<<Call("add", <<CallOfF, CallOfF>>)>>)>>,
   kept |-> <<Assign("x", Bin("AddInt", CallOfF, X))>>,
   tested |-> <<If(Bin("CmpLt", X, CallOfF), <<Mark(1)>>, <<Mark(2)>>)>>,
   listed |-> <<Output(<<X, CallOfF, X>>)>>,
   looped |-> <<Loop(NoLabel, Bin("CmpLt", CallOfF, Num(4)), <<Output(<<X>>)>>)>>,
   guarded |-> <<Try(<<Output(<<X, CallOfF>>)>>, <<Clause("_", <<Output(<<X, CallOfF>>)>>)>>,
                     <<<<Output(<<X>>)>>>>)>>]

Lending(lender, borrower) ==
  Program(<<Function("f", Lent, Borrowers[borrower]),
            Function("g", Lent, <<Assign("n", Plus(A, 5)), Fails>>),
            Function("add", <<Param("n", FALSE), Param("m", FALSE)>>,
                     <<Return(Bin("AddInt", A, Name("m")))>>)>>,
          <<Assign("x", Num(1)),
            Try(Lenders[lender], <<Clause("_", <<ShowsError>>)>>, <<>>),
            Output(<<X>>)>>)

LendersAndBorrowers ==
  {Lending(t[1], t[2]) : t \in (DOMAIN Lenders) \X (DOMAIN Borrowers)}

-----------------------------------------------------------------------------
(* Single rules.                                                           *)

Script(stmts) == Program(<<>>, stmts)
Guard(stmts) == Try(stmts, <<Clause("_", <<ShowsError>>)>>, <<>>)
Shown(e) == Guard(<<Output(<<e>>)>>)
SomeError == ErrorValue("Index")

(* `&&` and `||`: the left operand may decide; both must be Bools.         *)
Operands == {Truth(TRUE), Truth(FALSE), Num(1)}

Logics == {Script(<<Shown(And(l, r)), Shown(Or(l, r)), Shown(And(Or(r, l), Bin("CmpLe", r, l)))>>) :
             l, r \in Operands}

(* Conditions of every type, for `?` and `@`, and one that changes type.   *)
Conditions ==
  {Script(<<Assign("i", Num(0)),
            Guard(<<If(v, <<Mark(1)>>, <<Mark(2)>>)>>),
            Assign("b", v),
            Guard(<<Loop(NoLabel, Name("b"),
                         <<Next1Of("i"), Output(<<Name("i")>>),
                           If(Bin("CmpGe", Name("i"), Num(3)), <<Assign("b", last)>>, <<>>)>>)>>),
            Output(<<Name("i")>>)>>) :
     v \in Operands \cup {Num(0), Num(2), SomeError}, last \in {Truth(FALSE), Num(0)}}

(* `\ x`, with what comes before and after it.                             *)
Ends ==
  {Script(<<Assign("x", Num(1))>> \o before \o <<Guard(<<LifetimeEnd("x")>>)>> \o after) :
     before \in {<<>>, <<LifetimeEnd("x")>>, <<LifetimeEnd("x"), Assign("x", Num(2))>>},
     after \in {<<Shown(X)>>, <<Assign("x", Num(3)), Shown(X)>>,
                <<ForRange(NoLabel, "x", Num(0), Num(1), <<Shown(X), LifetimeEnd("x")>>)>>,
                <<Shown(Check(X))>>}}

(* A call that ends its local, twice, the first time left by an error.     *)
EndsInCalls ==
  {Program(<<Function("f", <<Param("n", FALSE)>>,
               <<Assign("y", A), LifetimeEnd("y"),
                 If(Bin("CmpEq", A, Num(1)), <<Fails>>, <<>>), out>>)>>,
           <<Guard(<<Do(Call("f", <<Num(1)>>))>>), Shown(Call("f", <<Num(2)>>)),
             Shown(Call("f", <<Num(3)>>))>>) :
     out \in {Return(A), Mark(4), Return(Name("y"))}}

(* Recursion up to and past the depth limit, from a `!?` or not, and tail  *)
(* calls past it; an output parameter keeps its value from turn to turn.   *)
Counts(n) ==
  {Program(<<Function("f", <<Param("n", FALSE), Param("m", TRUE)>>,
               <<If(Bin("CmpEq", A, Num(0)), <<Return(Name("m"))>>, <<>>),
                 Assign("m", Plus(Name("m"), 2))>> \o out)>>,
           <<Assign("x", Num(1)), Shown(Call("f", <<Num(n), X>>)), Output(<<X>>)>>) :
     out \in {<<Return(Call("f", <<Bin("SubInt", A, Num(1)), Name("m")>>))>>,
              <<Assign("m", Plus(Name("m"), 0)),
                Return(Call("f", <<Bin("SubInt", A, Num(1)), Plus(Name("m"), 1)>>))>>}}

Deep(n) ==
  {Program(<<Function("f", <<Param("n", FALSE)>>,
               <<If(Bin("CmpEq", A, Num(0)), <<Return(Num(0))>>, <<>>)>> \o out)>>,
           <<Try(<<Output(<<Call("f", <<Num(n)>>)>>)>>,
                 <<Clause("Depth", <<Mark(9)>>), Clause("_", <<ShowsError>>)>>, <<>>)>>) :
     out \in {<<Return(Plus(Call("f", <<Bin("SubInt", A, Num(1))>>), 1))>>,
              <<Assign("r", Call("f", <<Bin("SubInt", A, Num(1))>>)), Return(Name("r"))>>,
              <<Guard(<<Return(Call("f", <<Bin("SubInt", A, Num(1))>>))>>), Return(Num(5))>>}}

(* The end of the program: a value, an error carried out, an error nothing *)
(* caught, from the file body and from a `:>` of it.                       *)
Endings ==
  {Script(<<Assign("x", v)>> \o way \o <<Mark(9)>>) :
     v \in {Num(3), SomeError},
     way \in {<<Return(X)>>, <<Do(Propagate(X))>>, <<Shown(Check(X))>>, <<Output(<<X>>)>>,
              <<Do(Bin("AddInt", X, Num(1)))>>,
              <<Try(<<Do(Bin("AddInt", X, Num(1)))>>, <<>>, <<<<Mark(4)>>>>)>>,
              <<Try(<<Return(X)>>, <<>>, <<<<Assign("x", Num(4))>>>>)>>,
              <<Try(<<Return(X)>>, <<>>, <<<<Fails>>>>)>>}}

(* A variable used only in a block after its region's last statement that  *)
(* names it outright, in a loop, and as what the body returns.             *)
Uses ==
  {Program(<<Function("f", <<Param("n", FALSE)>>,
               <<Assign("y", Plus(A, 1)), Mark(1), use, last>>)>>,
           <<Assign("x", Num(2)), Shown(Call("f", <<X>>)), Loop(NoLabel, Num(2), <<Shown(X)>>)>>) :
     use \in {If(Truth(TRUE), <<Output(<<Name("y")>>)>>, <<>>),
              Loop(NoLabel, Num(2), <<If(Truth(TRUE), <<Output(<<Name("y"), A>>)>>, <<>>)>>),
              Try(<<Fails>>, <<Clause("_", <<Assign("y", Plus(Name("y"), 1))>>)>>,
                  <<<<Output(<<Name("y")>>)>>>>)},
     last \in {Return(A), Return(Name("y")), Mark(2)}}

Rules ==
  Logics \cup Conditions \cup Ends \cup EndsInCalls \cup Endings \cup Uses
    \cup UNION {Counts(n) \cup Deep(n) : n \in 1..5}

MCPrograms == WaysOut \cup LendersAndBorrowers \cup Rules
=============================================================================
