------------------------------ MODULE MCChecks ------------------------------
(* Families of programs for CheckedRuns: every way to fill the blocks of a    *)
(* construct with a few statements about one name.                           *)
EXTENDS CheckedRuns

Set(x) == Stmt("set", x, <<>>)
Copy(x, y) == Stmt("set", x, <<y>>)
ReadOf(x) == Stmt("read", NoName, <<x>>)
EndOf(x) == Stmt("end", x, <<>>)
Hop(k) == Stmt(k, NoName, <<>>)
Labelled(k, label) == [Hop(k) EXCEPT !.label = label]

\* The blocks of at most n of the statements.
Upto(n, S) == UNION {[1 .. m -> S] : m \in 0 .. n}

IfOf(parts) == With(Stmt("if", NoName, <<>>), "?", NoName, parts)
Branch(c, in) == Part("branch", <<>>, c, NoName, {}, in)
LoopOf(c, x, label, in) == With(Stmt("loop", x, <<>>), c, label, <<Blank("loop", in)>>)
TryOf(parts) == With(Stmt("try", NoName, <<>>), "?", NoName, parts)
MatchOf(parts) == With(Stmt("match", NoName, <<>>), "?", NoName, parts)
Arm(pats, x, in) == Part("arm", <<>>, "?", x, pats, in)
Fun(f, x, in) == With(Stmt("fun", f, <<>>), "?", NoName, <<Part("function", <<>>, "?", x, {}, in)>>)
LambdaOf(x, in) == With(Stmt("lambda", NoName, <<>>), "?", NoName, <<Part("lambda", <<>>, "?", x, {}, in)>>)

Lives == {Set("x"), ReadOf("x"), EndOf("x")}
Short == Upto(1, Lives \cup {Hop("return")})
Long == Upto(2, Lives \cup {Hop("return")})
InLoop == Upto(1, Lives \cup {Hop("break"), Hop("continue")})

\* One construct in which x lives, is read and is ended.
Branching ==
    {IfOf(<<Branch(c, a), Branch(d, b)>>) : c \in {"?", "#0"}, d \in {"?", "#1"}, a, b \in Short}
      \cup {IfOf(<<Branch(c, a), Blank("else", b)>>) : c \in {"?", "#0", "#1"}, a, b \in Short}
      \cup {IfOf(<<Branch("?", a)>>) : a \in Long}
Looping ==
    {LoopOf(c, x, NoName, a \o b) : c \in {"?", "each", "#0"}, x \in {NoName}, a, b \in InLoop}
      \cup {LoopOf("each", "x", NoName, a) : a \in InLoop}
      \cup {LoopOf("ever", NoName, NoName, <<IfOf(<<Branch("?", a), Blank("else", b)>>)>> \o c) :
              a \in InLoop, b \in {<<Hop("break")>>}, c \in Upto(1, Lives)}
Trying ==
    {TryOf(<<Blank("try", a), Blank("clause", b)>>) : a \in Long, b \in Short}
      \cup {TryOf(<<Blank("try", a), Blank("clause", b), Blank("finally", c)>>) :
              a, b \in Short, c \in Upto(1, Lives)}
Matching ==
    {MatchOf(<<Arm({[op |-> "error", k |-> 0]}, x, a), Arm({[op |-> "_", k |-> 0]}, NoName, b)>>) :
       x \in {"x", "m"}, a, b \in Short}

Construct == Branching \cup Looping \cup Trying \cup Matching
                \cup {With(Stmt("tui", NoName, <<>>), "?", NoName, <<Blank("tui", a)>>) : a \in Long}

Living == {<<Set("x")>> \o pre \o <<s, ReadOf("x")>> : pre \in {<<>>, <<EndOf("x")>>}, s \in Construct}

-----------------------------------------------------------------------------
\* Blocks beside and inside one another, with two names, a constant and a name
\* with `_`.
Uses2 == {Set("x"), Copy("y", "x"), Copy("x", "y"), ReadOf("x"), ReadOf("y"), Set("_t"), ReadOf("_t")}
Inner == {<<a>> : a \in Uses2} \cup {<<Set("x"), a>> : a \in Uses2} \cup {<<Set("_t"), ReadOf("_t")>>}
Beside == {IfOf(<<Branch("?", a)>>) : a \in Inner}
            \cup {LoopOf("each", x, NoName, a) : x \in {"x", "y"}, a \in Inner}
            \cup {IfOf(<<Branch("?", <<IfOf(<<Branch("?", a)>>)>>)>>) : a \in Inner}
Naming == {<<d, s, t, r>> : d \in {Set("x"), Set("y"), Stmt("const", "x", <<>>)},
                            s, t \in Beside, r \in {ReadOf("x"), Set("x")}}
            \cup {<<d, s, r>> : d \in {Set("x"), Set("_t")}, s \in Beside, r \in Uses2}

\* A function, a lambda and the names on both sides of them.
Crossing == {Set("x"), Copy("x", "p"), ReadOf("x"), ReadOf("p"), EndOf("x"),
             Stmt("return", NoName, <<"p">>), Stmt("return", NoName, <<"x">>)}
Calling ==
    {<<Set("x"), Fun("f", "p", a), Stmt("call", "f", <<y>>)>> \o b :
       a \in Upto(2, Crossing), y \in {"x", "p"}, b \in Upto(1, {ReadOf("x")})}
      \cup {<<Set("x")>> \o e \o <<LambdaOf(p, a)>> \o b :
              e \in Upto(1, {Set("p")}), p \in {"p", "x"}, a \in Upto(2, Crossing \ {EndOf("x")}),
              b \in {<<ReadOf("x")>>, <<Copy("y", "x")>>, <<>>}}

\* A jump inside loops with and without a label, in `?`, `!?`, `??` and `>>|`
\* blocks, in a function and in a lambda.
Leap == {Hop("break"), Hop("continue"), Labelled("break", "out"), Labelled("continue", "out"),
         Labelled("break", "in"), Hop("return")}
Wrapped(s) == {<<s>>, <<IfOf(<<Branch("?", <<s>>)>>)>>, <<LambdaOf(NoName, <<s>>)>>,
               <<TryOf(<<Blank("try", <<s>>), Blank("clause", <<s>>)>>)>>,
               <<MatchOf(<<Arm({[op |-> "_", k |-> 0]}, NoName, <<s>>)>>)>>,
               <<With(Stmt("tui", NoName, <<>>), "?", NoName, <<Blank("tui", <<s>>)>>)>>}
Looped(in) == {in, <<LoopOf("?", NoName, "in", in)>>, <<LoopOf("each", "i", NoName, in)>>}
Jumping ==
    UNION {UNION {{<<LoopOf("each", "i", l, v)>>, <<Fun("f", NoName, v), Stmt("call", "f", <<>>)>>,
                   <<LoopOf("each", "i", l, <<LambdaOf(NoName, v)>>)>>, v} :
                  v \in UNION {Looped(w) : w \in Wrapped(s)}, l \in {NoName, "out"}} : s \in Leap}

\* A `??` of one to three arms over numbers, over booleans and over what may be
\* an error.
NumArm == {{[op |-> o, k |-> k]} : o \in {"<", "<=", ">", ">=", "==", "<>", "lit"}, k \in {1, 2}}
BoolArm == {{[op |-> "bool", k |-> k]} : k \in {0, 1}}
             \cup {{[op |-> "bool", k |-> k] : k \in {0, 1}}}
Wild == {{[op |-> "_", k |-> 0]}}
Arms(n, pats) == {[i \in 1 .. Len(f) |-> Arm(f[i], NoName, <<>>)] : f \in Upto(n, pats) \ {<<>>}}
Covering == {<<Set("x"), [MatchOf(a) EXCEPT !.on = <<"x">>]>> :
               a \in Arms(2, NumArm) \cup Arms(2, BoolArm \cup Wild)
                       \cup {b \o c : b \in Arms(1, NumArm), c \in Arms(1, Wild)}}

\* Jumps at the end of branches inside branches, and conditions that fold.
Leaves == Upto(1, {Hop("return"), Hop("break"), ReadOf("x")})
Forks == {IfOf(<<Branch(c, a), Blank("else", b)>>) : c \in {"?", "#1"}, a, b \in Leaves}
Leaving ==
    {<<Set("x"), LoopOf("each", NoName, NoName,
                        <<IfOf(<<Branch(c, <<f>>), Branch("?", a), Blank("else", b)>>), ReadOf("x")>>)>> :
       c \in {"?", "#0"}, f \in Forks, a, b \in Leaves}

\* Hot names in a loop that turns at least once.
Heating ==
    {<<LoopOf("ever", NoName, NoName, <<Stmt("hot", "h", <<y>>)>> \o a \o <<Hop("break")>>), ReadOf("h")>> :
       y \in {"h"}, a \in Upto(1, {ReadOf("h"), Copy("h", "h"), IfOf(<<Branch("?", <<ReadOf("h")>>)>>)})}

\* A construct inside a construct, around the one name, and a loop whose
\* condition reads it.
While(in) == [LoopOf("?", NoName, NoName, in) EXCEPT !.on = <<"x">>]
Small == Upto(1, Lives)
Inside == {IfOf(<<Branch("?", a), Blank("else", b)>>) : a, b \in Small \cup {<<Hop("break")>>}}
            \cup {IfOf(<<[Branch("?", a) EXCEPT !.on = <<"x">>]>>) : a \in Small}
            \cup {TryOf(<<Blank("try", a), Blank("clause", b)>>) : a, b \in Small}
            \cup {LoopOf("each", NoName, NoName, a) : a \in Upto(2, Lives)}
Around(t) ==
    {LoopOf("each", NoName, NoName, t), While(t), TryOf(<<Blank("try", t), Blank("clause", <<>>)>>),
     IfOf(<<Branch("?", t)>>), IfOf(<<Branch("#1", t)>>), IfOf(<<Branch("?", <<EndOf("x")>>), Blank("else", t)>>)}
      \cup {TryOf(<<Blank("try", a), Blank("clause", b), Blank("finally", t)>>) :
              a \in {<<>>, <<EndOf("x")>>}, b \in {<<>>, <<Set("x")>>}}
Nesting ==
    UNION {{<<Set("x")>> \o pre \o <<s, ReadOf("x")>> : s \in Around(<<t>> \o after)} :
             t \in Inside, after \in Upto(1, Lives), pre \in {<<>>, <<EndOf("x")>>}}

MCPrograms ==
    Living \cup Naming \cup Calling \cup Jumping \cup Covering \cup Leaving \cup Heating \cup Nesting

MCScrutinees ==
    [kind : {"num"}, k : -1 .. 3] \cup [kind : {"bool"}, k : {0, 1}] \cup [kind : {"error"}, k : {0}]
MCUnderscored == {"_t", "_err"}
=============================================================================
