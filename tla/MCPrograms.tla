----------------------------- MODULE MCPrograms -----------------------------
(* Instances of Programs for TLC: a program main of the modules a, b and c,   *)
(* c in a directory of its own, and the scripts s, t in others.               *)
EXTENDS Programs

Cwd == <<"w">>
Place(dir, name) == Path(TRUE, Cwd \o dir, name)
Dir == [n \in {"main", "a", "b", "t"} |-> <<>>] @@ [n \in {"c"} |-> <<"lib">>] @@ [n \in {"s", "x"} |-> <<"sub">>]

\* How a file is named in another.
Way(f, t) ==
    IF Dir[f] = Dir[t] THEN [up |-> 0, dirs |-> <<>>, name |-> t]
    ELSE [up |-> Len(Dir[f]), dirs |-> Dir[t], name |-> t]

Import(f, t, as) == Way(f, t) @@ [as |-> as]
Imports(f, ts) == [i \in 1 .. Len(ts) |-> Import(f, ts[i], ts[i])]

Modules == {"a", "b", "c"}

\* Its own function f, which writes a parameter back in c, and constant k; and
\* those of what it imports, and of what that imports, under longer names.
Has == <<"f">> :> "::" @@ <<"k">> :> "."
OwnExports(n) == {[from |-> NoAlias, item |-> <<"f">>, sort |-> "::", as |-> <<"f">>],
           [from |-> NoAlias, item |-> <<"k">>, sort |-> ".", as |-> <<"k">>]}
Given(imports, t) ==
    {<<<<"f">>, "::">>, <<<<"k">>, ".">>} \cup UNION {{<<<<u, "f">>, "::">>, <<<<u, "k">>, ".">>} : u \in ToSet(imports[t])}
Again(imports, n) ==
    {[from |-> t, item |-> g[1], sort |-> g[2], as |-> <<t>> \o g[1]] :
        <<t, g>> \in UNION {{<<u, x>> : x \in Given(imports, u)} : u \in ToSet(imports[n])}}
Asks(imports, n) ==
    UNION {{[alias |-> t, item |-> g[1], sort |-> g[2]] : g \in Given(imports, t)}
           \cup {[alias |-> t, item |-> <<"g">>, sort |-> "::"],
                 [alias |-> t, item |-> <<"f">>, sort |-> "."]} : t \in ToSet(imports[n])}

Module(imports, n, is, declared) ==
    [module |-> TRUE, is |-> is, declared |-> declared, imports |-> Imports(n, imports[n]),
     has |-> Has, outs |-> IF n = "c" THEN {<<"f">>} ELSE {},
     exports |-> OwnExports(n) \cup Again(imports, n), asks |-> Asks(imports, n), runs |-> <<>>]
Main(imports) ==
    [module |-> FALSE, is |-> "whole", declared |-> FALSE, imports |-> Imports("main", imports["main"]),
     has |-> <<>>, outs |-> {}, exports |-> {}, asks |-> Asks(imports, "main"), runs |-> <<>>]

Project(files) ==
    [cwd |-> Cwd, entry |-> Path(FALSE, <<>>, "main"),
     files |-> [p \in {Place(Dir[n], n) : n \in DOMAIN files} |-> files[p.name]]]

Distinct(n) == {s \in SeqOf(Modules, n) : IsInjective(s)}

\* What the files import; and one of them in another state, or not there.
Net(main, most) == {("main" :> main) @@ ms : ms \in [Modules -> Distinct(most)]}
Nets == Net(<<"a", "b", "c">>, 2) \cup Net(<<"c", "a">>, 1)
States == {<<"whole", FALSE>>, <<"unsound", TRUE>>, <<"broken", TRUE>>}
Sound == {Project("main" :> Main(i) @@ [n \in Modules |-> Module(i, n, "whole", TRUE)]) : i \in Nets}
Spoiled ==
    {Project("main" :> Main(i)
             @@ [n \in Modules \ gone |->
                    IF n = bad THEN Module(i, n, st[1], st[2]) ELSE Module(i, n, "whole", TRUE)]) :
        i \in {m @@ ms : m \in [{"main"} -> {<<"a", "b">>}], ms \in [Modules -> Distinct(1) \cup {<<"c", "b">>}]},
        bad \in Modules, st \in States, gone \in {{}, {"c"}}}

ImportProjects == Sound \cup Spoiled

\* The aliases that main, b and c give to what they import.
Aliased ==
    LET file(n, module, imports) ==
            [module |-> module, is |-> "whole", declared |-> module, imports |-> imports,
             has |-> IF module THEN <<"f">> :> "::" ELSE <<>>, outs |-> {},
             exports |-> {e \in OwnExports(n) : module /\ e.item = <<"f">>}, runs |-> <<>>,
             asks |-> {[alias |-> i.as, item |-> <<"f">>, sort |-> "::"] : i \in ToSet(imports)}]
        names == {"u", "v", "w"}
    IN {Project("main" :> file("main", FALSE, <<Import("main", "a", as[1]), Import("main", "b", as[2])>>)
                @@ "a" :> file("a", TRUE, <<Import("a", "c", as[3])>>)
                @@ "b" :> file("b", TRUE, <<Import("b", "c", as[4])>>)
                @@ "c" :> file("c", TRUE, <<>>)) :
            as \in {n \in [1 .. 4 -> names] : n[1] # n[2]}}

-----------------------------------------------------------------------------
(* Scripts: what main, t, s and the modules import and run.                   *)

Ran(f, ts) == [i \in 1 .. Len(ts) |-> Way(f, ts[i])]
ScriptProjects ==
    LET file(f, module, imports, runs) ==
            [module |-> module, is |-> "whole", declared |-> module, imports |-> Imports(f, imports),
             has |-> <<>>, outs |-> {}, exports |-> {}, asks |-> {}, runs |-> Ran(f, runs)]
        some(ts) == {<<>>} \cup {<<t>> : t \in ts}
    IN {Project("main" :> file("main", FALSE, mi, mr) @@ "a" :> file("a", TRUE, <<>>, ar)
                @@ "b" :> file("b", TRUE, bi, <<>>) @@ "c" :> file("c", TRUE, c[1], c[2])
                @@ "s" :> file("s", FALSE, si, sx[1]) @@ "x" :> file("x", FALSE, <<>>, sx[2])
                @@ "t" :> file("t", FALSE, <<>>, tr)) :
            mi \in {<<"c">>, <<"b", "a">>, <<"b", "c">>}, mr \in {<<"s">>, <<"t", "s">>},
            ar \in some({"t"}), bi \in some({"a"}), c \in {<<<<>>, <<"t">>>>, <<<<"b">>, <<>>>>},
            si \in some({"a", "b"}), sx \in {<<<<>>, <<>>>>, <<<<"x">>, <<"s">>>>, <<<<"x">>, <<"a">>>>},
            tr \in some({"main", "s"})}

LoadingProjects == ImportProjects \cup ScriptProjects
=============================================================================
