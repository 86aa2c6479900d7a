------------------------------ MODULE Programs ------------------------------
(* The modules of a program: loaded by the tree-walker, linked by the         *)
(* compiler, known to the checks and collected for a package.                 *)
EXTENDS Loading, Linking, Packing, ModuleTables

CONSTANT Instances  \* the projects there are

\* What a file imports is a list.
ASSUME InstancesAssumption ==
    \A p \in Instances : \A f \in DOMAIN p.files : Len(p.files[f].imports) \in Nat

\* The files that following imports reaches, a broken one not read on.
RECURSIVE ReachedFrom(_)
ReachedFrom(ps) ==
    LET next == ps \cup UNION {ImportsOf(p) : p \in {q \in ps : Readable(q)}}
    IN IF next = ps THEN ps ELSE ReachedFrom(next)

Reached == ReachedFrom({project.entry})

\* The modules that do not say what they export: a program with one is not run.
module_decl_errors == {p \in Reached : Readable(p) /\ FileAt(p).module /\ ~FileAt(p).declared}
vars == <<project, tree, machine, walk>>

\* A module that does not say what it exports stops the program before either
\* engine is given it; a package is collected all the same.
Init ==
    /\ project \in Instances
    /\ TreeInit(module_decl_errors = {})
    /\ MachineInit(module_decl_errors = {})
    /\ WalkInit

\* They do not act on one another, and are taken in turn.
Loads == TreeStep /\ UNCHANGED <<project, machine, walk>>
Links == tree.said # "loading" /\ MachineStep /\ UNCHANGED <<project, tree, walk>>
Collects ==
    /\ tree.said # "loading" /\ machine.said # "loading"
    /\ WalkStep /\ UNCHANGED <<project, tree, machine>>

Next == Loads \/ Links \/ Collects

Spec == Init /\ [][Next]_vars

\* Each is a loop of one thread.
FairSpec == Spec /\ WF_vars(Next)

-----------------------------------------------------------------------------
(* Loading.  What the engines say is looked at when everything is done.       *)

HomeOf(p) == IF p = Nowhere THEN p ELSE Real(p)

RECURSIVE After(_)
After(ps) ==
    LET next == ps \cup UNION {ImportsOf(q) : q \in {r \in ps : Whole(r)}}
    IN IF next = ps THEN ps ELSE After(next)

\* Does a file import itself, in however many steps?
InCycle(p) == Whole(p) /\ HomeOf(p) \in {HomeOf(q) : q \in After(ImportsOf(p))}

Paths(stack) == [i \in 1 .. Len(stack) |-> HomeOf(stack[i].path)]

\* Modules that import one another are found whatever leads to them: neither
\* engine is ever inside a file twice but for the program's own, a program is
\* loaded only if everything it reaches is whole and in no cycle, each file once,
\* and is refused for what is the matter with it.  The tree-walker hands the set
\* of what is under way to a new interpreter for each file, modules.rs:62 and 182.
CyclesAreFound ==
    LET verdict(said) ==
            CASE said = "loaded" -> \A p \in Reached : Whole(p) /\ ~InCycle(p)
              [] said = "circular" -> \E p \in Reached : InCycle(p)
              [] said = "refused" -> \E p \in Reached : ~Whole(p)
              [] OTHER -> TRUE
    IN /\ IsInjective(Paths(Tail(tree.stack))) /\ IsInjective(Paths(Tail(machine.stack)))
       /\ tree.said = "loaded" => \A p, q \in DOMAIN Top.loaded : HomeOf(p) = HomeOf(q) => p = q
       /\ WalkDone => verdict(tree.said) /\ verdict(machine.said)

LoadedByBoth == WalkDone /\ tree.said = "loaded" /\ machine.said = "loaded"

\* Each use of an alias, in every file of a program, is the same function or
\* constant in both engines, or in neither: the tree-walker looks in the aliases
\* of the file, expr_eval.rs:80-115, the compiler in one table that all imports
\* write, compiler/src/lib.rs:1255-1266.
EnginesLinkAlike ==
    /\ WalkDone => machine.said = tree.said
    /\ LoadedByBoth => \A p \in Reached : \A ask \in FileAt(p).asks :
                            TreeAnswer(p, ask) = MachineAnswer(p, ask)

\* What the type checker says of a member before a program runs is so when it
\* runs: what it refuses is not there, what it lets pass of a module it knows is,
\* and a call is held to the parameters of the function it calls.  It follows
\* the names itself, up to a number of hops, call_arity.rs:196-262 and 342-385.
ExportedAgain(p, ask) == HeldTo(p, ask).file # HomeOf(Source(p, ask.alias))

ChecksKnowTheRun ==
    LoadedByBoth => \A p \in Reached : \A ask \in FileAt(p).asks :
        LET answer == TreeAnswer(p, ask)
        IN /\ RefusedMember(p, ask) => answer = Nothing
           /\ exports_of_file(Source(p, ask.alias), 0).known /\ ~RefusedMember(p, ask) => answer # Nothing
           /\ HeldTo(p, ask) \in {Nothing, answer}
           /\ HeldTo(p, ask) # Nothing /\ ~ExportedAgain(p, ask) =>
                  (MustMark(p, ask) <=> answer.name \in project.files[answer.file].outs)

-----------------------------------------------------------------------------
(* Packages *)

\* What running a file leads to: its imports, and the `</ />` in it, which both
\* engines resolve from its own directory.
RunBy(p) == {Joined(p.abs, p.dir, to) : to \in ToSet(FileAt(p).runs)}

RECURSIVE RunFrom(_)
RunFrom(rs) ==
    LET next == rs \cup {Real(q) : q \in {p \in UNION {ImportsOf(r) \cup RunBy(r) : r \in {s \in rs : Whole(s)}} :
                                           Exists(p)}}
    IN IF next = rs THEN rs ELSE RunFrom(next)

Running == RunFrom({Real(project.entry)})

\* The scripts that come to a file by imports alone.
Scripts == {Real(project.entry)} \cup {Real(p) : p \in {q \in UNION {RunBy(r) : r \in Running} : Exists(q)}}
ScriptsOf(r) == {s \in Scripts : r \in {HomeOf(p) : p \in ReachedFrom({s})}}

\* The directories that a file is met from, over and over the same or several.
BasesOf(p) == {s.dir : s \in ScriptsOf(p)}

\* A package resolves the `</ />` of a file from the first script it is met from,
\* the surface of effects from each that is run or imports it, but of a file met
\* again it does not follow the imports again, closure.rs:386-427: is the file's
\* own directory one of them?
MetAtHome ==
    \A r \in {q \in Running : has_execute(q)} :
        \/ BasesOf(r) = {r.dir}
        \/ /\ walk.is = "Effects"
           /\ \/ r \in Scripts
              \/ \E p \in Running : BasesOf(p) = {r.dir} /\ r \in {HomeOf(q) : q \in ImportsOf(p)}

\* The files collected have every one that the program can come to, in as many
\* steps of imports and `</ />` as it takes, and however many scripts lead there.
PackageHasWhatRuns == WalkDone /\ MetAtHome => Running \subseteq DOMAIN walk.visited

\* The walk comes to an end, whatever runs whatever: a file with a `</ />` is
\* followed again from each new directory, closure.rs:392-408.
WalkEnds == <>WalkDone
=============================================================================
