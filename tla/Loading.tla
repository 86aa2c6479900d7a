------------------------------- MODULE Loading -------------------------------
(* The tree-walker loading a program's modules: an interpreter for each file  *)
(* that is being loaded, with the modules it has itself and the set of those  *)
(* under way, copied from the interpreter that loads it.                      *)
EXTENDS Projects

VARIABLE tree    \* [stack, said]: the interpreters, the entry's first

\* What f says, and what g says of the rest.
Over(f, g) == [x \in DOMAIN f \cup DOMAIN g |-> IF x \in DOMAIN f THEN f[x] ELSE g[x]]
Only(x, v) == [y \in {x} |-> v]

Interpreter(p, loading) ==
    [path |-> p, next |-> 1, loading |-> loading, loaded |-> <<>>, aliases |-> <<>>]

Top == Last(tree.stack)
HasImport == tree.said = "loading" /\ Top.next <= Len(FileAt(Top.path).imports)
Written == FileAt(Top.path).imports[Top.next]
Target == resolve_from(Top.path, Written)

Known(i, as, p) == [i EXCEPT !.aliases = Over(Only(as, p), @), !.next = @ + 1]
WithTop(i) == [tree EXCEPT !.stack = Append(Front(@), i)]

\* load_import
CircularImport ==
    /\ HasImport /\ Target \in Top.loading
    /\ tree' = [tree EXCEPT !.said = "circular"]

AlreadyLoaded ==
    /\ HasImport /\ Target \notin Top.loading /\ Target \in DOMAIN Top.loaded
    /\ tree' = WithTop(Known(Top, Written.as, Target))

ToLoad == HasImport /\ Target \notin Top.loading /\ Target \notin DOMAIN Top.loaded

NotLoadable ==
    /\ ToLoad /\ ~Whole(Target)
    /\ tree' = [tree EXCEPT !.said = "refused"]

\* The nested interpreter forgets what was under way (a mutant).
LoadingAnew(loading, target) == {target}

\* The set of the nested interpreter.
LoadingOn(loading, target) == loading \cup {target}

LoadModule ==
    /\ ToLoad /\ Whole(Target)
    /\ tree' = [tree EXCEPT !.stack = Append(@, Interpreter(Target, LoadingOn(Top.loading, Target)))]

-----------------------------------------------------------------------------
(* The end of load_module *)

Finished == tree.said = "loading" /\ Top.next > Len(FileAt(Top.path).imports)

Own(i) == {<<FileAt(i.path).has[n], n>> : n \in DOMAIN FileAt(i.path).has}
Home(i, n) == [file |-> i.path, name |-> n]

\* What it exports, by sort and public name.
ExportedItem(i, e) ==
    IF e.from = NoAlias
    THEN IF e.item \notin DOMAIN FileAt(i.path).has THEN <<>>
         ELSE Only(<<FileAt(i.path).has[e.item], e.as>>, Home(i, e.item))
    ELSE LET t == IF e.from \in DOMAIN i.aliases THEN i.loaded[i.aliases[e.from]].table ELSE <<>>
         IN CASE <<"::", e.item>> \in DOMAIN t -> Only(<<"::", e.as>>, t[<<"::", e.item>>])
              [] <<"::", e.item>> \notin DOMAIN t /\ <<".", e.item>> \in DOMAIN t ->
                   Only(<<".", e.as>>, t[<<".", e.item>>])
              [] OTHER -> <<>>

\* A module's table: all of that.  A file that declares nothing exports everything.
Table(i) ==
    IF FileAt(i.path).declared
    THEN LET items == {ExportedItem(i, e) : e \in FileAt(i.path).exports}
         IN [o \in UNION {DOMAIN t : t \in items} |-> (CHOOSE t \in items : o \in DOMAIN t)[o]]
    ELSE [o \in Own(i) |-> Home(i, o[2])]

\* The modules it loaded stay with it (a mutant).
MergedNothing(loaded, m) == Over(Only(m.path, [table |-> Table(m), aliases |-> m.aliases]), loaded)

\* What the nested interpreter has is added to what is there; the module itself
\* takes the place of what was under its path.
Merged(loaded, m) ==
    Over(Only(m.path, [table |-> Table(m), aliases |-> m.aliases]), Over(loaded, m.loaded))

ModuleLoaded ==
    /\ Finished /\ Len(tree.stack) > 1
    /\ LET above == tree.stack[Len(tree.stack) - 1]
           as == FileAt(above.path).imports[above.next].as
       IN tree' = [tree EXCEPT !.stack = Append(Front(Front(@)),
                                     Known([above EXCEPT !.loaded = Merged(@, Top)], as, Top.path))]

ProgramLoaded ==
    /\ Finished /\ Len(tree.stack) = 1
    /\ tree' = [tree EXCEPT !.said = "loaded"]

\* The program's own file has been read when it begins to run.
TreeInit(declared) ==
    /\ Whole(project.entry)
    /\ tree = [stack |-> <<Interpreter(project.entry, {})>>,
               said |-> IF declared THEN "loading" ELSE "undeclared"]
TreeStep ==
    \/ CircularImport \/ AlreadyLoaded \/ NotLoadable \/ LoadModule \/ ModuleLoaded \/ ProgramLoaded

TreeSpec ==
    /\ \E declared \in BOOLEAN : TreeInit(declared)
    /\ [][TreeStep /\ UNCHANGED project]_<<project, tree>>

-----------------------------------------------------------------------------
(* Properties *)

ClosedUnderImports(ps) == \A p \in ps : ImportsOf(p) \subseteq ps
InNoCycle(ps) == \A some \in SUBSET ps : some # {} => \E p \in some : ImportsOf(p) \cap some = {}

\* What a function needs when it runs is there: the modules of a loaded program
\* are those it reaches and no others, each whole, none in a cycle, the program's
\* own file not among them; every alias of each leads to one of them, and every
\* name one gives out belongs to one of them.  A function is run with the aliases
\* and the variables of its own module, functions_lambda.rs:566-620, which a
\* nested interpreter loaded and handed up, modules.rs:293-297, and the set of
\* what is under way is handed down, modules.rs:182.
LoadedIsClosed ==
    tree.said = "loaded" =>
        LET loaded == Top.loaded
            there == DOMAIN loaded
        IN /\ ImportsOf(project.entry) \subseteq there /\ ClosedUnderImports(there)
           /\ \A ps \in SUBSET there :
                 ImportsOf(project.entry) \subseteq ps /\ ClosedUnderImports(ps) => ps = there
           /\ InNoCycle(there) /\ project.entry \notin there
           /\ \A p \in there : Whole(p)
           /\ Range(Top.aliases) \subseteq there
           /\ \A p \in there : /\ Range(loaded[p].aliases) \subseteq there
                               /\ \A o \in DOMAIN loaded[p].table : loaded[p].table[o].file \in there

\* A file is never loaded inside itself, and a program that is refused for a
\* circular import has one: among the files under way some import one another.
UnderWay == {tree.stack[i].path : i \in 2 .. Len(tree.stack)}
CircularIsACycle ==
    /\ \A i, j \in 2 .. Len(tree.stack) : tree.stack[i].path = tree.stack[j].path => i = j
    /\ tree.said = "circular" => ~InNoCycle(UnderWay)

-----------------------------------------------------------------------------
(* What a name asked of an alias is, in a file that has been loaded.          *)

AliasesOf(p) == IF p = project.entry THEN Top.aliases ELSE Top.loaded[p].aliases

TreeAnswer(p, ask) ==
    LET aliases == AliasesOf(p)
        t == IF ask.alias \in DOMAIN aliases THEN Top.loaded[aliases[ask.alias]].table ELSE <<>>
    IN IF <<ask.sort, ask.item>> \in DOMAIN t
       THEN LET home == t[<<ask.sort, ask.item>>] IN [home EXCEPT !.file = Real(@)]
       ELSE Nothing

=============================================================================
