------------------------------- MODULE Linking -------------------------------
(* The compiler reading a program's modules: one table of names for the whole *)
(* program, into which every import of every file writes its alias, and from  *)
(* which the calls of a file are answered as the file is compiled.            *)
EXTENDS Projects

VARIABLE machine    \* [stack, loading, compiled, index, links, said]

Compiling(p) == [path |-> p, next |-> 1]

InCompile == Last(machine.stack)
HasStatement == machine.said = "loading" /\ InCompile.next <= Len(FileAt(InCompile.path).imports)
Statement == FileAt(InCompile.path).imports[InCompile.next]
Resolved == resolve_from(InCompile.path, Statement)

Counted(stack) == [stack EXCEPT ![Len(stack)].next = @ + 1]

\* The names of a module under an alias, over those already there.
register_module_alias(index, as, exports) ==
    [k \in {<<as, o[1], o[2]>> : o \in DOMAIN exports} |-> exports[<<k[2], k[3]>>]] @@ index

IsCompiled == Exists(Resolved) /\ Real(Resolved) \in DOMAIN machine.compiled
IsCompiling == Exists(Resolved) /\ Real(Resolved) \in machine.loading

UseCompiled ==
    /\ HasStatement /\ IsCompiled
    /\ machine' = [machine EXCEPT
           !.index = register_module_alias(@, Statement.as, machine.compiled[Real(Resolved)]),
           !.stack = Counted(@)]

CircularCompile ==
    /\ HasStatement /\ ~IsCompiled /\ IsCompiling
    /\ machine' = [machine EXCEPT !.said = "circular"]

NotCompilable ==
    /\ HasStatement /\ ~Whole(Resolved)
    /\ machine' = [machine EXCEPT !.said = "refused"]

CompileImport ==
    /\ HasStatement /\ ~IsCompiled /\ ~IsCompiling /\ Whole(Resolved)
    /\ machine' = [machine EXCEPT !.loading = @ \cup {Real(Resolved)},
                                  !.stack = Append(@, Compiling(Resolved))]

-----------------------------------------------------------------------------
(* The imports of a file are read: its bodies are compiled against the names  *)
(* there are, and what it exports is collected.                               *)

CompileDone == machine.said = "loading" /\ InCompile.next > Len(FileAt(InCompile.path).imports)

Answered(p, index) ==
    [k \in {<<Real(p), ask>> : ask \in FileAt(p).asks} |->
        LET name == <<k[2].alias, k[2].sort, k[2].item>>
        IN IF name \in DOMAIN index THEN index[name] ELSE Nothing]

\* What an export block names that is there.  A name of its own has the sort it
\* is declared with; one exported again the sort that is written.
Exported(p, e, index) ==
    IF e.from = NoAlias
    THEN IF e.item \in DOMAIN FileAt(p).has
         THEN <<FileAt(p).has[e.item], e.as>> :> [file |-> Real(p), name |-> e.item]
         ELSE <<>>
    ELSE IF <<e.from, e.sort, e.item>> \in DOMAIN index
         THEN <<e.sort, e.as>> :> index[<<e.from, e.sort, e.item>>]
         ELSE <<>>

\* A file without an export block exports nothing.
Exports(p, index) ==
    IF FileAt(p).declared
    THEN FoldSet(LAMBDA e, t : Exported(p, e, index) @@ t, <<>>, FileAt(p).exports)
    ELSE <<>>

\* The exports are kept without being bound to the alias (a mutant).
BoundLater(index, as, exports) == index

\* The alias is bound to the exports that were collected.
Bound(index, as, exports) == register_module_alias(index, as, exports)

FileCompiled ==
    /\ CompileDone /\ Len(machine.stack) > 1
    /\ LET p == InCompile.path
           below == Front(machine.stack)
           as == FileAt(Last(below).path).imports[Last(below).next].as
           exports == Exports(p, machine.index)
       IN machine' = [machine EXCEPT
              !.links = Answered(p, machine.index) @@ @,
              !.index = Bound(@, as, exports),
              !.compiled = (Real(p) :> exports) @@ @,
              !.loading = @ \ {Real(p)},
              !.stack = Counted(below)]

ProgramCompiled ==
    /\ CompileDone /\ Len(machine.stack) = 1
    /\ machine' = [machine EXCEPT !.said = "loaded",
                                  !.links = Answered(InCompile.path, machine.index) @@ @]

MachineInit(declared) ==
    machine = [stack |-> <<Compiling(project.entry)>>, loading |-> {}, compiled |-> <<>>,
               index |-> <<>>, links |-> <<>>, said |-> IF declared THEN "loading" ELSE "undeclared"]

MachineStep ==
    \/ UseCompiled \/ CircularCompile \/ NotCompilable \/ CompileImport
    \/ FileCompiled \/ ProgramCompiled

MachineAnswer(p, ask) == machine.links[<<Real(p), ask>>]
=============================================================================
