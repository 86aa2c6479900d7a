------------------------------- MODULE Packing -------------------------------
(* The walk that collects the files of a program: those its imports reach,    *)
(* and those it runs with `</ />`, which is resolved from the directory of    *)
(* the script and not of the file it is written in.                           *)
EXTENDS Projects

CONSTANTS
    Walks,      \* "Package": to ship them; "Effects": to say what they do
    MaxPath     \* the directories of the longest path that the system opens

ASSUME MaxPathAssumption == MaxPath \in Nat

VARIABLE walk       \* [is, queue, visited, bases, warned]

Absolute(p) == IF p.abs THEN p ELSE Path(TRUE, project.cwd \o p.dir, p.name)
has_execute(p) == FileAt(p).runs # <<>>
Opens(p) == Exists(p) /\ Len(p.dir) <= MaxPath

\* What is queued is a file and the directory that its `</ />` start from.
To(p, base) == [path |-> p, base |-> base]

\* `</ />`: the target is a script of its own.
Executed(p, base) ==
    LET targets == [i \in 1 .. Len(FileAt(p).runs) |-> Joined(TRUE, base, FileAt(p).runs[i])]
    IN [there |-> SelectSeq([i \in DOMAIN targets |-> To(targets[i], targets[i].dir)],
                            LAMBDA t : Opens(t.path)),
        missing |-> {t \in ToSet(targets) : ~Opens(t)}]

\* Only the first directory of a file's `</ />` counts (a mutant).
ResolvedOnce(p, base) == FALSE

\* A directory counts each time the file is met (a mutant).
ResolvedEachTime(p, base) == walk.is = "Effects" /\ has_execute(p)

\* The surface of effects resolves the `</ />` of a file again from each new one,
\* as it is spelled: `sub/..` is another than the directory it leads to.
ResolvedAgain(p, base) ==
    walk.is = "Effects" /\ has_execute(p) /\ <<Real(p), base>> \notin walk.bases

Seen(p) == Opens(p) /\ Real(p) \in DOMAIN walk.visited

At == Head(walk.queue)

VisitAgain ==
    /\ walk.queue # <<>> /\ Seen(At.path)
    /\ LET again == ResolvedAgain(At.path, At.base)
           ran == Executed(At.path, At.base)
       IN walk' = [walk EXCEPT
              !.queue = Tail(@) \o (IF again THEN ran.there ELSE <<>>),
              !.bases = @ \cup (IF again THEN {<<Real(At.path), At.base>>} ELSE {}),
              !.warned = @ \cup (IF again THEN ran.missing ELSE {})]

NotThere ==
    /\ walk.queue # <<>> /\ ~Opens(At.path)
    /\ walk' = [walk EXCEPT !.queue = Tail(@), !.warned = @ \cup {At.path}]

\* An import keeps the directory of the script.
Imported(p, base) ==
    LET deps == [i \in 1 .. Len(FileAt(p).imports) |-> resolve_from(p, FileAt(p).imports[i])]
    IN [there |-> SelectSeq([i \in DOMAIN deps |-> To(deps[i], base)], LAMBDA t : t.path # Nowhere),
        missing |-> {d \in ToSet(deps) : d = Nowhere}]

\* A file that cannot be read as a program has no imports, but its `</ />` are
\* followed.
Visit ==
    /\ walk.queue # <<>> /\ Opens(At.path) /\ ~Seen(At.path)
    /\ LET p == At.path
           ran == Executed(p, At.base)
           imports == IF Readable(p) THEN Imported(p, At.base) ELSE [there |-> <<>>, missing |-> {p}]
       IN walk' = [walk EXCEPT
              !.queue = Tail(@) \o ran.there \o imports.there,
              !.visited = (Real(p) :> p) @@ @,
              !.bases = @ \cup (IF has_execute(p) THEN {<<Real(p), At.base>>} ELSE {}),
              !.warned = @ \cup ran.missing \cup imports.missing]

WalkInit ==
    \E is \in Walks :
        LET entry == Absolute(project.entry)
        IN walk = [is |-> is, queue |-> <<To(entry, entry.dir)>>, visited |-> <<>>,
                   bases |-> {}, warned |-> {}]

WalkStep == Visit \/ VisitAgain \/ NotThere
WalkDone == walk.queue = <<>>
=============================================================================
