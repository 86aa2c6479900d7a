------------------------------ MODULE Projects ------------------------------
(* The files of a program: what each imports, exports, asks of its imports    *)
(* and runs with `</ />`, and how the paths written in them are resolved.     *)
EXTENDS Integers, Sequences, FiniteSets, SequencesExt, FiniteSetsExt, TLC

(***************************************************************************)
(* A path [abs, dir, name]: dir is a sequence of directories, `..` among    *)
(* them.  A file:                                                          *)
(*   module    has a `# name { }`; declared: and a `#> { }` in it           *)
(*   is        "broken" (no program can be read in it), "unsound" (one that *)
(*             the analysis refuses) or "whole"                             *)
(*   imports   a sequence of [up, dirs, name, as]                          *)
(*   has       its own names, each with its sort: "::" (a function) or "."  *)
(*   outs      those of them that write a parameter back                    *)
(*   exports   a set of [from, item, sort, as]; from is NoAlias for its own *)
(*   asks      the [alias, item, sort] written in it                       *)
(*   runs      the [up, dirs, name] of its `</ />`                         *)
(***************************************************************************)
VARIABLE project    \* [cwd, entry, files]: files by their real paths

NoAlias == ""
Nothing == [file |-> <<>>, name |-> <<>>]
Nowhere == [abs |-> FALSE, dir |-> <<>>, name |-> "nowhere"]

Path(abs, dir, name) == [abs |-> abs, dir |-> dir, name |-> name]

\* canonicalize: the place on disk, for a program begun in cwd.
Down(at, d) == IF d # ".." THEN Append(at, d) ELSE IF at = <<>> THEN at ELSE Front(at)
Canonical(cwd, p) ==
    LET at[n \in 0 .. Len(p.dir)] ==
            IF n > 0 THEN Down(at[n - 1], p.dir[n]) ELSE IF p.abs THEN <<>> ELSE cwd
    IN Path(TRUE, at[Len(p.dir)], p.name)

Real(p) == Canonical(project.cwd, p)

Exists(p) == p # Nowhere /\ Real(p) \in DOMAIN project.files
FileAt(p) == project.files[Real(p)]
Readable(p) == Exists(p) /\ FileAt(p).is # "broken"
Whole(p) == Exists(p) /\ FileAt(p).is = "whole"

Up(dir) == IF dir = <<>> \/ Last(dir) = ".." THEN Append(dir, "..") ELSE Front(dir)

\* Out of a directory's name, or out of the path by one more `..`; above the
\* root there is nothing.
climb(dir, abs, levels) ==
    IF abs /\ levels > Len(dir) THEN Nowhere
    ELSE LET out[n \in 0 .. levels] == IF n = 0 THEN dir ELSE Up(out[n - 1])
         IN Path(abs, out[levels], "")

resolve_from(p, to) ==
    LET base == climb(p.dir, p.abs, to.up)
    IN IF base = Nowhere THEN Nowhere ELSE Path(p.abs, base.dir \o to.dirs, to.name)

\* A `</ />` is joined to a directory as it is written.
Joined(abs, dir, to) == Path(abs, dir \o [i \in 1 .. to.up |-> ".."] \o to.dirs, to.name)

ImportsOf(p) ==
    {resolve_from(p, FileAt(p).imports[i]) : i \in 1 .. Len(FileAt(p).imports)}
=============================================================================
