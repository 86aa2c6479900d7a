---------------------------- MODULE ModuleTables ----------------------------
(* What the checks made before a program runs know of its imports: the names  *)
(* behind each alias, whose parameters a call has to match, and which of them *)
(* are written back.  A name exported again is followed to where it is from.  *)
EXTENDS Projects

CONSTANT MaxReexports       \* hops that are followed

ASSUME ReexportsAssumption == MaxReexports \in Nat

\* A table that says nothing: a use of the alias is left to the run.
Unknown == [known |-> FALSE]
NamesOf(names) == [known |-> TRUE, names |-> names]

\* The first import of a file that binds an alias.
Bindings(p, as) == {i \in 1 .. Len(FileAt(p).imports) : FileAt(p).imports[i].as = as}
Source(p, as) ==
    IF Bindings(p, as) = {} THEN Nowhere
    ELSE resolve_from(p, FileAt(p).imports[Min(Bindings(p, as))])

HasBlock(p) == Readable(p) /\ FileAt(p).module /\ FileAt(p).declared

OwnHome(p, item) == [sort |-> FileAt(p).has[item], file |-> Real(p), name |-> item]

\* A name exported again is a function (a mutant).
FollowedFunction(source, e) ==
    IF source.known /\ e.item \in DOMAIN source.names
    THEN [known |-> TRUE, home |-> [source.names[e.item] EXCEPT !.sort = "::"]] ELSE Unknown

\* A name exported again keeps the sort it has, whichever is written.
FollowedItem(source, e) ==
    IF source.known /\ e.item \in DOMAIN source.names
    THEN [known |-> TRUE, home |-> source.names[e.item]] ELSE Unknown

\* The names behind one file, by their public names; what one export cannot be
\* followed to leaves the whole file unknown.
RECURSIVE exports_of_file(_, _)
exports_of_file(p, depth) ==
    IF depth > MaxReexports \/ ~HasBlock(p) THEN Unknown
    ELSE LET found(e) ==
                 IF e.from # NoAlias
                 THEN IF Source(p, e.from) = Nowhere THEN Unknown
                      ELSE FollowedItem(exports_of_file(Source(p, e.from), depth + 1), e)
                 ELSE IF e.item \in DOMAIN FileAt(p).has
                      THEN [known |-> TRUE, home |-> OwnHome(p, e.item)] ELSE Unknown
             all == [e \in FileAt(p).exports |-> found(e)]
             public == {e.as : e \in DOMAIN all}
         IN IF \A e \in DOMAIN all : all[e].known
            THEN NamesOf([n \in public |-> all[CHOOSE e \in DOMAIN all : e.as = n].home])
            ELSE Unknown

\* The functions whose parameters can be counted: what cannot be followed is
\* left out, and the rest is kept.
RECURSIVE arities_of_file(_, _)
arities_of_file(p, depth) ==
    IF depth > MaxReexports \/ ~HasBlock(p) THEN Unknown
    ELSE LET found(e) ==
                 IF e.from # NoAlias
                 THEN IF Source(p, e.from) = Nowhere THEN Unknown
                      ELSE FollowedItem(arities_of_file(Source(p, e.from), depth + 1), e)
                 ELSE IF e.item \in DOMAIN FileAt(p).has /\ FileAt(p).has[e.item] = "::"
                      THEN [known |-> TRUE, home |-> OwnHome(p, e.item)] ELSE Unknown
             all == [e \in FileAt(p).exports |-> found(e)]
             kept == {e \in DOMAIN all : all[e].known}
         IN NamesOf([n \in {e.as : e \in kept} |-> all[CHOOSE e \in kept : e.as = n].home])

\* The functions of the file itself that write a parameter back; those it
\* exports again are not followed.
out_slots_of_file(p) ==
    IF ~HasBlock(p) THEN Unknown
    ELSE LET own == {e \in FileAt(p).exports : e.from = NoAlias /\ e.item \in FileAt(p).outs}
         IN NamesOf([n \in {e.as : e \in own} |-> OwnHome(p, (CHOOSE e \in own : e.as = n).item)])

-----------------------------------------------------------------------------
(* What the type checker makes of a use in a file.                            *)

\* Is a member that is not there refused before the run?
RefusedMember(p, ask) ==
    LET t == exports_of_file(Source(p, ask.alias), 0)
    IN /\ t.known
       /\ ~(ask.item \in DOMAIN t.names /\ t.names[ask.item].sort = ask.sort)

\* The function whose parameters a call is held to, if one is known.
HeldTo(p, ask) ==
    LET t == arities_of_file(Source(p, ask.alias), 0)
    IN IF ask.sort = "::" /\ t.known /\ ask.item \in DOMAIN t.names
       THEN [file |-> t.names[ask.item].file, name |-> t.names[ask.item].name] ELSE Nothing

\* Must a call of it mark an argument as written back?
MustMark(p, ask) ==
    LET t == out_slots_of_file(Source(p, ask.alias))
    IN t.known /\ ask.item \in DOMAIN t.names
=============================================================================
