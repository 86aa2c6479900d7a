--------------------------- MODULE LoadingProofs ---------------------------
(***************************************************************************)
(* What the tree-walker has loaded when a program runs, for every project: *)
(* the files the program reaches by imports, all of them and no others,    *)
(* whatever imports whatever; and a program refused for a circular import  *)
(* has one.                                                                *)
(***************************************************************************)
EXTENDS Loading, SequenceTheorems, TLAPS

-----------------------------------------------------------------------------
(* The invariant.                                                          *)

(* A file's imports are a list.                                            *)
ImportsAreLists ==
  \A f \in DOMAIN project.files : Len(project.files[f].imports) \in Nat

(* What an interpreter has imported so far.                                *)
ImportsDone(i) ==
  {resolve_from(i.path, FileAt(i.path).imports[n]) : n \in 1..(i.next - 1)}

(* The modules an interpreter has lead to one another and to nothing else. *)
AllThere(i) ==
  LET there == DOMAIN i.loaded
  IN  /\ \A a \in DOMAIN i.aliases : i.aliases[a] \in there
      /\ \A p \in there :
           /\ \A a \in DOMAIN i.loaded[p].aliases : i.loaded[p].aliases[a] \in there
           /\ \A o \in DOMAIN i.loaded[p].table : i.loaded[p].table[o].file \in there

(* ps is what these lead to.                                               *)
JustReached(from, ps) ==
  /\ from \subseteq ps /\ ClosedUnderImports(ps)
  /\ \A some \in SUBSET ps :
       from \subseteq some /\ ClosedUnderImports(some) => ps \subseteq some

Good(i) ==
  /\ JustReached(ImportsDone(i), DOMAIN i.loaded)
  /\ InNoCycle(DOMAIN i.loaded)
  /\ \A p \in DOMAIN i.loaded : Whole(p)
  /\ AllThere(i)

IsInterpreter(i) ==
  i \in [path : {i.path}, next : Nat \ {0}, loading : {i.loading}, loaded : {i.loaded},
         aliases : {i.aliases}]

Elements(s) == {s[n] : n \in DOMAIN s}

(* An interpreter of the stack knows the files under way below it, and has *)
(* none of them.                                                           *)
InPlace(s, n) ==
  /\ IsInterpreter(s[n]) /\ Whole(s[n].path) /\ Good(s[n])
  /\ s[n].next <= Len(FileAt(s[n].path).imports) + 1
  /\ s[n].loading = {s[m].path : m \in 2..n}
  /\ \A m \in 2..n : s[m].path \notin DOMAIN s[n].loaded

(* It loads what the one below stands at.                                  *)
IsLoadedBelow(s, n) ==
  /\ s[n - 1].next <= Len(FileAt(s[n - 1].path).imports)
  /\ s[n].path = resolve_from(s[n - 1].path, FileAt(s[n - 1].path).imports[s[n - 1].next])

StackInv(s) ==
  /\ s \in Seq(Elements(s)) /\ s # <<>>
  /\ \A n \in DOMAIN s : InPlace(s, n)
  /\ s[1].path = project.entry
  /\ \A n \in 2..Len(s) : IsLoadedBelow(s, n)
  /\ \A n, m \in 2..Len(s) : s[n].path = s[m].path => n = m

IsTree == tree \in [stack : {tree.stack}, said : {tree.said}]

TreeInv ==
  /\ ImportsAreLists /\ IsTree
  /\ StackInv(tree.stack)
  /\ tree.said = "circular" => ~InNoCycle(UnderWay)
  /\ tree.said = "loaded" => Len(tree.stack) = 1 /\ Top.next > Len(FileAt(Top.path).imports)

-----------------------------------------------------------------------------
(* Files that import one another.                                          *)

(* Two sets, one of which leads nowhere else, are in no cycle together.    *)
LEMMA NoCycleInUnion ==
  ASSUME NEW A, NEW B, ClosedUnderImports(A), InNoCycle(A), InNoCycle(B)
  PROVE  InNoCycle(A \cup B)
  <1> SUFFICES ASSUME NEW C \in SUBSET (A \cup B), C # {}
               PROVE  \E p \in C : ImportsOf(p) \cap C = {}
    BY DEF InNoCycle
  <1>1. CASE C \cap A # {}
    <2>1. PICK p \in C \cap A : ImportsOf(p) \cap (C \cap A) = {}
      BY <1>1 DEF InNoCycle
    <2>2. ImportsOf(p) \subseteq A
      BY <2>1 DEF ClosedUnderImports
    <2> QED BY <2>1, <2>2
  <1>2. CASE C \cap A = {}
    <2>1. C \in SUBSET B
      BY <1>2
    <2> QED BY <2>1 DEF InNoCycle
  <1> QED BY <1>1, <1>2

(* Nor with a file that leads into it from outside.                        *)
LEMMA NoCycleWithOneMore ==
  ASSUME NEW A, NEW m, ClosedUnderImports(A), InNoCycle(A), m \notin A,
         ImportsOf(m) \subseteq A
  PROVE  ClosedUnderImports(A \cup {m}) /\ InNoCycle(A \cup {m})
  <1>1. InNoCycle({m})
    <2> SUFFICES ASSUME NEW C \in SUBSET {m}, C # {}
                 PROVE  \E p \in C : ImportsOf(p) \cap C = {}
      BY DEF InNoCycle
    <2>1. m \in C /\ m \notin ImportsOf(m)
      OBVIOUS
    <2> QED BY <2>1
  <1>2. InNoCycle(A \cup {m})
    BY <1>1, NoCycleInUnion
  <1>3. ClosedUnderImports(A \cup {m})
    BY DEF ClosedUnderImports
  <1> QED BY <1>2, <1>3

LEMMA ClosedTogether ==
  ASSUME NEW A, NEW B, ClosedUnderImports(A), ClosedUnderImports(B)
  PROVE  ClosedUnderImports(A \cup B) /\ ClosedUnderImports(A \cap B)
  BY DEF ClosedUnderImports

(* What a file leads to is reached with it.                                *)
LEMMA ReachedTogether ==
  ASSUME NEW F, NEW A, NEW m, NEW B, JustReached(F, A), JustReached(ImportsOf(m), B)
  PROVE  JustReached(F \cup {m}, A \cup (B \cup {m}))
  <1> DEFINE all == A \cup (B \cup {m})
  <1>1. F \cup {m} \subseteq all
    BY DEF JustReached
  <1>2. ClosedUnderImports(all)
    BY DEF JustReached, ClosedUnderImports
  <1>3. ASSUME NEW some \in SUBSET all, F \cup {m} \subseteq some, ClosedUnderImports(some)
        PROVE  all \subseteq some
    <2>1. ClosedUnderImports(some \cap A) /\ ClosedUnderImports(some \cap B)
      BY <1>3, ClosedTogether DEF JustReached
    <2>2. F \subseteq some \cap A
      BY <1>3 DEF JustReached
    <2>3. ImportsOf(m) \subseteq some \cap B
      BY <1>3 DEF JustReached, ClosedUnderImports
    <2>4. A \subseteq some \cap A
      BY <2>1, <2>2 DEF JustReached
    <2>5. B \subseteq some \cap B
      BY <2>1, <2>3 DEF JustReached
    <2> QED BY <1>3, <2>4, <2>5
  <1> QED BY <1>1, <1>2, <1>3 DEF JustReached

(* A file is not among those it leads to, if these are in no cycle.        *)
LEMMA NotAmongItsOwn ==
  ASSUME NEW e, NEW A, JustReached(ImportsOf(e), A), InNoCycle(A)
  PROVE  e \notin A
  <1> SUFFICES ASSUME e \in A PROVE FALSE
    OBVIOUS
  <1> DEFINE U == UNION {Z \in SUBSET A : e \notin Z /\ ClosedUnderImports(Z)}
             C == A \ U
  <1>1. ClosedUnderImports(A) /\ ImportsOf(e) \subseteq A
    BY DEF JustReached
  <1>2. U \subseteq A /\ e \notin U
    OBVIOUS
  <1>3. ClosedUnderImports(U)
    <2> SUFFICES ASSUME NEW p \in U PROVE ImportsOf(p) \subseteq U
      BY DEF ClosedUnderImports
    <2>1. PICK Z \in SUBSET A : e \notin Z /\ ClosedUnderImports(Z) /\ p \in Z
      OBVIOUS
    <2>2. ImportsOf(p) \subseteq Z
      BY <2>1 DEF ClosedUnderImports
    <2> QED BY <2>1, <2>2
  <1>4. \A Z \in SUBSET A : e \notin Z /\ ClosedUnderImports(Z) => Z \subseteq U
    OBVIOUS
  <1> HIDE DEF U
  <1>5. ASSUME NEW p \in C PROVE ImportsOf(p) \cap C # {}
    <2> SUFFICES ASSUME ImportsOf(p) \cap C = {} PROVE FALSE
      OBVIOUS
    <2>1. ImportsOf(p) \subseteq U
      BY <1>1 DEF ClosedUnderImports
    <2>2. CASE p = e
      <3>1. A \subseteq U
        BY <1>2, <1>3, <2>1, <2>2 DEF JustReached
      <3> QED BY <1>2, <3>1
    <2>3. CASE p # e
      <3>1. U \cup {p} \in SUBSET A /\ e \notin U \cup {p}
        BY <1>2, <2>3
      <3>2. ClosedUnderImports(U \cup {p})
        BY <1>3, <2>1 DEF ClosedUnderImports
      <3> QED BY <1>4, <3>1, <3>2
    <2> QED BY <2>2, <2>3
  <1>6. C \in SUBSET A /\ C # {}
    BY <1>2
  <1> HIDE DEF C
  <1> QED BY <1>5, <1>6 DEF InNoCycle

-----------------------------------------------------------------------------
(* The functions an interpreter keeps.                                     *)

(* An alias leads to where it is bound.                                    *)
LEMMA AliasesThere ==
  ASSUME NEW f, NEW alias, NEW there, NEW p \in there, \A a \in DOMAIN f : f[a] \in there
  PROVE  \A a \in DOMAIN Over(Only(alias, p), f) : Over(Only(alias, p), f)[a] \in there
  BY DEF Over, Only

(* One export gives out one name, of the module or of one that is there.   *)
LEMMA ItemIsThere ==
  ASSUME NEW i, AllThere(i), NEW e, NEW o \in DOMAIN ExportedItem(i, e)
  PROVE  ExportedItem(i, e)[o].file \in DOMAIN i.loaded \cup {i.path}
  <1>0. DOMAIN <<>> = {}
    BY EmptySeq
  <1>1. CASE e.from = NoAlias
    <2>1. ExportedItem(i, e) = Only(<<FileAt(i.path).has[e.item], e.as>>, Home(i, e.item))
      BY <1>0, <1>1 DEF ExportedItem
    <2>2. ExportedItem(i, e)[o] = Home(i, e.item)
      BY <2>1 DEF Only
    <2> QED BY <2>2 DEF Home
  <1>2. CASE e.from # NoAlias
    <2> DEFINE t == IF e.from \in DOMAIN i.aliases THEN i.loaded[i.aliases[e.from]].table ELSE <<>>
    <2>1. \A x \in DOMAIN t : t[x].file \in DOMAIN i.loaded
      BY <1>0 DEF AllThere
    <2>2. ExportedItem(i, e) =
            CASE <<"::", e.item>> \in DOMAIN t -> Only(<<"::", e.as>>, t[<<"::", e.item>>])
              [] <<"::", e.item>> \notin DOMAIN t /\ <<".", e.item>> \in DOMAIN t ->
                   Only(<<".", e.as>>, t[<<".", e.item>>])
              [] OTHER -> <<>>
      BY <1>2 DEF ExportedItem
    <2> HIDE DEF t
    <2>3. CASE <<"::", e.item>> \in DOMAIN t
      <3>1. ExportedItem(i, e)[o] = t[<<"::", e.item>>]
        BY <2>2, <2>3 DEF Only
      <3> QED BY <2>1, <2>3, <3>1
    <2>4. CASE <<"::", e.item>> \notin DOMAIN t /\ <<".", e.item>> \in DOMAIN t
      <3>1. ExportedItem(i, e)[o] = t[<<".", e.item>>]
        BY <2>2, <2>4 DEF Only
      <3> QED BY <2>1, <2>4, <3>1
    <2>5. CASE <<"::", e.item>> \notin DOMAIN t /\ <<".", e.item>> \notin DOMAIN t
      BY <1>0, <2>2, <2>5
    <2> QED BY <2>3, <2>4, <2>5
  <1> QED BY <1>1, <1>2

LEMMA TableIsThere ==
  ASSUME NEW i, AllThere(i), NEW o \in DOMAIN Table(i)
  PROVE  Table(i)[o].file \in DOMAIN i.loaded \cup {i.path}
  <1>1. CASE FileAt(i.path).declared
    <2> DEFINE items == {ExportedItem(i, e) : e \in FileAt(i.path).exports}
               D == UNION {DOMAIN t : t \in items}
    <2>1. Table(i) = [x \in D |-> (CHOOSE t \in items : x \in DOMAIN t)[x]]
      BY <1>1 DEF Table
    <2>2. o \in D /\ Table(i)[o] = (CHOOSE t \in items : o \in DOMAIN t)[o]
      <3> HIDE DEF D, items
      <3> QED BY <2>1
    <2>3. \E t \in items : o \in DOMAIN t
      <3> HIDE DEF items
      <3> QED BY <2>2 DEF D
    <2>4. PICK t \in items : o \in DOMAIN t /\ Table(i)[o] = t[o]
      <3> HIDE DEF items, D
      <3> QED BY <2>2, <2>3
    <2>5. PICK e \in FileAt(i.path).exports : t = ExportedItem(i, e)
      OBVIOUS
    <2> QED BY <2>4, <2>5, ItemIsThere
  <1>2. CASE ~FileAt(i.path).declared
    <2>1. Table(i) = [x \in Own(i) |-> Home(i, x[2])]
      BY <1>2 DEF Table
    <2>2. Table(i)[o] = Home(i, o[2])
      BY <2>1
    <2> QED BY <2>2 DEF Home
  <1> QED BY <1>1, <1>2

-----------------------------------------------------------------------------
(* What an interpreter has after a step.                                   *)

LEMMA Advanced ==
  ASSUME NEW i, IsInterpreter(i), NEW alias, NEW p
  PROVE  /\ Known(i, alias, p).path = i.path
         /\ Known(i, alias, p).next = i.next + 1
         /\ Known(i, alias, p).loading = i.loading
         /\ Known(i, alias, p).loaded = i.loaded
         /\ Known(i, alias, p).aliases = Over(Only(alias, p), i.aliases)
  BY DEF Known, IsInterpreter

LEMMA StillInterpreter ==
  ASSUME NEW i, IsInterpreter(i), NEW alias, NEW p
  PROVE  IsInterpreter(Known(i, alias, p))
  <1> DEFINE k == Known(i, alias, p)
             a == Over(Only(alias, p), i.aliases)
             n == i.next + 1
  <1>1. /\ i \in [path : {i.path}, next : Nat \ {0}, loading : {i.loading},
                  loaded : {i.loaded}, aliases : {i.aliases}]
        /\ n \in Nat \ {0}
    BY DEF IsInterpreter
  <1>2. k = [i EXCEPT !.aliases = a, !.next = n]
    BY DEF Known
  <1> HIDE DEF a, n, k
  <1>3. k.path = i.path /\ k.next = n /\ k.loading = i.loading /\ k.loaded = i.loaded
    BY <1>1, <1>2
  <1>4. k.aliases = a
    BY <1>1, <1>2
  <1>5. k \in [path : {i.path}, next : {n}, loading : {i.loading},
               loaded : {i.loaded}, aliases : {a}]
    BY <1>1, <1>2
  <1>6. IsInterpreter(k)
    BY <1>1, <1>3, <1>4, <1>5 DEF IsInterpreter
  <1> QED BY <1>6 DEF k

LEMMA DoneNext ==
  ASSUME NEW i, NEW k, IsInterpreter(i), k.path = i.path, k.next = i.next + 1
  PROVE  ImportsDone(k) =
           ImportsDone(i) \cup {resolve_from(i.path, FileAt(i.path).imports[i.next])}
  <1>1. i.next \in Nat \ {0}
    BY DEF IsInterpreter
  <1>2. 1..(k.next - 1) = 1..(i.next - 1) \cup {i.next}
    BY <1>1
  <1> QED BY <1>2 DEF ImportsDone

(* An import of a module that is there.                                    *)
LEMMA KnownGood ==
  ASSUME NEW i, IsInterpreter(i), Good(i), NEW alias,
         NEW p \in DOMAIN i.loaded,
         p = resolve_from(i.path, FileAt(i.path).imports[i.next]),
         NEW k, k = Known(i, alias, p)
  PROVE  Good(k)
  <1>1. /\ k.path = i.path /\ k.next = i.next + 1 /\ k.loaded = i.loaded
        /\ k.aliases = Over(Only(alias, p), i.aliases)
    BY Advanced
  <1>2. ImportsDone(k) = ImportsDone(i) \cup {p}
    BY <1>1, DoneNext
  <1>3. JustReached(ImportsDone(k), DOMAIN k.loaded)
    <2>1. JustReached(ImportsDone(i), DOMAIN i.loaded)
      BY DEF Good
    <2> QED BY <1>1, <1>2, <2>1 DEF JustReached
  <1>4. AllThere(k)
    <2>1. \A a \in DOMAIN i.aliases : i.aliases[a] \in DOMAIN i.loaded
      BY DEF Good, AllThere
    <2>2. \A a \in DOMAIN k.aliases : k.aliases[a] \in DOMAIN i.loaded
      BY <1>1, <2>1, AliasesThere
    <2> QED BY <1>1, <2>2 DEF Good, AllThere
  <1>5. InNoCycle(DOMAIN k.loaded) /\ \A q \in DOMAIN k.loaded : Whole(q)
    BY <1>1 DEF Good
  <1> QED BY <1>3, <1>4, <1>5 DEF Good

(* A module is loaded: what its interpreter has is handed up with it.      *)
LEMMA MergedGood ==
  ASSUME NEW i, IsInterpreter(i), Good(i), NEW m, IsInterpreter(m), Good(m), NEW alias,
         Whole(m.path),
         m.path = resolve_from(i.path, FileAt(i.path).imports[i.next]),
         ImportsDone(m) = ImportsOf(m.path), m.path \notin DOMAIN m.loaded,
         NEW k, k = Known([i EXCEPT !.loaded = Merged(@, m)], alias, m.path)
  PROVE  /\ Good(k) /\ IsInterpreter(k)
         /\ k.path = i.path /\ k.next = i.next + 1 /\ k.loading = i.loading
         /\ DOMAIN k.loaded = DOMAIN i.loaded \cup (DOMAIN m.loaded \cup {m.path})
  <1>1. PICK l : l = Merged(i.loaded, m)
    OBVIOUS
  <1>2. PICK j : j = [i EXCEPT !.loaded = l]
    OBVIOUS
  <1>3. IsInterpreter(j) /\ j.path = i.path /\ j.next = i.next /\ j.loading = i.loading
        /\ j.loaded = l /\ j.aliases = i.aliases
    BY <1>2 DEF IsInterpreter
  <1>4. k = Known(j, alias, m.path)
    <2>1. j = [i EXCEPT !.loaded = Merged(@, m)]
      BY <1>1, <1>2
    <2> QED BY <2>1
  <1>5. /\ IsInterpreter(k) /\ k.path = i.path /\ k.next = i.next + 1
        /\ k.loading = i.loading /\ k.loaded = l
        /\ k.aliases = Over(Only(alias, m.path), i.aliases)
    <2>1. IsInterpreter(k)
      BY <1>3, <1>4, StillInterpreter
    <2>2. /\ k.path = j.path /\ k.next = j.next + 1
          /\ k.loading = j.loading /\ k.loaded = j.loaded
          /\ k.aliases = Over(Only(alias, m.path), j.aliases)
      BY <1>3, <1>4, Advanced
    <2> QED BY <1>3, <2>1, <2>2
  <1>6. PICK own : own = [table |-> Table(m), aliases |-> m.aliases]
    OBVIOUS
  <1>7. l = Over(Only(m.path, own), Over(i.loaded, m.loaded))
    BY <1>1, <1>6 DEF Merged
  <1> DEFINE A == DOMAIN i.loaded
             B == DOMAIN m.loaded
  <1>8. DOMAIN l = A \cup (B \cup {m.path}) /\ l[m.path] = own
    BY <1>7 DEF Over, Only
  <1>9. /\ \A p \in A : p # m.path => l[p] = i.loaded[p]
        /\ \A p \in B : p # m.path /\ p \notin A => l[p] = m.loaded[p]
    <2>1. ASSUME NEW p \in A, p # m.path PROVE l[p] = i.loaded[p]
      BY <1>7, <2>1 DEF Over, Only
    <2>2. ASSUME NEW p \in B, p # m.path, p \notin A PROVE l[p] = m.loaded[p]
      BY <1>7, <2>2 DEF Over, Only
    <2> QED BY <2>1, <2>2
  <1>10. JustReached(ImportsDone(k), DOMAIN l)
    <2>1. JustReached(ImportsDone(i), A) /\ JustReached(ImportsOf(m.path), B)
      BY DEF Good
    <2>2. ImportsDone(k) = ImportsDone(i) \cup {m.path}
      BY <1>5, DoneNext
    <2> HIDE DEF A, B
    <2> QED BY <1>8, <2>1, <2>2, ReachedTogether
  <1>11. InNoCycle(DOMAIN l)
    <2>1. /\ ClosedUnderImports(A) /\ ClosedUnderImports(B) /\ ImportsOf(m.path) \subseteq B
          /\ InNoCycle(A) /\ InNoCycle(B)
      BY DEF Good, JustReached
    <2>2. m.path \notin B
      OBVIOUS
    <2> HIDE DEF A, B
    <2>3. InNoCycle(B \cup {m.path})
      BY <2>1, <2>2, NoCycleWithOneMore
    <2> QED BY <1>8, <2>1, <2>3, NoCycleInUnion
  <1>12. \A p \in DOMAIN l : Whole(p)
    BY <1>8 DEF Good
  <1>13. \A a \in DOMAIN k.aliases : k.aliases[a] \in DOMAIN l
    <2>1. \A a \in DOMAIN i.aliases : i.aliases[a] \in DOMAIN l
      BY <1>8 DEF Good, AllThere
    <2>2. m.path \in DOMAIN l
      BY <1>8
    <2> QED BY <1>5, <2>1, <2>2, AliasesThere
  <1>14. ASSUME NEW p \in DOMAIN l
         PROVE  /\ \A a \in DOMAIN l[p].aliases : l[p].aliases[a] \in DOMAIN l
                /\ \A o \in DOMAIN l[p].table : l[p].table[o].file \in DOMAIN l
    <2>1. CASE p = m.path
      <3>1. l[p].aliases = m.aliases /\ l[p].table = Table(m)
        BY <1>6, <1>8, <2>1
      <3>2. AllThere(m)
        BY DEF Good
      <3>3. \A o \in DOMAIN Table(m) : Table(m)[o].file \in B \cup {m.path}
        BY <3>2, TableIsThere
      <3>4. \A a \in DOMAIN m.aliases : m.aliases[a] \in B
        BY <3>2 DEF AllThere
      <3> QED BY <1>8, <3>1, <3>3, <3>4
    <2>2. CASE p # m.path /\ p \in A
      <3>1. l[p] = i.loaded[p]
        BY <1>9, <2>2
      <3>2. /\ \A a \in DOMAIN i.loaded[p].aliases : i.loaded[p].aliases[a] \in A
            /\ \A o \in DOMAIN i.loaded[p].table : i.loaded[p].table[o].file \in A
        BY <2>2 DEF Good, AllThere
      <3> QED BY <1>8, <3>1, <3>2
    <2>3. CASE p # m.path /\ p \notin A
      <3>1. p \in B /\ l[p] = m.loaded[p]
        BY <1>8, <1>9, <2>3
      <3>2. /\ \A a \in DOMAIN m.loaded[p].aliases : m.loaded[p].aliases[a] \in B
            /\ \A o \in DOMAIN m.loaded[p].table : m.loaded[p].table[o].file \in B
        BY <3>1 DEF Good, AllThere
      <3> QED BY <1>8, <3>1, <3>2
    <2> QED BY <2>1, <2>2, <2>3
  <1>15. AllThere(k)
    BY <1>5, <1>13, <1>14 DEF AllThere
  <1>16. Good(k)
    BY <1>5, <1>10, <1>11, <1>12, <1>15 DEF Good
  <1> QED BY <1>5, <1>8, <1>16

(* A new interpreter has nothing.                                          *)
LEMMA BeginsGood ==
  ASSUME NEW p, NEW loading, NEW i, i = Interpreter(p, loading)
  PROVE  /\ Good(i) /\ IsInterpreter(i) /\ i.path = p /\ i.next = 1
         /\ i.loading = loading /\ DOMAIN i.loaded = {}
  <1>1. /\ IsInterpreter(i) /\ i.path = p /\ i.next = 1 /\ i.loading = loading
        /\ i.loaded = <<>> /\ i.aliases = <<>>
    BY DEF Interpreter, IsInterpreter
  <1>2. DOMAIN <<>> = {}
    BY EmptySeq
  <1>3. ImportsDone(i) = {}
    BY <1>1 DEF ImportsDone
  <1>4. JustReached({}, {}) /\ InNoCycle({})
    BY DEF JustReached, ClosedUnderImports, InNoCycle
  <1>5. AllThere(i)
    BY <1>1, <1>2 DEF AllThere
  <1> QED BY <1>1, <1>2, <1>3, <1>4, <1>5 DEF Good

-----------------------------------------------------------------------------
(* The stack.                                                              *)

LEMMA OfItsElements ==
  ASSUME NEW S, NEW s \in Seq(S)
  PROVE  s \in Seq(Elements(s))
  <1>1. Len(s) \in Nat /\ s \in [1..Len(s) -> S] /\ DOMAIN s = 1..Len(s)
    OBVIOUS
  <1>2. s \in [1..Len(s) -> Elements(s)]
    BY <1>1 DEF Elements
  <1> QED BY <1>1, <1>2

LEMMA Pushed ==
  ASSUME NEW s, s \in Seq(Elements(s)), NEW i, NEW t, t = Append(s, i)
  PROVE  /\ t \in Seq(Elements(t)) /\ Len(t) = Len(s) + 1
         /\ DOMAIN t = 1..(Len(s) + 1) /\ t[Len(s) + 1] = i
         /\ \A m \in 1..Len(s) : t[m] = s[m]
  <1>1. t \in Seq(Elements(s) \cup {i}) /\ Len(t) = Len(s) + 1
    OBVIOUS
  <1>2. t[Len(s) + 1] = i /\ \A m \in 1..Len(s) : t[m] = s[m]
    OBVIOUS
  <1>3. t \in Seq(Elements(t))
    BY <1>1, OfItsElements
  <1> QED BY <1>1, <1>2, <1>3

LEMMA Fronts ==
  ASSUME NEW s, s \in Seq(Elements(s))
  PROVE  /\ Front(s) = SubSeq(s, 1, Len(s) - 1)
         /\ Last(s) = s[Len(s)]
         /\ Len(s) > 1 => Front(Front(s)) = SubSeq(s, 1, (Len(s) - 1) - 1)
  <1>1. Front(s) = SubSeq(s, 1, Len(s) - 1) /\ Last(s) = s[Len(s)]
    BY DEF Front, Last
  <1>2. ASSUME Len(s) > 1 PROVE Front(Front(s)) = SubSeq(s, 1, (Len(s) - 1) - 1)
    <2> DEFINE f == SubSeq(s, 1, Len(s) - 1)
               g == SubSeq(s, 1, (Len(s) - 1) - 1)
    <2>1. f \in Seq(Elements(s)) /\ Len(f) = Len(s) - 1
          /\ \A m \in 1..(Len(s) - 1) : f[m] = s[m]
      BY <1>2
    <2>2. Front(f) = SubSeq(f, 1, (Len(s) - 1) - 1)
      BY <2>1 DEF Front
    <2>3. SubSeq(f, 1, (Len(s) - 1) - 1) = g
      <3>1. SubSeq(f, 1, (Len(s) - 1) - 1) = [m \in 1..((Len(s) - 1) - 1) |-> f[m]]
        BY <1>2, <2>1
      <3>2. g = [m \in 1..((Len(s) - 1) - 1) |-> s[m]]
        BY <1>2
      <3> QED BY <2>1, <3>1, <3>2
    <2> QED BY <1>1, <2>2, <2>3
  <1> QED BY <1>1, <1>2

LEMMA SameBelow ==
  ASSUME NEW s, NEW t, NEW n \in Nat, t[n] = s[n],
         \A m \in 2..n : t[m].path = s[m].path, InPlace(s, n)
  PROVE  InPlace(t, n)
  <1>1. {t[m].path : m \in 2..n} = {s[m].path : m \in 2..n}
    OBVIOUS
  <1> QED BY <1>1 DEF InPlace

(* The interpreter at n has imported one more: those above it are gone.    *)
LEMMA NewTop ==
  ASSUME NEW s, StackInv(s), NEW n \in 1..Len(s), NEW i, NEW t,
         t = Append(SubSeq(s, 1, n - 1), i),
         IsInterpreter(i), Good(i), i.path = s[n].path, i.loading = s[n].loading,
         i.next <= Len(FileAt(i.path).imports) + 1,
         \A m \in 2..n : s[m].path \notin DOMAIN i.loaded
  PROVE  StackInv(t)
  <1>1. s \in Seq(Elements(s))
    BY DEF StackInv
  <1>2. t \in Seq(Elements(s) \cup {i}) /\ Len(t) = n /\ t # <<>>
    BY <1>1
  <1>3. t \in Seq(Elements(t)) /\ DOMAIN t = 1..n
    <2>1. t \in Seq(Elements(t))
      BY <1>2, OfItsElements, Zenon
    <2> QED BY <1>2, <2>1
  <1>4. t[n] = i /\ \A m \in 1..(n - 1) : t[m] = s[m]
    BY <1>1
  <1>5. n \in Nat \ {0} /\ Len(s) \in Nat /\ DOMAIN s = 1..Len(s) /\ n \in DOMAIN s
    BY <1>1
  <1>6. \A m \in 1..n : t[m].path = s[m].path
    BY <1>4, <1>5
  <1>7. ASSUME NEW m \in 1..n
        PROVE  InPlace(t, m)
    <2>1. InPlace(s, m) /\ InPlace(s, n)
      BY <1>5 DEF StackInv
    <2>2. \A o \in 2..m : t[o].path = s[o].path
      BY <1>5, <1>6
    <2>3. CASE m = n
      <3>1. {t[o].path : o \in 2..n} = {s[o].path : o \in 2..n}
        BY <2>2, <2>3
      <3>2. Whole(s[n].path) /\ i.loading = {t[o].path : o \in 2..n}
        BY <2>1, <3>1 DEF InPlace
      <3>3. \A o \in 2..n : t[o].path \notin DOMAIN i.loaded
        BY <2>2, <2>3
      <3> QED BY <1>4, <2>3, <3>2, <3>3 DEF InPlace
    <2>4. CASE m # n
      <3>1. t[m] = s[m] /\ m \in Nat
        BY <1>4, <1>5, <2>4
      <3> QED BY <2>1, <2>2, <3>1, SameBelow
    <2> QED BY <2>3, <2>4
  <1>8. t[1].path = project.entry
    BY <1>5, <1>6 DEF StackInv
  <1>9. ASSUME NEW m \in 2..n
        PROVE  IsLoadedBelow(t, m)
    <2>1. m \in 2..Len(s) /\ m \in 1..n /\ m - 1 \in 1..(n - 1)
      BY <1>5
    <2>2. IsLoadedBelow(s, m)
      BY <2>1 DEF StackInv
    <2>3. t[m - 1] = s[m - 1] /\ t[m].path = s[m].path
      BY <1>4, <1>6, <2>1
    <2> QED BY <2>2, <2>3 DEF IsLoadedBelow
  <1>10. \A m, o \in 2..n : t[m].path = t[o].path => m = o
    <2>1. \A m \in 2..n : m \in 1..n /\ m \in 2..Len(s)
      BY <1>5
    <2>2. \A m, o \in 2..Len(s) : s[m].path = s[o].path => m = o
      BY DEF StackInv
    <2> QED BY <1>6, <2>1, <2>2
  <1> QED BY <1>2, <1>3, <1>7, <1>8, <1>9, <1>10 DEF StackInv

(* One more interpreter, for a file that is not under way.                 *)
LEMMA OneMore ==
  ASSUME NEW s, StackInv(s), NEW i, NEW t, t = Append(s, i),
         s[Len(s)].next <= Len(FileAt(s[Len(s)].path).imports),
         i.path = resolve_from(s[Len(s)].path, FileAt(s[Len(s)].path).imports[s[Len(s)].next]),
         i.path \notin s[Len(s)].loading, i.loading = s[Len(s)].loading \cup {i.path},
         IsInterpreter(i), Good(i), Whole(i.path), DOMAIN i.loaded = {},
         i.next <= Len(FileAt(i.path).imports) + 1
  PROVE  StackInv(t)
  <1> DEFINE n == Len(s)
  <1>1. s \in Seq(Elements(s)) /\ s # <<>>
    BY DEF StackInv
  <1>2. n \in Nat \ {0} /\ DOMAIN s = 1..n
    BY <1>1
  <1>3. t \in Seq(Elements(s) \cup {i}) /\ Len(t) = n + 1 /\ t # <<>>
    BY <1>1
  <1>4. t \in Seq(Elements(t)) /\ DOMAIN t = 1..(n + 1)
    <2>1. t \in Seq(Elements(t))
      BY <1>3, OfItsElements, Zenon
    <2> QED BY <1>3, <2>1
  <1>5. t[n + 1] = i /\ \A m \in 1..n : t[m] = s[m]
    BY <1>1
  <1>6. \A m \in 1..n : InPlace(s, m)
    BY <1>2 DEF StackInv
  <1>7. s[n].loading = {s[m].path : m \in 2..n}
    BY <1>2, <1>6 DEF InPlace
  <1>8. i.path \notin {s[m].path : m \in 2..n}
    BY <1>7
  <1>9. \A m \in 2..n : i.path # s[m].path
    <2> HIDE DEF n
    <2> QED BY <1>8
  <1>10. InPlace(t, n + 1)
    <2>1. {t[o].path : o \in 2..(n + 1)} = {s[o].path : o \in 2..n} \cup {i.path}
      <3> HIDE DEF n
      <3>1. \A o \in 2..n : t[o].path = s[o].path
        BY <1>2, <1>5
      <3>2. 2..(n + 1) = 2..n \cup {n + 1} /\ t[n + 1].path = i.path
        BY <1>2, <1>5
      <3>3. {t[o].path : o \in 2..(n + 1)} = {t[o].path : o \in 2..n} \cup {i.path}
        BY <3>2
      <3>4. {t[o].path : o \in 2..n} = {s[o].path : o \in 2..n}
        BY <3>1
      <3> QED BY <3>3, <3>4
    <2>2. i.loading = {t[o].path : o \in 2..(n + 1)}
      BY <1>7, <2>1
    <2> HIDE DEF n
    <2> QED BY <1>5, <2>2 DEF InPlace
  <1>11. ASSUME NEW m \in 1..n
         PROVE  InPlace(t, m)
    <2> HIDE DEF n
    <2>1. m \in Nat /\ \A o \in 2..m : o \in 1..n
      BY <1>2
    <2>2. t[m] = s[m] /\ \A o \in 2..m : t[o].path = s[o].path
      BY <1>5, <2>1
    <2> QED BY <1>6, <2>1, <2>2, SameBelow
  <1>12. t[1].path = project.entry
    <2>1. s[1].path = project.entry
      BY DEF StackInv
    <2> HIDE DEF n
    <2> QED BY <1>2, <1>5, <2>1
  <1>13. ASSUME NEW m \in 2..(n + 1)
         PROVE  IsLoadedBelow(t, m)
    <2>1. CASE m = n + 1
      <3>1. IsLoadedBelow(t, n + 1)
        <4>1. t[(n + 1) - 1] = s[n] /\ t[n + 1] = i
          <5> HIDE DEF n
          <5>1. (n + 1) - 1 = n /\ n \in 1..n
            BY <1>2
          <5> QED BY <1>5, <5>1
        <4>2. /\ s[n].next <= Len(FileAt(s[n].path).imports)
              /\ i.path = resolve_from(s[n].path, FileAt(s[n].path).imports[s[n].next])
          OBVIOUS
        <4> HIDE DEF n
        <4> QED BY <4>1, <4>2 DEF IsLoadedBelow
      <3> QED BY <2>1, <3>1
    <2>2. CASE m # n + 1
      <3>1. m \in 2..n
        BY <1>2, <2>2
      <3>2. IsLoadedBelow(s, m)
        BY <3>1 DEF StackInv
      <3> HIDE DEF n
      <3>3. t[m - 1] = s[m - 1] /\ t[m] = s[m]
        BY <1>2, <1>5, <3>1
      <3> QED BY <3>2, <3>3 DEF IsLoadedBelow
    <2> QED BY <2>1, <2>2
  <1>14. \A m, o \in 2..n : s[m].path = s[o].path => m = o
    BY DEF StackInv
  <1> HIDE DEF n
  <1>15. ASSUME NEW m \in 2..(n + 1), NEW o \in 2..(n + 1), t[m].path = t[o].path
         PROVE  m = o
    <2>0. t[n + 1].path = i.path /\ \A l \in 2..n : t[l].path = s[l].path
      <3>1. \A l \in 2..n : l \in 1..n
        BY <1>2
      <3> QED BY <1>5, <3>1
    <2>1. CASE m \in 2..n /\ o \in 2..n
      <3>1. s[m].path = s[o].path
        BY <1>15, <2>0, <2>1
      <3> QED BY <1>14, <2>1, <3>1
    <2>2. CASE m = n + 1 /\ o \in 2..n
      <3>1. s[o].path = i.path
        BY <1>15, <2>0, <2>2
      <3> QED BY <1>9, <2>2, <3>1
    <2>3. CASE o = n + 1 /\ m \in 2..n
      <3>1. s[m].path = i.path
        BY <1>15, <2>0, <2>3
      <3> QED BY <1>9, <2>3, <3>1
    <2>4. CASE m = n + 1 /\ o = n + 1
      BY <2>4
    <2> QED BY <1>2, <2>1, <2>2, <2>3, <2>4
  <1>16. \A m \in 1..(n + 1) : InPlace(t, m)
    <2>1. \A m \in 1..(n + 1) : m \in 1..n \/ m = n + 1
      BY <1>2
    <2> QED BY <1>10, <1>11, <2>1
  <1> QED BY <1>3, <1>4, <1>12, <1>13, <1>15, <1>16 DEF StackInv

(* Importing a file that is under way closes a cycle.                      *)
LEMMA ClosesACycle ==
  ASSUME NEW s, StackInv(s), NEW under, under = {s[n].path : n \in 2..Len(s)},
         NEW target \in s[Len(s)].loading, target \in ImportsOf(s[Len(s)].path),
         ImportsAreLists
  PROVE  ~InNoCycle(under)
  <1>1. Len(s) \in Nat \ {0} /\ DOMAIN s = 1..Len(s)
    BY DEF StackInv
  <1>2. s[Len(s)].loading = {s[n].path : n \in 2..Len(s)}
    BY <1>1 DEF StackInv, InPlace
  <1>3. PICK first \in 2..Len(s) : target = s[first].path
    BY <1>2
  <1> DEFINE C == {s[n].path : n \in first..Len(s)}
  <1>4. C \in SUBSET under /\ C # {} /\ target \in C
    BY <1>1, <1>3
  <1>5. ASSUME NEW n \in first..Len(s)
        PROVE  ImportsOf(s[n].path) \cap C # {}
    <2>1. CASE n = Len(s)
      BY <1>4, <2>1
    <2>2. CASE n # Len(s)
      <3>1. n + 1 \in 2..Len(s) /\ n + 1 \in first..Len(s) /\ n \in DOMAIN s /\ (n + 1) - 1 = n
        BY <1>1, <2>2
      <3>2. IsInterpreter(s[n]) /\ Whole(s[n].path)
        BY <3>1 DEF StackInv, InPlace
      <3>3. IsLoadedBelow(s, n + 1)
        BY <3>1 DEF StackInv
      <3>4. /\ s[n].next <= Len(FileAt(s[n].path).imports)
            /\ s[n + 1].path = resolve_from(s[n].path, FileAt(s[n].path).imports[s[n].next])
        BY <3>1, <3>3 DEF IsLoadedBelow
      <3>5. s[n].next \in Nat \ {0} /\ Len(FileAt(s[n].path).imports) \in Nat
        BY <3>2 DEF IsInterpreter, ImportsAreLists, Whole, Exists, FileAt
      <3>6. s[n].next \in 1..Len(FileAt(s[n].path).imports)
        BY <3>4, <3>5
      <3>7. s[n + 1].path \in ImportsOf(s[n].path)
        BY <3>4, <3>6 DEF ImportsOf
      <3> QED BY <3>1, <3>7
    <2> QED BY <2>1, <2>2
  <1>6. \A p \in C : ImportsOf(p) \cap C # {}
    BY <1>5
  <1> HIDE DEF C
  <1> QED BY <1>4, <1>6 DEF InNoCycle

-----------------------------------------------------------------------------
(* The steps.                                                              *)

(* What holds of the interpreter on top.                                   *)
LEMMA AtTheTop ==
  ASSUME ImportsAreLists, StackInv(tree.stack)
  PROVE  /\ Len(tree.stack) \in Nat \ {0} /\ DOMAIN tree.stack = 1..Len(tree.stack)
         /\ Top = tree.stack[Len(tree.stack)]
         /\ IsInterpreter(Top) /\ Good(Top) /\ Whole(Top.path)
         /\ Top.next \in Nat \ {0} /\ Len(FileAt(Top.path).imports) \in Nat
         /\ Top.next <= Len(FileAt(Top.path).imports) + 1
         /\ \A m \in 2..Len(tree.stack) : tree.stack[m].path \notin DOMAIN Top.loaded
         /\ Front(tree.stack) = SubSeq(tree.stack, 1, Len(tree.stack) - 1)
  <1> DEFINE s == tree.stack
  <1>1. s \in Seq(Elements(s)) /\ s # <<>>
    BY DEF StackInv
  <1> HIDE DEF s
  <1>2. Len(s) \in Nat \ {0} /\ DOMAIN s = 1..Len(s)
    BY <1>1
  <1>3. Last(s) = s[Len(s)] /\ Front(s) = SubSeq(s, 1, Len(s) - 1)
    BY DEF Last, Front
  <1>4. Len(s) \in DOMAIN s
    BY <1>2
  <1>5. StackInv(s)
    BY DEF s
  <1>6. /\ IsInterpreter(s[Len(s)]) /\ Good(s[Len(s)]) /\ Whole(s[Len(s)].path)
        /\ s[Len(s)].next <= Len(FileAt(s[Len(s)].path).imports) + 1
        /\ \A m \in 2..Len(s) : s[m].path \notin DOMAIN s[Len(s)].loaded
    BY <1>4, <1>5 DEF StackInv, InPlace
  <1>7. Top = s[Len(s)]
    BY <1>3 DEF Top, s
  <1>8. Top.next \in Nat \ {0}
    BY <1>6, <1>7 DEF IsInterpreter
  <1>9. Len(FileAt(Top.path).imports) \in Nat
    BY <1>6, <1>7 DEF ImportsAreLists, Whole, Exists, FileAt
  <1> QED BY <1>2, <1>3, <1>6, <1>7, <1>8, <1>9 DEF s

LEMMA StepCircular ==
  ASSUME ImportsAreLists, IsTree, StackInv(tree.stack), CircularImport
  PROVE  /\ IsTree' /\ tree'.stack = tree.stack /\ tree'.said = "circular"
         /\ ~InNoCycle(UnderWay)
  <1>1. IsTree' /\ tree'.stack = tree.stack /\ tree'.said = "circular"
    BY DEF IsTree, CircularImport
  <1>2. Target \in Top.loading /\ Top.next \in 1..Len(FileAt(Top.path).imports)
    BY AtTheTop DEF CircularImport, HasImport
  <1>3. Target \in ImportsOf(Top.path)
    BY <1>2 DEF Target, Written, ImportsOf
  <1>4. Top = tree.stack[Len(tree.stack)]
    BY AtTheTop
  <1>5. ~InNoCycle(UnderWay)
    BY <1>2, <1>3, <1>4, ClosesACycle DEF UnderWay
  <1> QED BY <1>1, <1>5

LEMMA StepAlreadyLoaded ==
  ASSUME ImportsAreLists, IsTree, StackInv(tree.stack), AlreadyLoaded
  PROVE  IsTree' /\ StackInv(tree'.stack) /\ tree'.said = "loading"
  <1> DEFINE s == tree.stack
             k == Known(Top, Written.as, Target)
  <1>1. /\ tree.said = "loading" /\ Top.next <= Len(FileAt(Top.path).imports)
        /\ Target \in DOMAIN Top.loaded
        /\ Target = resolve_from(Top.path, FileAt(Top.path).imports[Top.next])
    BY DEF AlreadyLoaded, HasImport, Target, Written
  <1>2. IsTree' /\ tree'.said = "loading" /\ tree'.stack = Append(Front(s), k)
    BY <1>1 DEF IsTree, AlreadyLoaded, WithTop
  <1>3. /\ k.path = Top.path /\ k.next = Top.next + 1 /\ k.loading = Top.loading
        /\ k.loaded = Top.loaded
    BY AtTheTop, Advanced
  <1>4. IsInterpreter(k)
    BY AtTheTop, StillInterpreter
  <1>5. Good(k)
    BY <1>1, AtTheTop, KnownGood
  <1> HIDE DEF k
  <1>6. StackInv(tree'.stack)
    <2>1. tree'.stack = Append(SubSeq(s, 1, Len(s) - 1), k)
      BY <1>2, AtTheTop
    <2>2. Len(s) \in 1..Len(s) /\ Top = s[Len(s)]
      BY AtTheTop
    <2>3. k.next <= Len(FileAt(k.path).imports) + 1
      BY <1>1, <1>3, AtTheTop
    <2>4. \A m \in 2..Len(s) : s[m].path \notin DOMAIN k.loaded
      BY <1>3, AtTheTop
    <2> QED BY <1>3, <1>4, <1>5, <2>1, <2>2, <2>3, <2>4, NewTop
  <1> QED BY <1>2, <1>6

LEMMA StepNotLoadable ==
  ASSUME IsTree, NotLoadable
  PROVE  IsTree' /\ tree'.stack = tree.stack /\ tree'.said = "refused"
  BY DEF IsTree, NotLoadable

LEMMA StepLoadModule ==
  ASSUME ImportsAreLists, IsTree, StackInv(tree.stack), LoadModule
  PROVE  IsTree' /\ StackInv(tree'.stack) /\ tree'.said = "loading"
  <1> DEFINE s == tree.stack
             i == Interpreter(Target, LoadingOn(Top.loading, Target))
  <1>1. /\ tree.said = "loading" /\ Top.next <= Len(FileAt(Top.path).imports)
        /\ Target \notin Top.loading /\ Whole(Target)
        /\ Target = resolve_from(Top.path, FileAt(Top.path).imports[Top.next])
    BY DEF LoadModule, ToLoad, HasImport, Target, Written
  <1>2. IsTree' /\ tree'.said = "loading" /\ tree'.stack = Append(s, i)
    BY <1>1 DEF IsTree, LoadModule
  <1>3. /\ Good(i) /\ IsInterpreter(i) /\ i.path = Target /\ i.next = 1
        /\ i.loading = LoadingOn(Top.loading, Target) /\ DOMAIN i.loaded = {}
    BY BeginsGood
  <1> HIDE DEF i
  <1>4. i.loading = Top.loading \cup {i.path}
    BY <1>3 DEF LoadingOn
  <1>5. Len(FileAt(i.path).imports) \in Nat
    BY <1>1, <1>3 DEF ImportsAreLists, Whole, Exists, FileAt
  <1>6. Top = s[Len(s)]
    BY AtTheTop
  <1>7. i.next <= Len(FileAt(i.path).imports) + 1
    BY <1>3, <1>5
  <1>8. StackInv(tree'.stack)
    <2> HIDE DEF s
    <2>1. StackInv(s)
      BY DEF s
    <2>2. /\ i.path = resolve_from(s[Len(s)].path, FileAt(s[Len(s)].path).imports[s[Len(s)].next])
          /\ s[Len(s)].next <= Len(FileAt(s[Len(s)].path).imports)
          /\ i.path \notin s[Len(s)].loading /\ i.loading = s[Len(s)].loading \cup {i.path}
          /\ Whole(i.path)
      BY <1>1, <1>3, <1>4, <1>6
    <2> QED BY <1>2, <1>3, <1>7, <2>1, <2>2, OneMore
  <1> QED BY <1>2, <1>8

LEMMA StepModuleLoaded ==
  ASSUME ImportsAreLists, IsTree, StackInv(tree.stack), ModuleLoaded
  PROVE  IsTree' /\ StackInv(tree'.stack) /\ tree'.said = "loading"
  <1> DEFINE s == tree.stack
             n == Len(s) - 1
             alias == FileAt(s[n].path).imports[s[n].next].as
             k == Known([s[n] EXCEPT !.loaded = Merged(@, Top)], alias, Top.path)
  <1>1. tree.said = "loading" /\ Top.next > Len(FileAt(Top.path).imports) /\ Len(s) > 1
    BY DEF ModuleLoaded, Finished
  <1>2. IsTree' /\ tree'.said = "loading" /\ tree'.stack = Append(Front(Front(s)), k)
    BY <1>1 DEF IsTree, ModuleLoaded
  <1>3. /\ s \in Seq(Elements(s)) /\ Len(s) \in Nat /\ DOMAIN s = 1..Len(s)
        /\ n \in 1..Len(s) /\ n \in DOMAIN s /\ Len(s) \in 2..Len(s)
    BY <1>1, AtTheTop DEF StackInv
  <1>4. tree'.stack = Append(SubSeq(s, 1, n - 1), k)
    BY <1>1, <1>2, <1>3, Fronts
  <1>5. /\ IsInterpreter(s[n]) /\ Good(s[n])
        /\ \A m \in 2..n : s[m].path \notin DOMAIN s[n].loaded
    BY <1>3 DEF StackInv, InPlace
  <1>6. /\ IsInterpreter(Top) /\ Good(Top) /\ Whole(Top.path) /\ Top = s[Len(s)]
        /\ \A m \in 2..Len(s) : s[m].path \notin DOMAIN Top.loaded
    BY AtTheTop
  <1>7. /\ s[n].next <= Len(FileAt(s[n].path).imports)
        /\ Top.path = resolve_from(s[n].path, FileAt(s[n].path).imports[s[n].next])
    <2>1. IsLoadedBelow(s, Len(s))
      BY <1>3 DEF StackInv
    <2>2. IsLoadedBelow(s, n + 1)
      BY <1>3, <2>1
    <2>3. s[n + 1] = Top
      BY <1>3, <1>6
    <2>4. (n + 1) - 1 = n
      BY <1>3
    <2> HIDE DEF n, s
    <2> QED BY <2>2, <2>3, <2>4 DEF IsLoadedBelow
  <1>8. ImportsDone(Top) = ImportsOf(Top.path)
    <2>1. /\ Top.next \in Nat \ {0} /\ Len(FileAt(Top.path).imports) \in Nat
          /\ Top.next <= Len(FileAt(Top.path).imports) + 1
      BY AtTheTop
    <2>2. Top.next - 1 = Len(FileAt(Top.path).imports)
      BY <1>1, <2>1
    <2> QED BY <2>2 DEF ImportsDone, ImportsOf
  <1>9. Top.path \notin DOMAIN Top.loaded
    <2> HIDE DEF n, s
    <2> QED BY <1>3, <1>6
  <1>10. /\ Good(k) /\ IsInterpreter(k) /\ k.path = s[n].path /\ k.next = s[n].next + 1
         /\ k.loading = s[n].loading
         /\ DOMAIN k.loaded = DOMAIN s[n].loaded \cup (DOMAIN Top.loaded \cup {Top.path})
    <2>1. PICK below : below = s[n]
      OBVIOUS
    <2>2. PICK top : top = Top
      OBVIOUS
    <2>3. k = Known([below EXCEPT !.loaded = Merged(@, top)], alias, top.path)
      BY <2>1, <2>2
    <2> HIDE DEF k, alias
    <2>4. IsInterpreter(below) /\ Good(below)
      BY <1>5, <2>1
    <2>5. /\ IsInterpreter(top) /\ Good(top) /\ Whole(top.path)
          /\ ImportsDone(top) = ImportsOf(top.path) /\ top.path \notin DOMAIN top.loaded
      BY <1>6, <1>8, <1>9, <2>2
    <2>6. top.path = resolve_from(below.path, FileAt(below.path).imports[below.next])
      BY <1>7, <2>1, <2>2
    <2>7. /\ Good(k) /\ IsInterpreter(k) /\ k.path = below.path /\ k.next = below.next + 1
          /\ k.loading = below.loading
          /\ DOMAIN k.loaded = DOMAIN below.loaded \cup (DOMAIN top.loaded \cup {top.path})
      BY <2>3, <2>4, <2>5, <2>6, MergedGood
    <2> QED BY <2>1, <2>2, <2>7
  <1> HIDE DEF k, alias
  <1>11. \A m \in 2..n : s[m].path \notin DOMAIN k.loaded
    <2> SUFFICES ASSUME NEW m \in 2..n PROVE s[m].path \notin DOMAIN k.loaded
      OBVIOUS
    <2>1. m \in 2..Len(s) /\ m # Len(s)
      BY <1>3
    <2>2. s[m].path # Top.path
      BY <1>3, <1>6, <2>1 DEF StackInv
    <2> QED BY <1>5, <1>6, <1>10, <2>1, <2>2
  <1>12. k.next <= Len(FileAt(k.path).imports) + 1
    <2>1. Whole(s[n].path) /\ s[n].next \in Nat
      BY <1>3, <1>5 DEF StackInv, InPlace, IsInterpreter
    <2>2. Len(FileAt(s[n].path).imports) \in Nat
      BY <2>1 DEF ImportsAreLists, Whole, Exists, FileAt
    <2>3. k.path = s[n].path /\ k.next = s[n].next + 1
      BY <1>10
    <2> HIDE DEF n, s
    <2>4. s[n].next + 1 <= Len(FileAt(s[n].path).imports) + 1
      BY <1>7, <2>1, <2>2
    <2> QED BY <2>3, <2>4
  <1>13. StackInv(tree'.stack)
    <2> HIDE DEF n, s
    <2>1. StackInv(s)
      BY DEF s
    <2> QED BY <1>3, <1>4, <1>10, <1>11, <1>12, <2>1, NewTop
  <1> QED BY <1>2, <1>13

LEMMA StepProgramLoaded ==
  ASSUME IsTree, ProgramLoaded
  PROVE  IsTree' /\ tree'.stack = tree.stack /\ tree'.said = "loaded"
  BY DEF IsTree, ProgramLoaded

-----------------------------------------------------------------------------
(* The program's files stay as they are, and what holds of them with them. *)

LEMMA SameFiles ==
  ASSUME project' = project
  PROVE  \A p : /\ FileAt(p)' = FileAt(p) /\ Whole(p)' = Whole(p)
                /\ ImportsOf(p)' = ImportsOf(p)
  <1>1. \A p : FileAt(p)' = FileAt(p)
    BY DEF FileAt, Real
  <1>2. \A p : Whole(p)' = Whole(p)
    BY <1>1 DEF Whole, Exists, Real
  <1>3. \A p : ImportsOf(p)' = ImportsOf(p)
    BY <1>1 DEF ImportsOf
  <1> QED BY <1>1, <1>2, <1>3

LEMMA SameCycles ==
  ASSUME project' = project, NEW ps
  PROVE  InNoCycle(ps)' = InNoCycle(ps)
  BY SameFiles DEF InNoCycle

LEMMA StillGood ==
  ASSUME project' = project, NEW i, Good(i)
  PROVE  Good(i)'
  <1>1. ImportsDone(i)' = ImportsDone(i)
    BY SameFiles DEF ImportsDone
  <1>2. \A ps : ClosedUnderImports(ps)' = ClosedUnderImports(ps)
    BY SameFiles DEF ClosedUnderImports
  <1>3. JustReached(ImportsDone(i), DOMAIN i.loaded)'
    BY <1>1, <1>2 DEF JustReached, Good
  <1>4. InNoCycle(DOMAIN i.loaded)'
    BY SameCycles DEF Good
  <1>5. AllThere(i)'
    BY DEF Good, AllThere
  <1> QED BY SameFiles, <1>3, <1>4, <1>5 DEF Good

LEMMA StillStackInv ==
  ASSUME project' = project, NEW s, StackInv(s)
  PROVE  StackInv(s)'
  <1>1. \A i : IsInterpreter(i)' = IsInterpreter(i)
    BY DEF IsInterpreter
  <1>2. Elements(s)' = Elements(s)
    BY DEF Elements
  <1>3. \A n : InPlace(s, n) => InPlace(s, n)'
    BY SameFiles, StillGood, <1>1 DEF InPlace
  <1>4. \A n : IsLoadedBelow(s, n)' = IsLoadedBelow(s, n)
    BY SameFiles DEF IsLoadedBelow
  <1> QED BY <1>2, <1>3, <1>4 DEF StackInv

LEMMA TreeInvInit ==
  ASSUME ImportsAreLists, NEW declared \in BOOLEAN, TreeInit(declared)
  PROVE  TreeInv
  <1> DEFINE i == Interpreter(project.entry, {})
  <1>1. /\ Whole(project.entry) /\ tree.stack = <<i>> /\ IsTree
        /\ tree.said \in {"loading", "undeclared"}
    BY DEF TreeInit, IsTree
  <1>2. /\ Good(i) /\ IsInterpreter(i) /\ i.path = project.entry /\ i.next = 1
        /\ i.loading = {} /\ DOMAIN i.loaded = {}
    BY BeginsGood
  <1>3. Len(FileAt(i.path).imports) \in Nat
    BY <1>1, <1>2 DEF ImportsAreLists, Whole, Exists, FileAt
  <1>4. i.next <= Len(FileAt(i.path).imports) + 1
    BY <1>2, <1>3
  <1> HIDE DEF i
  <1>5. StackInv(<<i>>)
    <2>1. Len(<<i>>) = 1 /\ <<i>>[1] = i /\ DOMAIN <<i>> = {1} /\ <<i>> # <<>>
      OBVIOUS
    <2>2. <<i>> \in Seq(Elements(<<i>>))
      BY DEF Elements
    <2>3. \A n \in {1} : 2..n = {}
      OBVIOUS
    <2> QED BY <1>1, <1>2, <1>4, <2>1, <2>2, <2>3 DEF StackInv, InPlace
  <1> QED BY <1>1, <1>5 DEF TreeInv

LEMMA TreeInvStep ==
  ASSUME TreeInv, [TreeStep /\ UNCHANGED project]_<<project, tree>>
  PROVE  TreeInv'
  <1> USE DEF TreeInv
  <1>1. ImportsAreLists'
    BY DEF ImportsAreLists
  <1>2. ASSUME project' = project, StackInv(tree'.stack)
        PROVE  StackInv(tree.stack)'
    BY <1>2, StillStackInv
  <1>3. CASE CircularImport /\ UNCHANGED project
    <2>1. IsTree' /\ tree'.stack = tree.stack /\ tree'.said = "circular"
          /\ ~InNoCycle(UnderWay)
      BY <1>3, StepCircular
    <2>2. UnderWay' = UnderWay
      BY <2>1 DEF UnderWay
    <2>3. ~InNoCycle(UnderWay)'
      BY <1>3, <2>1, <2>2, SameCycles
    <2> QED BY <1>1, <1>2, <1>3, <2>1, <2>3
  <1>4. CASE AlreadyLoaded /\ UNCHANGED project
    BY <1>1, <1>2, <1>4, StepAlreadyLoaded
  <1>5. CASE NotLoadable /\ UNCHANGED project
    BY <1>1, <1>2, <1>5, StepNotLoadable
  <1>6. CASE LoadModule /\ UNCHANGED project
    BY <1>1, <1>2, <1>6, StepLoadModule
  <1>7. CASE ModuleLoaded /\ UNCHANGED project
    BY <1>1, <1>2, <1>7, StepModuleLoaded
  <1>8. CASE ProgramLoaded /\ UNCHANGED project
    <2>1. IsTree' /\ tree'.stack = tree.stack /\ tree'.said = "loaded"
      BY <1>8, StepProgramLoaded
    <2>2. Len(tree.stack) = 1 /\ Top.next > Len(FileAt(Top.path).imports)
      BY <1>8 DEF ProgramLoaded, Finished
    <2>3. Top' = Top
      BY <2>1 DEF Top
    <2>4. (Len(tree.stack) = 1 /\ Top.next > Len(FileAt(Top.path).imports))'
      BY <1>8, <2>1, <2>2, <2>3, SameFiles
    <2> QED BY <1>1, <1>2, <1>8, <2>1, <2>4
  <1>9. CASE UNCHANGED <<project, tree>>
    <2>1. project' = project /\ tree' = tree
      BY <1>9
    <2>2. UnderWay' = UnderWay /\ Top' = Top
      BY <2>1 DEF UnderWay, Top
    <2>3. (tree.said = "circular" => ~InNoCycle(UnderWay))'
      BY <2>1, <2>2, SameCycles
    <2>4. (tree.said = "loaded" => Len(tree.stack) = 1 /\ Top.next > Len(FileAt(Top.path).imports))'
      BY <2>1, <2>2, SameFiles
    <2>5. IsTree'
      BY <2>1 DEF IsTree
    <2> QED BY <1>1, <1>2, <2>1, <2>3, <2>4, <2>5
  <1> QED BY <1>3, <1>4, <1>5, <1>6, <1>7, <1>8, <1>9 DEF TreeStep

(* What is on the stack is always so: the basis of what follows.           *)
THEOREM TheStackIsInOrder == TreeSpec /\ ImportsAreLists => []TreeInv
  <1>1. (\E declared \in BOOLEAN : TreeInit(declared)) /\ ImportsAreLists => TreeInv
    BY TreeInvInit
  <1>2. TreeInv /\ [TreeStep /\ UNCHANGED project]_<<project, tree>> => TreeInv'
    BY TreeInvStep
  <1> QED BY <1>1, <1>2, PTL DEF TreeSpec

(* A file is never loaded inside itself, however deep the imports go, and  *)
(* a program refused for a circular import has files that import one       *)
(* another in a circle: for every project, modules.rs:62 and 182.          *)
THEOREM CircularImportsAreCycles == TreeSpec /\ ImportsAreLists => []CircularIsACycle
  <1>1. TreeInv => CircularIsACycle
    BY DEF TreeInv, StackInv, CircularIsACycle
  <1> QED BY <1>1, TheStackIsInOrder, PTL

(* A program that is run has its modules: just those it reaches, whole, in *)
(* no cycle, and every alias and every exported name of each leads to one. *)
THEOREM EveryModuleIsThere == TreeSpec /\ ImportsAreLists => []LoadedIsClosed
  <1>1. TreeInv => LoadedIsClosed
    <2> SUFFICES ASSUME TreeInv, tree.said = "loaded" PROVE LoadedIsClosed
      BY DEF LoadedIsClosed
    <2> DEFINE there == DOMAIN Top.loaded
    <2>1. Len(tree.stack) = 1 /\ Top.next > Len(FileAt(Top.path).imports)
      BY DEF TreeInv
    <2>2. /\ Top = tree.stack[Len(tree.stack)] /\ Good(Top) /\ IsInterpreter(Top)
          /\ Top.next \in Nat \ {0} /\ Len(FileAt(Top.path).imports) \in Nat
          /\ Top.next <= Len(FileAt(Top.path).imports) + 1
      BY AtTheTop DEF TreeInv
    <2>3. Top.path = project.entry
      BY <2>1, <2>2 DEF TreeInv, StackInv
    <2>4. ImportsDone(Top) = ImportsOf(project.entry)
      <3>1. Top.next - 1 = Len(FileAt(Top.path).imports)
        BY <2>1, <2>2
      <3> QED BY <2>3, <3>1 DEF ImportsDone, ImportsOf
    <2>5. JustReached(ImportsOf(project.entry), there) /\ InNoCycle(there)
      BY <2>2, <2>4 DEF Good
    <2>6. project.entry \notin there
      BY <2>5, NotAmongItsOwn
    <2>7. /\ ImportsOf(project.entry) \subseteq there /\ ClosedUnderImports(there)
          /\ \A ps \in SUBSET there :
                ImportsOf(project.entry) \subseteq ps /\ ClosedUnderImports(ps) => ps = there
      BY <2>5 DEF JustReached
    <2>8. \A p \in there : Whole(p)
      BY <2>2 DEF Good
    <2>9. /\ Range(Top.aliases) \subseteq there
          /\ \A p \in there :
                /\ Range(Top.loaded[p].aliases) \subseteq there
                /\ \A o \in DOMAIN Top.loaded[p].table : Top.loaded[p].table[o].file \in there
      <3>1. AllThere(Top)
        BY <2>2 DEF Good
      <3>2. \A a \in DOMAIN Top.aliases : Top.aliases[a] \in there
        BY <3>1 DEF AllThere
      <3>3. \A p \in there :
               /\ \A a \in DOMAIN Top.loaded[p].aliases : Top.loaded[p].aliases[a] \in there
               /\ \A o \in DOMAIN Top.loaded[p].table : Top.loaded[p].table[o].file \in there
        BY <3>1 DEF AllThere
      <3> HIDE DEF there
      <3>4. Range(Top.aliases) \subseteq there
        BY <3>2 DEF Range
      <3>5. \A p \in there : Range(Top.loaded[p].aliases) \subseteq there
        BY <3>3 DEF Range
      <3> QED BY <3>3, <3>4, <3>5
    <2> QED BY <2>5, <2>6, <2>7, <2>8, <2>9 DEF LoadedIsClosed
  <1> QED BY <1>1, TheStackIsInOrder, PTL

=============================================================================
