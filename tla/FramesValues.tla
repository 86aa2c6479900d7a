---------------------------- MODULE FramesValues ----------------------------
(***************************************************************************)
(* Where a variable's value is.  A variable lent to an output parameter is *)
(* nowhere in view, and its placeholder waits in the one scope the value   *)
(* comes back to (LentOnce); what a module's variables hold changes one at *)
(* a time, and only while the module's own code runs, although its table   *)
(* moves at every call (ImplementsModuleStore).                            *)
(*                                                                         *)
(* Both follow the values through the steps of a handler, so the steps are *)
(* taken apart once: each of them writes one variable of one scope, or     *)
(* opens, closes or hands over scopes as they are.  What a call lends is   *)
(* decided before its arguments run and taken after them, so both rest on  *)
(* a promise that is kept in between: the variable stays in the caller's   *)
(* own scopes, whatever the arguments call, assign, end or fail at         *)
(* (Promises).  The code keeps it unless an argument ends that variable.   *)
(***************************************************************************)
EXTENDS FramesMarks

(* What running code computes; Absent is what `\` leaves.                  *)
Plain == Values \cup {Unit, Absent}

(* No placeholder of a lent variable in a scope, a stack, the tables and   *)
(* the running frame.                                                      *)
CleanScope(scope) == \A n \in Names : scope[n] # Lent

Clean(scopes) == \A i \in DOMAIN scopes : CleanScope(scopes[i])

CleanStore(stored) == \A m \in Modules : CleanScope(stored[m].vars)

NoneLent(s) == Clean(s.frame.scopes) /\ CleanStore(s.store)

(* The variables of a module, wherever its table is.                       *)
TableIn(s, m) ==
  IF s.frame.moduleScope /\ s.frame.path = m THEN s.frame.scopes[1]
  ELSE s.store[m].vars

SameTables(s, t) == \A m \in Modules : TableIn(t, m) = TableIn(s, m)

(* The running module, and nobody else, has another value for one variable.*)
OneCell(s, t) ==
  /\ t.frame.moduleScope /\ t.frame.path \in Modules
  /\ \E n \in Declared[t.frame.path], v \in Plain :
       \A m \in Modules :
         TableIn(t, m) = IF m = t.frame.path THEN Bind(TableIn(s, m), n, v)
                         ELSE TableIn(s, m)

(* Code that finds no placeholder leaves none, and changes at most one     *)
(* variable of the module it belongs to.                                   *)
Wrote(s, t) ==
  /\ NoneLent(s) => NoneLent(t)
  /\ SameTables(s, t) \/ OneCell(s, t)

-----------------------------------------------------------------------------
(* Writing one variable of one scope.                                      *)

LEMMA PlainValues ==
  /\ Values \subseteq Plain /\ Unit \in Plain /\ Absent \in Plain
  /\ Initial \in Plain /\ Lent \notin Plain
  /\ Plain \subseteq AnyValue \cup {Absent}
BY ConstantsAssumption DEF Plain, AnyValue

LEMMA CleanScopes ==
  /\ CleanScope(EmptyScope)
  /\ \A scope \in Scope, name \in Names, value \in Plain :
       /\ Bind(scope, name, value) \in Scope
       /\ CleanScope(scope) => CleanScope(Bind(scope, name, value))
<1>1. CleanScope(EmptyScope)
  BY PlainValues DEF CleanScope, EmptyScope
<1>2. ASSUME NEW scope \in Scope, NEW name \in Names, NEW value \in Plain
      PROVE  /\ Bind(scope, name, value) \in Scope
             /\ CleanScope(scope) => CleanScope(Bind(scope, name, value))
  <2>1. scope \in [Names -> AnyValue \cup {Absent}]
    BY DEF Scope
  <2>2. value \in AnyValue \cup {Absent} /\ value # Lent
    BY PlainValues
  <2>3. Bind(scope, name, value) \in Scope
    BY <2>1, <2>2 DEF Bind, Scope
  <2>4. \A n \in Names :
          Bind(scope, name, value)[n] = IF n = name THEN value ELSE scope[n]
    BY <2>1 DEF Bind
  <2> QED
    BY <2>2, <2>3, <2>4 DEF CleanScope
<1> QED
  BY <1>1, <1>2

(* A scope of a stack gets one other value.                                *)
LEMMA PutScopes ==
  ASSUME NEW scopes \in Seq(Scope), NEW at, NEW name \in Names,
         NEW value \in Plain, NEW t,
         t = [scopes EXCEPT ![at] = Bind(scopes[at], name, value)]
  PROVE  /\ DOMAIN t = DOMAIN scopes
         /\ \A i \in DOMAIN scopes :
              t[i] = IF i = at THEN Bind(scopes[i], name, value)
                     ELSE scopes[i]
         /\ Clean(scopes) => Clean(t)
<1>1. \A i \in DOMAIN scopes : scopes[i] \in Scope
  BY ElementOfSeq, LenProperties
<1>2. DOMAIN t = DOMAIN scopes
  OBVIOUS
<1>3. ASSUME NEW i \in DOMAIN scopes
      PROVE  t[i] = IF i = at THEN Bind(scopes[i], name, value) ELSE scopes[i]
  BY <1>3
<1>4. ASSUME Clean(scopes), NEW i \in DOMAIN t PROVE CleanScope(t[i])
  <2>1. i \in DOMAIN scopes /\ scopes[i] \in Scope /\ CleanScope(scopes[i])
    BY <1>1, <1>2, <1>4 DEF Clean
  <2> QED
    BY <1>3, <2>1, CleanScopes
<1> QED
  BY <1>2, <1>3, <1>4 DEF Clean

LEMMA SoundFrame ==
  ASSUME NEW s, Sound(s)
  PROVE  /\ s \in State /\ GoodFrame(s.frame) /\ s.frame \in Frame
         /\ s.frame.scopes \in Seq(Scope) /\ Len(s.frame.scopes) \in Nat
         /\ Len(s.frame.scopes) >= 1 /\ 1 \in DOMAIN s.frame.scopes
         /\ DOMAIN s.frame.scopes = 1 .. Len(s.frame.scopes)
         /\ s.frame.moduleScope \in BOOLEAN
         /\ s.frame.moduleScope => s.frame.path \in Modules
<1>1. s \in State /\ FrameShape(s.frame) /\ s.frame \in Frame
  BY DEF Sound, State
<1>2. /\ s.frame.scopes \in Seq(Scope) /\ s.frame.nest \in Seq(Construct)
      /\ s.frame.moduleScope \in BOOLEAN
  BY <1>1 DEF Frame
<1>3. /\ Len(s.frame.scopes) \in Nat /\ Len(s.frame.nest) \in Nat
      /\ DOMAIN s.frame.scopes = 1 .. Len(s.frame.scopes)
  BY <1>2, LenProperties
<1>4. Base(s.frame) \in Nat /\ Base(s.frame) >= 1
  BY DEF Base
<1>5. Len(s.frame.scopes) >= Base(s.frame) + Len(s.frame.nest)
  BY <1>1 DEF FrameShape
<1>6. Len(s.frame.scopes) >= 1
  BY <1>3, <1>4, <1>5
<1> QED
  BY <1>1, <1>2, <1>3, <1>6 DEF GoodFrame, FrameShape

LEMMA SameWrote ==
  ASSUME NEW s, NEW t, t.store = s.store,
         t.frame.moduleScope = s.frame.moduleScope,
         t.frame.path = s.frame.path,
         t.frame.moduleScope => t.frame.scopes[1] = s.frame.scopes[1],
         Clean(s.frame.scopes) => Clean(t.frame.scopes)
  PROVE  Wrote(s, t) /\ SameTables(s, t)
<1>1. SameTables(s, t)
  BY DEF SameTables, TableIn
<1> QED
  BY <1>1 DEF Wrote, NoneLent

LEMMA PutWrote ==
  ASSUME NEW s, Sound(s), NEW t, t.store = s.store,
         t.frame.moduleScope = s.frame.moduleScope,
         t.frame.path = s.frame.path,
         NEW at, NEW name \in Names, NEW value \in Plain,
         t.frame.scopes = [s.frame.scopes EXCEPT
                             ![at] = Bind(s.frame.scopes[at], name, value)],
         s.frame.moduleScope /\ at = 1 => name \in Declared[s.frame.path]
  PROVE  Wrote(s, t)
<1> DEFINE f == s.frame
           g == t.frame
<1>1. /\ f.scopes \in Seq(Scope) /\ 1 \in DOMAIN f.scopes
      /\ f.moduleScope => f.path \in Modules
  BY SoundFrame
<1>2. /\ DOMAIN g.scopes = DOMAIN f.scopes
      /\ \A i \in DOMAIN f.scopes :
           g.scopes[i] = IF i = at THEN Bind(f.scopes[i], name, value)
                         ELSE f.scopes[i]
      /\ Clean(f.scopes) => Clean(g.scopes)
  <2> HIDE DEF f, g
  <2>1. g.scopes = [f.scopes EXCEPT ![at] = Bind(f.scopes[at], name, value)]
    BY DEF f, g
  <2> QED
    BY <1>1, <2>1, PutScopes
<1>3. CASE f.moduleScope /\ at = 1
  <2>1. g.scopes[1] = Bind(f.scopes[1], name, value)
    BY <1>1, <1>2, <1>3
  <2>2. \A m \in Modules :
          TableIn(t, m) = IF m = g.path THEN Bind(TableIn(s, m), name, value)
                          ELSE TableIn(s, m)
    BY <1>3, <2>1 DEF TableIn
  <2>3. name \in Declared[g.path] /\ g.path \in Modules /\ g.moduleScope
    BY <1>1, <1>3
  <2>4. OneCell(s, t)
    BY <2>2, <2>3 DEF OneCell
  <2> QED
    BY <1>2, <2>4 DEF Wrote, NoneLent
<1>4. CASE ~ (f.moduleScope /\ at = 1)
  <2>1. g.moduleScope => g.scopes[1] = f.scopes[1]
    BY <1>1, <1>2, <1>4
  <2> QED
    BY <1>2, <2>1, SameWrote
<1> QED
  BY <1>3, <1>4

(* A step that hands the tables over as they are, and one that writes.     *)
LEMMA WroteAfterSame ==
  ASSUME NEW s, NEW t, NEW u, SameTables(s, t), NoneLent(s) => NoneLent(t),
         Wrote(t, u)
  PROVE  Wrote(s, u)
<1>1. \A m \in Modules : TableIn(t, m) = TableIn(s, m)
  BY DEF SameTables
<1>2. SameTables(t, u) => SameTables(s, u)
  BY <1>1 DEF SameTables
<1>3. OneCell(t, u) => OneCell(s, u)
  BY <1>1 DEF OneCell
<1> QED
  BY <1>2, <1>3 DEF Wrote

(* set_variable writes one variable of one scope; of the module's table    *)
(* only one the module declares.                                           *)
LEMMA DeclaredName ==
  ASSUME NEW s, Sound(s), s.frame.moduleScope, NEW name \in Names,
         s.frame.scopes[1][name] # Absent \/ name \in s.moduleDead
  PROVE  name \in Declared[s.frame.path]
<1> DEFINE m == s.frame.path
           table == [vars |-> s.frame.scopes[1], dead |-> s.moduleDead]
<1>1. m \in Modules
  BY SoundFrame
<1>2. Whole(m, table)
  BY <1>1 DEF Sound
<1>3. Held(s.frame.scopes[1]) \cup s.moduleDead = Declared[m]
  BY <1>2 DEF Whole
<1> QED
  BY <1>3 DEF Held

LEMMA SetVariableWrote ==
  ASSUME NEW s, Sound(s), NEW name \in Names, NEW value \in Plain
  PROVE  Wrote(s, SetVariable(s, name, value))
<1> DEFINE f == s.frame
           at == Place(f, s.moduleDead, name)
           t == SetVariable(s, name, value)
<1>1. /\ s \in State /\ f \in Frame /\ GoodFrame(f)
      /\ s.moduleDead \in SUBSET Names
      /\ ~ f.moduleScope => s.moduleDead = {}
  BY SoundFrame DEF Sound, State
<1>2. /\ t.store = s.store
      /\ t.frame.moduleScope = f.moduleScope /\ t.frame.path = f.path
      /\ t.frame.scopes = [f.scopes EXCEPT
                              ![at] = Bind(f.scopes[at], name, value)]
  BY <1>1 DEF SetVariable, State, Frame
<1>3. ASSUME f.moduleScope, at = 1 PROVE name \in Declared[f.path]
  <2>1. Base(f) = 2
    BY <1>3 DEF Base
  <2>2. \/ at >= 2
        \/ f.scopes[1][name] # Absent
        \/ RevivesModule(f, s.moduleDead, name)
    BY <1>1, <2>1, PlaceInside
  <2>3. f.scopes[1][name] # Absent \/ name \in s.moduleDead
    BY <1>3, <2>2 DEF RevivesModule
  <2> QED
    BY <1>3, <2>3, DeclaredName
<1>4. s.frame.moduleScope /\ at = 1 => name \in Declared[s.frame.path]
  BY <1>3
<1> HIDE DEF at, t
<1>5. Wrote(s, t)
  BY <1>2, <1>4, PutWrote
<1> QED
  BY <1>5 DEF t

(* destroy_variable takes one variable out of one scope.                   *)
LEMMA DestroyWrote ==
  ASSUME NEW s, Sound(s), NEW name \in Names, InView(s.frame.scopes, name)
  PROVE  Wrote(s, Destroy(s, name))
<1> DEFINE f == s.frame
           at == Innermost(f.scopes, name)
           t == Destroy(s, name)
<1>1. /\ s \in State /\ f \in Frame /\ f.scopes \in Seq(Scope)
  BY SoundFrame
<1>2. /\ t.store = s.store
      /\ t.frame.moduleScope = f.moduleScope /\ t.frame.path = f.path
      /\ t.frame.scopes = [f.scopes EXCEPT
                              ![at] = Bind(f.scopes[at], name, Absent)]
  <2>1. t.frame.scopes = [f.scopes EXCEPT ![at] = Unbind(f.scopes[at], name)]
        /\ t.store = s.store
        /\ t.frame.moduleScope = f.moduleScope /\ t.frame.path = f.path
    <3>1. CASE OwnHolders(f, name) # {}
      BY <1>1, <3>1 DEF Destroy, State, Frame
    <3>2. CASE OwnHolders(f, name) = {}
      BY <1>1, <3>2 DEF Destroy, State, Frame
    <3> QED
      BY <3>1, <3>2
  <2> QED
    BY <2>1 DEF Bind, Unbind
<1>3. ASSUME f.moduleScope, at = 1 PROVE name \in Declared[f.path]
  <2>1. f.scopes[at][name] # Absent
    BY <1>1, InnermostHolds
  <2> QED
    BY <1>3, <2>1, DeclaredName
<1>4. s.frame.moduleScope /\ at = 1 => name \in Declared[s.frame.path]
  BY <1>3
<1> HIDE DEF at, t
<1>5. Wrote(s, t)
  BY <1>2, <1>4, PutWrote, PlainValues
<1> QED
  BY <1>5 DEF t

-----------------------------------------------------------------------------
(* What a frame does to the scopes that are its own.                       *)
Own(f, g) ==
  /\ g.moduleScope = f.moduleScope /\ g.path = f.path
  /\ g.moduleScope => g.scopes[1] = f.scopes[1]
  /\ Clean(f.scopes) => Clean(g.scopes)

LEMMA OwnSame == \A f : Own(f, f)
BY DEF Own

LEMMA OwnTwice ==
  \A f, g, h : Own(f, g) /\ Own(g, h) => Own(f, h)
BY DEF Own

LEMMA OwnSetAt ==
  ASSUME NEW f, GoodFrame(f), NEW at \in Nat, at >= Base(f),
         NEW name \in Names, NEW value \in Plain
  PROVE  Own(f, SetAt(f, at, name, value))
<1> DEFINE g == SetAt(f, at, name, value)
<1>1. f \in Frame /\ f.scopes \in Seq(Scope)
  BY DEF GoodFrame, Frame
<1>2. /\ g.moduleScope = f.moduleScope /\ g.path = f.path
      /\ g.scopes = [f.scopes EXCEPT ![at] = Bind(f.scopes[at], name, value)]
  BY <1>1 DEF SetAt, Frame
<1> HIDE DEF g
<1>3. Clean(f.scopes) => Clean(g.scopes)
  BY <1>1, <1>2, PutScopes
<1>4. g.moduleScope => g.scopes[1] = f.scopes[1]
  <2>1. g.moduleScope => at # 1
    BY <1>2 DEF Base
  <2> QED
    BY <1>2, <2>1
<1> QED
  BY <1>2, <1>3, <1>4 DEF Own, g

LEMMA OwnNew ==
  ASSUME NEW f, GoodFrame(f), Len(f.scopes) >= 2,
         NEW name \in Names, NEW value \in Plain
  PROVE  Own(f, SetVariableNew(f, name, value))
<1> DEFINE g == SetVariableNew(f, name, value)
           at == Len(f.scopes)
<1>1. f \in Frame /\ f.scopes \in Seq(Scope) /\ at \in Nat
  BY LenProperties DEF GoodFrame, Frame
<1>2. /\ g.moduleScope = f.moduleScope /\ g.path = f.path
      /\ g.scopes = [f.scopes EXCEPT ![at] = Bind(f.scopes[at], name, value)]
  BY <1>1 DEF SetVariableNew, Frame
<1>3. at >= 2
  OBVIOUS
<1> HIDE DEF g, at
<1>4. Clean(f.scopes) => Clean(g.scopes)
  BY <1>1, <1>2, PutScopes
<1>5. g.scopes[1] = f.scopes[1]
  <2>1. at # 1
    BY <1>1, <1>3
  <2> QED
    BY <1>2, <2>1
<1> QED
  BY <1>2, <1>4, <1>5 DEF Own, g

(* Opening a construct puts an empty scope on top.                         *)
LEMMA OwnOpened ==
  ASSUME NEW f, GoodFrame(f), NEW kind \in Kinds, NEW aliases \in Files
  PROVE  LET g == OpenedFrame(f, kind, EmptyScope, aliases)
         IN  Own(f, g) /\ Len(g.scopes) = Len(f.scopes) + 1
<1> DEFINE g == OpenedFrame(f, kind, EmptyScope, aliases)
           t == Append(f.scopes, EmptyScope)
<1>1. f \in Frame /\ f.scopes \in Seq(Scope) /\ EmptyScope \in Scope
  BY ScopeTypes DEF GoodFrame, Frame
<1>2. /\ g.moduleScope = f.moduleScope /\ g.path = f.path
      /\ g.moduleScope => g.scopes[1] = f.scopes[1]
  BY <1>1, OpenedGood
<1>3. g.scopes = t
  BY <1>1 DEF OpenedFrame, Frame
<1> HIDE DEF g
<1>4. /\ t \in Seq(Scope) /\ Len(t) = Len(f.scopes) + 1
      /\ \A i \in 1 .. Len(f.scopes) : t[i] = f.scopes[i]
      /\ t[Len(f.scopes) + 1] = EmptyScope
      /\ Len(f.scopes) \in Nat /\ DOMAIN f.scopes = 1 .. Len(f.scopes)
  BY <1>1, AppendProperties, LenProperties
<1>5. DOMAIN t = 1 .. Len(f.scopes) + 1
  BY <1>4, LenProperties
<1> HIDE DEF t
<1>6. ASSUME Clean(f.scopes), NEW i \in DOMAIN t PROVE CleanScope(t[i])
  <2>1. CASE i \in 1 .. Len(f.scopes)
    BY <1>4, <1>6, <2>1 DEF Clean
  <2>2. CASE i = Len(f.scopes) + 1
    BY <1>4, <2>2, CleanScopes
  <2> QED
    BY <1>4, <1>5, <2>1, <2>2
<1> QED
  BY <1>2, <1>3, <1>4, <1>6 DEF Own, Clean, g

(* Closing constructs takes scopes off the top.                            *)
LEMMA CleanPrefix ==
  ASSUME NEW scopes \in Seq(Scope), NEW t \in Seq(Scope),
         Len(t) <= Len(scopes),
         \A i \in 1 .. Len(t) : t[i] = scopes[i], Clean(scopes)
  PROVE  Clean(t)
<1>1. /\ DOMAIN t = 1 .. Len(t) /\ DOMAIN scopes = 1 .. Len(scopes)
      /\ Len(t) \in Nat /\ Len(scopes) \in Nat
  BY LenProperties
<1> QED
  BY <1>1 DEF Clean

LEMMA OwnClosed ==
  ASSUME NEW f, GoodFrame(f), f.nest # <<>>,
         NEW d \in Nat, d >= Base(f) + Len(f.nest) - 1,
         NEW aliases \in Files
  PROVE  Own(f, ClosedFrame(f, d, aliases))
<1> DEFINE h == PopTo(f, d)
           g == ClosedFrame(f, d, aliases)
<1>1. /\ f \in Frame /\ f.scopes \in Seq(Scope) /\ f.nest \in Seq(Construct)
      /\ \A n \in Names : f.dead[n] = 0 \/ f.dead[n] >= Base(f)
  BY DEF GoodFrame, FrameShape, Frame
<1>2. d >= 1
  <2>1. Len(f.nest) \in Nat /\ Len(f.nest) >= 1
    BY <1>1, LenProperties, EmptySeq
  <2>2. Base(f) \in Nat /\ Base(f) >= 1
    BY DEF Base
  <2> QED
    BY <2>1, <2>2
<1>3. /\ h \in Frame /\ Len(h.scopes) <= Len(f.scopes)
      /\ \A i \in 1 .. Len(h.scopes) : h.scopes[i] = f.scopes[i]
  BY <1>1, <1>2, PopToFrame
<1>4. /\ g.moduleScope = f.moduleScope /\ g.path = f.path
      /\ g.moduleScope => g.scopes[1] = f.scopes[1]
  BY ClosedGood
<1>5. g.scopes = h.scopes
  <2> HIDE DEF h
  <2>1. ClosedFrame(f, d, aliases).scopes = h.scopes
    BY <1>3 DEF ClosedFrame, Frame, h
  <2> QED
    BY <2>1
<1> HIDE DEF g, h
<1>6. Clean(f.scopes) => Clean(g.scopes)
  <2>1. h.scopes \in Seq(Scope)
    BY <1>3 DEF Frame
  <2> QED
    BY <1>1, <1>3, <1>5, <2>1, CleanPrefix
<1> QED
  BY <1>4, <1>6 DEF Own, g

(* Returning closes all of a frame's constructs.                           *)
LEMMA OwnEnded ==
  ASSUME NEW f, GoodFrame(f)
  PROVE  Own(f, EndedFrame(f))
<1> DEFINE h == PopTo(f, Base(f))
           g == EndedFrame(f)
<1>1. /\ f \in Frame /\ f.scopes \in Seq(Scope)
      /\ \A n \in Names : f.dead[n] = 0 \/ f.dead[n] >= Base(f)
      /\ Base(f) \in Nat /\ Base(f) >= 1
  BY DEF GoodFrame, FrameShape, Frame, Base
<1>2. /\ h \in Frame /\ Len(h.scopes) <= Len(f.scopes)
      /\ \A i \in 1 .. Len(h.scopes) : h.scopes[i] = f.scopes[i]
  BY <1>1, PopToFrame
<1>3. /\ g.moduleScope = f.moduleScope /\ g.path = f.path
      /\ g.moduleScope => g.scopes[1] = f.scopes[1]
  BY EndedGood
<1>4. g.scopes = h.scopes
  <2> HIDE DEF h
  <2>1. EndedFrame(f).scopes = h.scopes
    BY <1>2 DEF EndedFrame, Frame, h
  <2> QED
    BY <2>1
<1> HIDE DEF g, h
<1>5. Clean(f.scopes) => Clean(g.scopes)
  <2>1. h.scopes \in Seq(Scope)
    BY <1>2 DEF Frame
  <2> QED
    BY <1>1, <1>2, <1>4, <2>1, CleanPrefix
<1> QED
  BY <1>3, <1>5 DEF Own, g

-----------------------------------------------------------------------------
(* What a call that waits for its arguments was promised.                  *)

(* One of the frame's own scopes, no deeper than where the call is         *)
(* written, holds the name.                                                *)
Holding(f, name, at) ==
  \E i \in Base(f) .. Base(f) + at : i \in Holders(f.scopes, name)

(* The frame's own scopes hold what they held, and no construct ended.     *)
Grown(f, g) ==
  /\ g.moduleScope = f.moduleScope
  /\ Len(g.nest) >= Len(f.nest)
  /\ \A name \in Names, i \in Nat :
       i >= Base(f) /\ i \in Holders(f.scopes, name)
         => i \in Holders(g.scopes, name)

FrameAt(level) ==
  IF level = Len(stack) THEN frame ELSE stack[level + 1].saved

PromisedTo(call, f) ==
  /\ call.at <= Len(f.nest)
  /\ call.lent => \A name \in OutArgument(call.sig) : Holding(f, name, call.at)

Promise(call) ==
  call.level <= Len(stack) /\ PromisedTo(call, FrameAt(call.level))

Ordered ==
  \A j, k \in DOMAIN pending :
    j < k => /\ pending[j].level <= pending[k].level
             /\ pending[j].level = pending[k].level
                  => pending[j].at <= pending[k].at

Promises == Ordered /\ \A k \in DOMAIN pending : Promise(pending[k])

LEMMA GrownSame ==
  ASSUME NEW f \in Frame
  PROVE  Grown(f, f)
<1>1. Len(f.nest) \in Nat
  BY LenProperties DEF Frame
<1> QED
  BY <1>1 DEF Grown

LEMMA GrownTwice ==
  ASSUME NEW f \in Frame, NEW g \in Frame, NEW h \in Frame,
         Grown(f, g), Grown(g, h)
  PROVE  Grown(f, h)
<1>1. /\ Len(f.nest) \in Nat /\ Len(g.nest) \in Nat /\ Len(h.nest) \in Nat
      /\ Base(g) = Base(f)
  BY LenProperties DEF Frame, Grown, Base
<1> QED
  BY <1>1 DEF Grown

LEMMA GrownKeeps ==
  ASSUME NEW f \in Frame, NEW g \in Frame, Grown(f, g),
         NEW call \in GoodCalls, PromisedTo(call, f)
  PROVE  PromisedTo(call, g)
<1>1. /\ Len(f.nest) \in Nat /\ Len(g.nest) \in Nat /\ call.at \in Nat
      /\ Base(g) = Base(f) /\ Base(f) \in Nat
  BY LenProperties DEF Frame, Grown, Base, GoodCalls, PendingCall
<1>2. call.at <= Len(g.nest)
  BY <1>1 DEF Grown, PromisedTo
<1>3. OutArgument(call.sig) \subseteq Names
  BY ConstantsAssumption DEF GoodCalls, PendingCall, OutArgument
<1>4. ASSUME call.lent, NEW name \in OutArgument(call.sig)
      PROVE  Holding(g, name, call.at)
  <2>1. PICK i \in Base(f) .. Base(f) + call.at : i \in Holders(f.scopes, name)
    BY <1>4 DEF PromisedTo, Holding
  <2>2. i \in Nat /\ i >= Base(f) /\ name \in Names
    BY <1>1, <1>3
  <2>3. i \in Holders(g.scopes, name)
    BY <2>1, <2>2 DEF Grown
  <2> QED
    BY <1>1, <2>1, <2>3 DEF Holding
<1> QED
  BY <1>2, <1>4 DEF PromisedTo

(* A value written into a scope.                                           *)
LEMMA GrownPut ==
  ASSUME NEW f \in Frame, NEW g, g.moduleScope = f.moduleScope,
         g.nest = f.nest, NEW at, NEW name \in Names, NEW value,
         value # Absent, NEW scope, scope = Bind(f.scopes[at], name, value),
         g.scopes = [f.scopes EXCEPT ![at] = scope]
  PROVE  Grown(f, g)
<1>1. Len(f.nest) \in Nat /\ f.scopes \in Seq(Scope)
  BY LenProperties DEF Frame
<1>2. \A i \in DOMAIN f.scopes : f.scopes[i] \in Scope
  BY <1>1, LenProperties, ElementOfSeq
<1>3. ASSUME NEW x \in Names, NEW i \in Holders(f.scopes, x)
      PROVE  i \in Holders(g.scopes, x)
  <2>1. /\ i \in DOMAIN f.scopes /\ i \in DOMAIN g.scopes
        /\ f.scopes[i][x] # Absent
    BY DEF Holders
  <2>2. Bind(f.scopes[i], name, value)[x]
          = IF x = name THEN value ELSE f.scopes[i][x]
    BY <1>2, <2>1 DEF Bind, Scope
  <2>3. g.scopes[i] = IF i = at THEN Bind(f.scopes[i], name, value)
                      ELSE f.scopes[i]
    BY <2>1
  <2> QED
    BY <2>1, <2>2, <2>3 DEF Holders
<1>4. Len(g.nest) >= Len(f.nest)
  BY <1>1
<1> QED
  BY <1>3, <1>4 DEF Grown

LEMMA GrownSet ==
  ASSUME NEW s \in State, NEW name \in Names, NEW value, value # Absent
  PROVE  Grown(s.frame, SetVariable(s, name, value).frame)
<1> DEFINE f == s.frame
           at == Place(f, s.moduleDead, name)
           scope == Bind(f.scopes[at], name, value)
           g == SetVariable(s, name, value).frame
<1>1. f \in Frame
  BY DEF State
<1>2. g = [f EXCEPT !.scopes[at] = scope, !.dead[name] = 0]
  BY <1>1 DEF SetVariable, State
<1>3. scope = Bind(f.scopes[at], name, value)
  OBVIOUS
<1> HIDE DEF f, at, g, scope
<1>4. /\ g.moduleScope = f.moduleScope /\ g.nest = f.nest
      /\ g.scopes = [f.scopes EXCEPT ![at] = scope]
  BY <1>1, <1>2 DEF Frame
<1>5. Grown(f, g)
  BY <1>1, <1>3, <1>4, GrownPut
<1> QED
  BY <1>5 DEF f, g

LEMMA GrownSetAt ==
  ASSUME NEW f \in Frame, NEW at, NEW name \in Names, NEW value,
         value # Absent
  PROVE  Grown(f, SetAt(f, at, name, value))
<1> DEFINE h == f
           g == SetAt(f, at, name, value)
           scope == Bind(f.scopes[at], name, value)
<1>1. g = [h EXCEPT !.scopes[at] = scope]
  BY DEF SetAt
<1>2. scope = Bind(h.scopes[at], name, value) /\ h \in Frame
  OBVIOUS
<1> HIDE DEF g, h, scope
<1>3. /\ g.moduleScope = h.moduleScope /\ g.nest = h.nest
      /\ g.scopes = [h.scopes EXCEPT ![at] = scope]
  BY <1>1, <1>2 DEF Frame
<1>4. Grown(h, g)
  BY <1>2, <1>3, GrownPut
<1> QED
  BY <1>4 DEF g, h

LEMMA GrownNew ==
  ASSUME NEW f \in Frame, NEW name \in Names, NEW value, value # Absent
  PROVE  Grown(f, SetVariableNew(f, name, value))
<1> DEFINE h == f
           g == SetVariableNew(f, name, value)
           at == Len(f.scopes)
           scope == Bind(f.scopes[at], name, value)
<1>1. g = [h EXCEPT !.scopes[at] = scope, !.dead[name] = 0]
  BY DEF SetVariableNew
<1>2. scope = Bind(h.scopes[at], name, value) /\ h \in Frame
  OBVIOUS
<1> HIDE DEF g, at, h, scope
<1>3. /\ g.moduleScope = h.moduleScope /\ g.nest = h.nest
      /\ g.scopes = [h.scopes EXCEPT ![at] = scope]
  BY <1>1, <1>2 DEF Frame
<1>4. Grown(h, g)
  BY <1>2, <1>3, GrownPut
<1> QED
  BY <1>4 DEF g, h

(* Only scope 1 of a module frame changes, which is not its own.           *)
LEMMA GrownTable ==
  ASSUME NEW f \in Frame, f.moduleScope, NEW g, NEW scope,
         g.moduleScope = f.moduleScope, g.nest = f.nest,
         g.scopes = [f.scopes EXCEPT ![1] = scope]
  PROVE  Grown(f, g)
<1>1. Len(f.nest) \in Nat /\ Base(f) = 2
  BY LenProperties DEF Frame, Base
<1>2. ASSUME NEW x \in Names, NEW i \in Nat, i >= 2, i \in Holders(f.scopes, x)
      PROVE  i \in Holders(g.scopes, x)
  <2>1. i \in DOMAIN g.scopes /\ g.scopes[i] = f.scopes[i]
    BY <1>1, <1>2 DEF Holders
  <2> QED
    BY <1>2, <2>1 DEF Holders
<1>3. Len(g.nest) >= Len(f.nest) /\ g.moduleScope = f.moduleScope
  BY <1>1
<1>4. ASSUME NEW x \in Names, NEW i \in Nat, i >= Base(f),
             i \in Holders(f.scopes, x)
      PROVE  i \in Holders(g.scopes, x)
  <2>1. i >= 2
    BY <1>1, <1>4
  <2> QED
    BY <1>2, <1>4, <2>1
<1>5. \A x \in Names, i \in Nat :
        i >= Base(f) /\ i \in Holders(f.scopes, x)
          => i \in Holders(g.scopes, x)
  BY <1>4
<1> QED
  BY <1>3, <1>5 DEF Grown

LEMMA GrownChecked ==
  ASSUME NEW s \in State
  PROVE  Grown(s.frame, CheckIn(s).frame) /\ Grown(s.frame, CheckOut(s).frame)
<1>1. s.frame \in Frame
  BY DEF State
<1>2. CASE ~ s.frame.moduleScope
  BY <1>1, <1>2, GrownSame DEF CheckIn, CheckOut
<1>3. CASE s.frame.moduleScope
  <2> DEFINE held == s.store[s.frame.path].vars
           f == s.frame
           in == CheckIn(s).frame
           out == CheckOut(s).frame
  <2>1. in = [f EXCEPT !.scopes[1] = EmptyScope]
    BY <1>3 DEF CheckIn, State
  <2>2. out = [f EXCEPT !.scopes[1] = held]
    BY <1>3 DEF CheckOut, State
  <2>3. f \in Frame /\ f.moduleScope
    BY <1>1, <1>3
  <2> HIDE DEF held, f, in, out
  <2>4. /\ in.moduleScope = f.moduleScope /\ in.nest = f.nest
        /\ in.scopes = [f.scopes EXCEPT ![1] = EmptyScope]
    BY <2>1, <2>3 DEF Frame
  <2>5. /\ out.moduleScope = f.moduleScope /\ out.nest = f.nest
        /\ out.scopes = [f.scopes EXCEPT ![1] = held]
    BY <2>2, <2>3 DEF Frame
  <2>6. Grown(f, in)
    BY <2>3, <2>4, GrownTable
  <2>7. Grown(f, out)
    BY <2>3, <2>5, GrownTable
  <2> QED
    BY <2>6, <2>7 DEF f, in, out
<1> QED
  BY <1>2, <1>3

LEMMA GrownOpened ==
  ASSUME NEW f \in Frame, NEW kind, NEW scope \in Scope, NEW aliases
  PROVE  Grown(f, OpenedFrame(f, kind, scope, aliases))
<1> DEFINE g == OpenedFrame(f, kind, scope, aliases)
           c == [kind |-> kind, depth |-> Len(f.scopes),
                 anchors |-> Len(f.loops), aliases |-> f.aliases]
<1>1. /\ g.moduleScope = f.moduleScope /\ g.scopes = Append(f.scopes, scope)
      /\ g.nest = Append(f.nest, c)
  BY DEF OpenedFrame, Frame
<1>2. f.scopes \in Seq(Scope) /\ f.nest \in Seq(Construct)
  BY DEF Frame
<1> HIDE DEF c
<1>3. Len(f.nest) \in Nat /\ Len(Append(f.nest, c)) = Len(f.nest) + 1
  <2>1. f.nest \in Seq(Construct \cup {c}) /\ c \in Construct \cup {c}
    <3>1. \A i \in 1 .. Len(f.nest) : f.nest[i] \in Construct \cup {c}
      BY <1>2, ElementOfSeq
    <3> QED
      BY <1>2, <3>1
  <2> QED
    BY <1>2, <2>1, AppendProperties, LenProperties
<1> HIDE DEF g
<1>4. /\ DOMAIN f.scopes = 1 .. Len(f.scopes) /\ Len(f.scopes) \in Nat
      /\ DOMAIN g.scopes = 1 .. Len(f.scopes) + 1
      /\ \A i \in 1 .. Len(f.scopes) : g.scopes[i] = f.scopes[i]
  BY <1>1, <1>2, AppendProperties, LenProperties
<1>5. \A x \in Names : Holders(f.scopes, x) \subseteq Holders(g.scopes, x)
  BY <1>4 DEF Holders
<1>6. Len(g.nest) >= Len(f.nest)
  BY <1>1, <1>3
<1>7. Grown(f, g)
  BY <1>1, <1>5, <1>6 DEF Grown
<1> QED
  BY <1>7 DEF g

(* The innermost construct is closed around a call written outside of it.  *)
LEMMA ClosedKeeps ==
  ASSUME NEW f, GoodFrame(f), f.nest # <<>>, NEW d \in Nat,
         d >= Base(f) + Len(f.nest) - 1, NEW aliases \in Files,
         NEW call \in GoodCalls, PromisedTo(call, f), call.at < Len(f.nest)
  PROVE  PromisedTo(call, ClosedFrame(f, d, aliases))
<1> DEFINE h == PopTo(f, d)
           g == ClosedFrame(f, d, aliases)
<1>1. /\ f \in Frame /\ f.nest \in Seq(Construct) /\ f.scopes \in Seq(Scope)
      /\ Base(f) \in Nat /\ Base(f) >= 1 /\ call.at \in Nat
  BY DEF GoodFrame, Frame, Base, GoodCalls, PendingCall
<1>2. /\ Len(f.nest) \in Nat /\ Len(f.scopes) \in Nat
      /\ DOMAIN f.scopes = 1 .. Len(f.scopes)
  BY <1>1, LenProperties
<1>3. d >= Base(f) + call.at
  BY <1>1, <1>2
<1>4. /\ g.moduleScope = f.moduleScope /\ g.scopes = h.scopes
      /\ g.nest = SubSeq(f.nest, 1, Len(f.nest) - 1)
      /\ h.scopes = IF Len(f.scopes) <= d THEN f.scopes
                    ELSE SubSeq(f.scopes, 1, d)
  BY <1>1 DEF ClosedFrame, PopTo, Frame
<1>5. Len(g.nest) = Len(f.nest) - 1
  BY <1>1, <1>4, FrontOf
<1> HIDE DEF g, h
<1>6. ASSUME NEW i \in 1 .. Len(f.scopes), i <= d
      PROVE  i \in DOMAIN g.scopes /\ g.scopes[i] = f.scopes[i]
  <2>1. CASE Len(f.scopes) <= d
    BY <1>2, <1>4, <2>1
  <2>2. CASE Len(f.scopes) > d
    <3>1. \A j \in 1 .. d : f.scopes[j] \in Scope
      BY <1>1, <1>2, <2>2, ElementOfSeq
    <3>2. g.scopes = SubSeq(f.scopes, 1, d)
      BY <1>2, <1>4, <2>2
    <3>3. d >= 1 /\ d \in Int
      BY <1>1, <1>3
    <3>4. /\ g.scopes \in Seq(Scope)
          /\ Len(g.scopes) = d
          /\ \A j \in 1 .. d : g.scopes[j] = f.scopes[j]
      BY <3>1, <3>2, <3>3, SubSeqProperties
    <3>5. DOMAIN g.scopes = 1 .. d
      BY <3>4, LenProperties
    <3>6. i \in 1 .. d
      BY <1>6
    <3> QED
      BY <3>4, <3>5, <3>6
  <2> QED
    BY <1>2, <2>1, <2>2
<1>7. ASSUME call.lent, NEW name \in OutArgument(call.sig)
      PROVE  Holding(g, name, call.at)
  <2>1. PICK i \in Base(f) .. Base(f) + call.at : i \in Holders(f.scopes, name)
    BY <1>7 DEF PromisedTo, Holding
  <2>2. i <= d /\ i \in 1 .. Len(f.scopes)
    BY <1>1, <1>2, <1>3, <2>1 DEF Holders
  <2>3. i \in Holders(g.scopes, name)
    BY <1>6, <2>1, <2>2 DEF Holders
  <2>4. Base(g) = Base(f)
    BY <1>4 DEF Base
  <2> QED
    BY <2>1, <2>3, <2>4 DEF Holding
<1>8. call.at <= Len(g.nest)
  BY <1>1, <1>2, <1>5
<1>9. PromisedTo(call, g)
  BY <1>7, <1>8 DEF PromisedTo
<1> QED
  BY <1>9 DEF g

(* A variable is ended that is not promised to the call.                   *)
LEMMA EndedKeeps ==
  ASSUME NEW s \in State, NEW name \in Names, InView(s.frame.scopes, name),
         NEW call \in GoodCalls, PromisedTo(call, s.frame),
         \/ ~ call.lent
         \/ name \notin OutArgument(call.sig)
         \/ ~ (Innermost(s.frame.scopes, name) <= Base(s.frame) + call.at)
  PROVE  PromisedTo(call, Destroy(s, name).frame)
<1> DEFINE f == s.frame
           at == Innermost(f.scopes, name)
           g == Destroy(s, name).frame
<1>1. /\ f \in Frame /\ f.scopes \in Seq(Scope) /\ Base(f) \in Nat
      /\ call.at \in Nat
  BY DEF State, Frame, Base, GoodCalls, PendingCall
<1>2. /\ g.moduleScope = f.moduleScope /\ g.nest = f.nest
      /\ g.scopes = [f.scopes EXCEPT ![at] = Unbind(f.scopes[at], name)]
  <2>1. CASE OwnHolders(f, name) # {}
    BY <1>1, <2>1 DEF Destroy, State, Frame
  <2>2. CASE OwnHolders(f, name) = {}
    BY <1>1, <2>2 DEF Destroy, State, Frame
  <2> QED
    BY <2>1, <2>2
<1>3. at \in 1 .. Len(f.scopes) /\ Len(f.scopes) \in Nat
      /\ DOMAIN f.scopes = 1 .. Len(f.scopes)
  BY <1>1, InnermostHolds, LenProperties
<1>4. \A i \in DOMAIN f.scopes : f.scopes[i] \in Scope
  BY <1>1, <1>3, ElementOfSeq
<1>5. \/ ~ call.lent \/ name \notin OutArgument(call.sig)
      \/ ~ (at <= Base(f) + call.at)
  OBVIOUS
<1>6. PromisedTo(call, f)
  OBVIOUS
<1> HIDE DEF g, f, at
<1>7. ASSUME call.lent, NEW x \in OutArgument(call.sig)
      PROVE  Holding(g, x, call.at)
  <2>1. PICK i \in Base(f) .. Base(f) + call.at : i \in Holders(f.scopes, x)
    BY <1>6, <1>7 DEF PromisedTo, Holding
  <2>2. x \in Names
    BY ConstantsAssumption DEF GoodCalls, PendingCall, OutArgument
  <2>3. i \in DOMAIN f.scopes /\ f.scopes[i][x] # Absent /\ i \in DOMAIN g.scopes
    BY <1>2, <2>1 DEF Holders
  <2>4. i # at \/ x # name
    <3>1. i \in Nat /\ at \in Nat /\ i <= Base(f) + call.at
      BY <1>1, <1>3, <2>1
    <3> QED
      BY <1>5, <1>7, <3>1
  <2>5. g.scopes[i][x] = f.scopes[i][x]
    <3>1. CASE i # at
      BY <1>2, <2>3, <3>1
    <3>2. CASE i = at /\ x # name
      BY <1>2, <1>4, <2>2, <2>3, <3>2 DEF Unbind, Scope
    <3> QED
      BY <2>4, <3>1, <3>2
  <2>6. i \in Holders(g.scopes, x) /\ Base(g) = Base(f)
    BY <1>2, <2>3, <2>5 DEF Holders, Base
  <2> QED
    BY <2>1, <2>6 DEF Holding
<1>8. PromisedTo(call, g)
  BY <1>2, <1>6, <1>7 DEF PromisedTo
<1> QED
  BY <1>8 DEF g

(***************************************************************************)
(* The steps, by what they do to the frames that promised something: what  *)
(* waits only becomes less, and a new call is promised what it can be.     *)
(***************************************************************************)
Remaining ==
  \A k \in DOMAIN pending' :
    /\ k \in DOMAIN pending
    /\ pending'[k] \in GoodCalls
    /\ pending'[k].level = pending[k].level
    /\ pending'[k].at = pending[k].at
    /\ pending'[k].sig = pending[k].sig
    /\ pending'[k].lent = pending[k].lent

Shrinks ==
  /\ stack' = stack
  /\ frame.nest # <<>> /\ ~ InArgument
  /\ \E d \in Nat, aliases \in Files :
       /\ d >= Base(frame) + Len(frame.nest) - 1
       /\ Grown(ClosedFrame(frame, d, aliases), frame')

Ends ==
  /\ stack' = stack
  /\ \E name \in Names :
       /\ InView(frame.scopes, name) /\ ~ Promised(name)
       /\ frame' = Destroy(Now, name).frame

Leaves ==
  \E act \in Activation :
    stack' = Append(stack, act) /\ Grown(frame, act.saved)

Resumes ==
  /\ stack # <<>> /\ NoneAwaited
  /\ stack' = SubSeq(stack, 1, Len(stack) - 1)
  /\ Grown(CallerOf.saved, frame')

Holds == stack' = stack /\ Grown(frame, frame')

LEMMA RemainingOrdered ==
  ASSUME Ordered, Remaining
  PROVE  Ordered'
BY DEF Ordered, Remaining

LEMMA RemainingSame ==
  ASSUME IInv, pending' = pending
  PROVE  Remaining
BY PendingTypes DEF Remaining

(* The same promise, made to a call that differs in nothing it is about.   *)
LEMMA SamePromise ==
  ASSUME NEW c, NEW e, NEW f, PromisedTo(c, f), e.at = c.at, e.sig = c.sig,
         e.lent = c.lent
  PROVE  PromisedTo(e, f)
BY DEF PromisedTo

LEMMA PromiseMoved ==
  ASSUME IInv, IInv', Promises,
         Holds \/ Shrinks \/ Ends \/ Leaves \/ Resumes,
         NEW k \in DOMAIN pending, NEW c \in GoodCalls, c = pending[k],
         NEW e \in GoodCalls, e.level = c.level, e.at = c.at, e.sig = c.sig,
         e.lent = c.lent
  PROVE  Promise(e)'
<1> DEFINE n == Len(stack)
           at == c.level
<1>1. /\ n \in Nat /\ stack \in Seq(Activation) /\ DOMAIN stack = 1 .. n
      /\ GoodFrame(frame) /\ frame \in Frame /\ frame' \in Frame
      /\ Len(frame.nest) \in Nat
  <2>1. frame' \in Frame
    BY DEF IInv, Sound, State, Now
  <2>2. GoodFrame(frame) /\ frame \in Frame
    BY NowFields DEF GoodFrame
  <2> QED
    BY <2>1, <2>2, LenProperties DEF IInv, Frame
<1>2. /\ at \in Nat /\ c.at \in Nat /\ at <= n
      /\ PromisedTo(c, FrameAt(at))
  BY DEF GoodCalls, PendingCall, Promises, Promise
<1>3. SUFFICES at <= Len(stack') /\ PromisedTo(c, FrameAt(at)')
  BY SamePromise DEF Promise
<1>4. ASSUME stack' = stack, at = n => PromisedTo(c, frame')
      PROVE  at <= Len(stack') /\ PromisedTo(c, FrameAt(at)')
  BY <1>2, <1>4 DEF FrameAt
<1>5. at = n => PromisedTo(c, frame)
  BY <1>2 DEF FrameAt
<1>6. CASE Holds
  <2>1. at = n => PromisedTo(c, frame')
    BY <1>1, <1>5, <1>6, GrownKeeps DEF Holds
  <2> QED
    BY <1>4, <1>6, <2>1 DEF Holds
<1>7. CASE Shrinks
  <2>1. PICK d \in Nat, aliases \in Files :
          /\ d >= Base(frame) + Len(frame.nest) - 1
          /\ Grown(ClosedFrame(frame, d, aliases), frame')
    BY <1>7 DEF Shrinks
  <2>2. ASSUME at = n PROVE PromisedTo(c, frame')
    <3>1. c.at < Len(frame.nest)
      <4> DEFINE last == Len(pending)
      <4>1. /\ last \in Nat /\ k \in 1 .. last /\ last \in DOMAIN pending
            /\ pending[last].level \in Nat /\ pending[last] \in GoodCalls
        BY <1>2, PendingTypes
      <4>2. pending[last].at \in Nat /\ pending[last].level <= n
        BY <4>1 DEF GoodCalls, PendingCall, Promises, Promise
      <4>3. \/ k = last
            \/ /\ c.level <= pending[last].level
               /\ c.level = pending[last].level => c.at <= pending[last].at
        BY <1>2, <4>1 DEF Promises, Ordered
      <4>4. pending[last].level = n /\ c.at <= pending[last].at
        BY <1>1, <1>2, <2>2, <4>1, <4>2, <4>3
      <4>5. pending[last].at # Len(frame.nest)
        BY <1>7, <4>1, <4>4 DEF Shrinks, InArgument, Awaited
      <4>6. pending[last].at <= Len(frame.nest)
        BY <4>1, <4>4 DEF Promises, Promise, PromisedTo, FrameAt
      <4> HIDE DEF last
      <4> QED
        BY <1>1, <1>2, <4>2, <4>4, <4>5, <4>6
    <3>2. PromisedTo(c, ClosedFrame(frame, d, aliases))
      BY <1>1, <1>5, <1>7, <2>1, <2>2, <3>1, ClosedKeeps DEF Shrinks
    <3>3. ClosedFrame(frame, d, aliases) \in Frame
      BY <1>7, <2>1, ClosedStep DEF Shrinks, GoodFrame
    <3> QED
      BY <1>1, <2>1, <3>2, <3>3, GrownKeeps
  <2> QED
    BY <1>4, <1>7, <2>2 DEF Shrinks
<1>8. CASE Ends
  <2>1. PICK name \in Names : /\ InView(frame.scopes, name) /\ ~ Promised(name)
                              /\ frame' = Destroy(Now, name).frame
    BY <1>8 DEF Ends
  <2>2. ASSUME at = n PROVE PromisedTo(c, frame')
    <3>1. \/ ~ c.lent \/ name \notin OutArgument(c.sig)
          \/ ~ (Innermost(frame.scopes, name) <= Base(frame) + c.at)
      BY <1>2, <2>1, <2>2 DEF Promised
    <3>2. Now \in State /\ Now.frame = frame
      BY NowFields
    <3> QED
      BY <1>5, <2>1, <2>2, <3>1, <3>2, EndedKeeps
  <2> QED
    BY <1>4, <1>8, <2>2 DEF Ends
<1>9. CASE Leaves
  <2>1. PICK act \in Activation :
          stack' = Append(stack, act) /\ Grown(frame, act.saved)
    BY <1>9 DEF Leaves
  <2>2. /\ Len(stack') = n + 1 /\ stack'[n + 1] = act
        /\ \A i \in 1 .. n : stack'[i] = stack[i]
    BY <1>1, <2>1, AppendProperties
  <2>3. act.saved \in Frame
    BY DEF Activation
  <2>4. at # n + 1 /\ at <= n + 1
    BY <1>1, <1>2
  <2>5. FrameAt(at)' = stack'[at + 1].saved
    BY <2>2, <2>4 DEF FrameAt
  <2>6. CASE at = n
    <3>1. PromisedTo(c, act.saved)
      BY <1>1, <1>5, <2>1, <2>3, <2>6, GrownKeeps
    <3> QED
      BY <2>2, <2>4, <2>5, <2>6, <3>1
  <2>7. CASE at # n
    <3>1. at + 1 \in 1 .. n
      BY <1>1, <1>2, <2>7
    <3> QED
      BY <1>2, <2>2, <2>4, <2>5, <2>7, <3>1 DEF FrameAt
  <2> QED
    BY <2>6, <2>7
<1>10. CASE Resumes
  <2>1. /\ Len(stack') = n - 1
        /\ \A i \in 1 .. n - 1 : stack'[i] = stack[i]
        /\ CallerOf \in Activation
    BY <1>10, StackPopped DEF Resumes
  <2>2. at < n
    BY <1>2, <1>10 DEF Resumes, NoneAwaited
  <2>3. FrameAt(at) = stack[at + 1].saved
    BY <1>1, <1>2, <2>2 DEF FrameAt
  <2>4. CASE at = n - 1
    <3>1. FrameAt(at)' = frame'
      BY <2>1, <2>4 DEF FrameAt
    <3>2. stack[at + 1].saved = CallerOf.saved
      BY <1>1, <2>4 DEF CallerOf
    <3>3. CallerOf.saved \in Frame
      BY <2>1 DEF Activation
    <3>4. PromisedTo(c, frame')
      BY <1>1, <1>2, <1>10, <2>3, <3>2, <3>3, GrownKeeps DEF Resumes
    <3> QED
      BY <1>1, <2>1, <2>4, <3>1, <3>4
  <2>5. CASE at # n - 1
    <3>1. at + 1 \in 1 .. n - 1 /\ at <= n - 1
      BY <1>1, <1>2, <2>2, <2>5
    <3>2. FrameAt(at)' = stack[at + 1].saved
      BY <2>1, <2>5, <3>1 DEF FrameAt
    <3> QED
      BY <1>2, <2>1, <2>3, <3>1, <3>2
  <2> QED
    BY <2>4, <2>5
<1> HIDE DEF at
<1> QED
  BY <1>6, <1>7, <1>8, <1>9, <1>10

LEMMA PromisesKept ==
  ASSUME IInv, IInv', Promises, Remaining,
         Holds \/ Shrinks \/ Ends \/ Leaves \/ Resumes
  PROVE  Promises'
<1>1. Ordered'
  BY RemainingOrdered DEF Promises
<1>2. ASSUME NEW k \in DOMAIN pending' PROVE Promise(pending[k])'
  <2>1. PICK e \in GoodCalls : e = pending'[k]
    BY <1>2 DEF Remaining
  <2>2. PICK c \in GoodCalls : c = pending[k]
    BY <1>2, PendingTypes DEF Remaining
  <2>3. /\ e.level = c.level /\ e.at = c.at /\ e.sig = c.sig
        /\ e.lent = c.lent /\ k \in DOMAIN pending
    BY <1>2, <2>1, <2>2 DEF Remaining
  <2>4. Promise(e)'
    BY <2>2, <2>3, PromiseMoved
  <2> QED
    BY <2>1, <2>4 DEF Promise
<1> QED
  BY <1>1, <1>2 DEF Promises

(* A call that begins is promised a variable that is in view and no        *)
(* module's: one of the scopes the running code has open holds it.         *)
LEMMA PromisesBegun ==
  ASSUME IInv, MarkInv, Promises, NEW callee \in Files, NEW alias \in BOOLEAN,
         NEW sig \in Signatures, BeginCall(callee, alias, sig)
  PROVE  Promises'
<1> DEFINE c == Begins(callee, alias, sig)
           n == Len(pending)
<1>1. /\ frame \in Frame /\ frame.scopes \in Seq(Scope)
      /\ Base(frame) \in Nat /\ Base(frame) >= 1
      /\ frame.moduleScope \in BOOLEAN
  BY NowFields DEF GoodFrame, Frame, Base
<1>2. /\ Len(frame.scopes) \in Nat /\ Len(frame.nest) \in Nat
      /\ Len(stack) \in Nat /\ DOMAIN frame.scopes = 1 .. Len(frame.scopes)
  BY <1>1, LenProperties DEF Frame, IInv
<1>3. Len(frame.scopes) = Base(frame) + Len(frame.nest)
  BY DEF BeginCall, MarkInv, NoStrayScope, ScopesMatch
<1>4. /\ c.level = Len(stack) /\ c.at = Len(frame.nest) /\ c.sig = sig
      /\ c.lent <=> \E name \in OutArgument(sig) : Lendable(frame, name)
  BY DEF Begins
<1>5. ASSUME c.lent, NEW name \in OutArgument(sig)
      PROVE  Holding(frame, name, c.at)
  <2>1. Lendable(frame, name) /\ name \in Names
    <3>1. PICK other \in OutArgument(sig) : Lendable(frame, other)
      BY <1>4, <1>5
    <3>2. other = name /\ name \in Names
      BY <3>1, ConstantsAssumption DEF OutArgument
    <3> QED
      BY <3>1, <3>2
  <2>2. \E i \in Holders(frame.scopes, name) : i >= Base(frame)
    <3>1. InView(frame.scopes, name) /\ ~ IsModuleState(frame, name)
      BY <2>1 DEF Lendable
    <3>2. Holders(frame.scopes, name) # {}
          /\ \A i \in Holders(frame.scopes, name) : i \in 1 .. Len(frame.scopes)
      BY <1>2, <3>1 DEF InView, Holders
    <3>3. CASE ~ frame.moduleScope
      BY <3>2, <3>3 DEF Base
    <3>4. CASE frame.moduleScope
      <4>1. ASSUME \A i \in Holders(frame.scopes, name) : i = 1 PROVE FALSE
        <5>1. 1 \in Holders(frame.scopes, name)
          BY <3>2, <4>1
        <5>2. frame.scopes[1][name] # Absent
          BY <5>1 DEF Holders
        <5> QED
          BY <3>1, <3>4, <4>1, <5>2 DEF IsModuleState
      <4>2. PICK i \in Holders(frame.scopes, name) : i # 1
        BY <4>1
      <4>3. i >= 2 /\ Base(frame) = 2
        BY <1>2, <3>2, <3>4, <4>2 DEF Base
      <4> QED
        BY <4>2, <4>3
    <3> QED
      BY <3>3, <3>4
  <2>3. PICK i \in Holders(frame.scopes, name) : i >= Base(frame)
    BY <2>2
  <2>4. i \in 1 .. Len(frame.scopes)
    BY <1>2 DEF Holders
  <2>5. i \in Base(frame) .. Base(frame) + c.at
    BY <1>1, <1>2, <1>3, <1>4, <2>3, <2>4
  <2> QED
    BY <2>5 DEF Holding
<1>6. PromisedTo(c, frame)
  BY <1>2, <1>4, <1>5 DEF PromisedTo
<1>7. /\ DOMAIN pending' = 1 .. n + 1 /\ n \in Nat /\ pending'[n + 1] = c
      /\ \A k \in 1 .. n : pending'[k] = pending[k] /\ k \in DOMAIN pending
  BY BeginCallIs
<1> HIDE DEF c
<1>8. UNCHANGED <<frame, stack>>
  BY DEF BeginCall
<1>9. ASSUME NEW k \in DOMAIN pending' PROVE Promise(pending[k])'
  <2>1. Promise(c)
    BY <1>2, <1>4, <1>6 DEF Promise, FrameAt
  <2>2. Promise(pending'[k])
    BY <1>7, <2>1 DEF Promises
  <2>3. PICK e : e = pending'[k]
    OBVIOUS
  <2>4. Promise(e)'
    BY <1>8, <2>2, <2>3 DEF Promise, FrameAt, PromisedTo
  <2> QED
    BY <2>3, <2>4 DEF Promise
<1>10. ASSUME NEW j \in 1 .. n
       PROVE  /\ pending[j].level <= c.level
              /\ pending[j].level = c.level => pending[j].at <= c.at
  BY <1>4, <1>7, <1>10 DEF Promises, Promise, PromisedTo, FrameAt
<1>11. Ordered'
  <2> SUFFICES ASSUME NEW j \in 1 .. n + 1, NEW k \in 1 .. n + 1, j < k
               PROVE  /\ pending'[j].level <= pending'[k].level
                      /\ pending'[j].level = pending'[k].level
                           => pending'[j].at <= pending'[k].at
    BY <1>7 DEF Ordered
  <2>1. j \in 1 .. n
    BY <1>7
  <2>2. CASE k = n + 1
    BY <1>7, <1>10, <2>1, <2>2
  <2>3. CASE k # n + 1
    <3>1. k \in 1 .. n
      BY <1>7, <2>3
    <3> QED
      BY <1>7, <2>1, <3>1 DEF Promises, Ordered
  <2> QED
    BY <2>2, <2>3
<1> QED
  BY <1>9, <1>11 DEF Promises

(* The running frame before and after a step.                              *)
LEMMA FramesFollow ==
  ASSUME IInv'
  PROVE  frame' \in Frame
BY DEF IInv, Sound, State, Now

(* What a call is promised needs only what the steps do to frames.         *)
Moves == Holds \/ Shrinks \/ Ends \/ Leaves \/ Resumes

LEMMA StatementsPromise ==
  ASSUME IInv, IInv', ~ ArgumentsEnd, Statements
  PROVE  Moves
<1>1. /\ GoodFrame(frame) /\ frame \in Frame /\ Now \in State
      /\ Now.frame = frame /\ frame' \in Frame
  BY NowFields, FramesFollow DEF GoodFrame
<1>2. ASSUME NEW v \in Values PROVE v # Absent
  BY <1>2, ConstantsAssumption
<1>3. ASSUME frame' = frame, stack' = stack PROVE Moves
  BY <1>1, <1>3, GrownSame DEF Holds, Moves
<1>4. ASSUME NEW n \in Names, NEW v \in Values, Assign(n, v)
      PROVE  Moves
  <2>1. frame' = SetVariable(Now, n, v).frame /\ stack' = stack
    BY <1>4 DEF Assign, Become
  <2>2. Grown(Now.frame, SetVariable(Now, n, v).frame)
    BY <1>1, <1>2, GrownSet
  <2> QED
    BY <1>1, <2>1, <2>2 DEF Holds, Moves
<1>5. ASSUME NEW n \in Names, NEW at, NEW placed,
             placed = frame \/ placed = SetAt(frame, at, n, Initial)
      PROVE  Grown(frame, placed)
  <2>1. Initial # Absent
    BY ConstantsAssumption
  <2> QED
    BY <1>1, <1>5, <2>1, GrownSame, GrownSetAt
<1>6. ASSUME NEW n \in Names, NEW v \in Values, NEW above \in BOOLEAN,
             AssignHot(n, v, above)
      PROVE  Moves
  <2> DEFINE at == IF above THEN AboveNearestLoop(frame) ELSE NearestLoop(frame)
             placed == IF InView(frame.scopes, n) THEN frame
                       ELSE SetAt(frame, at, n, Initial)
             s == [Now EXCEPT !.frame = placed]
  <2>1. frame' = SetVariable(s, n, v).frame /\ stack' = stack
    BY <1>6 DEF AssignHot, Become
  <2>2. at \in Nat /\ at >= Base(frame)
    BY <1>1, LoopPlaces
  <2> HIDE DEF at
  <2>3. GoodFrame(placed) /\ Grown(frame, placed)
    BY <1>1, <1>5, <2>2, AnyValues, SetAtFrame
  <2> HIDE DEF placed
  <2>4. s \in State /\ s.frame = placed /\ placed \in Frame
    BY <1>1, <2>3 DEF State, GoodFrame
  <2> HIDE DEF s
  <2>5. Grown(placed, SetVariable(s, n, v).frame)
    BY <1>2, <2>4, GrownSet
  <2>6. SetVariable(s, n, v).frame \in Frame
    BY <1>1, <2>1
  <2>7. Grown(frame, frame')
    BY <1>1, <2>1, <2>3, <2>4, <2>5, <2>6, GrownTwice
  <2> QED
    BY <2>1, <2>7 DEF Holds, Moves
<1>7. ASSUME NEW n \in Names, NEW above \in BOOLEAN, AssignHotFails(n, above)
      PROVE  Moves
  <2> DEFINE at == IF above THEN AboveNearestLoop(frame) ELSE NearestLoop(frame)
  <2>1. frame' = SetAt(frame, at, n, Initial) /\ stack' = stack
    BY <1>7 DEF AssignHotFails
  <2> HIDE DEF at
  <2> QED
    BY <1>5, <2>1 DEF Holds, Moves
<1>8. ASSUME NEW n \in Names, EndVariable(n) PROVE Moves
  <2>1. CASE InView(frame.scopes, n)
    <3>1. /\ ~ Promised(n) /\ stack' = stack
          /\ frame' = Destroy(Now, n).frame
      BY <1>8, <2>1 DEF EndVariable, Become
    <3> QED
      BY <2>1, <3>1 DEF Ends, Moves
  <2>2. CASE ~ InView(frame.scopes, n)
    BY <1>3, <1>8, <2>2 DEF EndVariable, Raising
  <2> QED
    BY <2>1, <2>2
<1>9. CASE Raise
  BY <1>3, <1>9 DEF Raise, Raising
<1> QED
  BY <1>4, <1>6, <1>7, <1>8, <1>9 DEF Statements

LEMMA ConstructsPromise ==
  ASSUME IInv, IInv', Constructs
  PROVE  Moves
<1>1. GoodFrame(frame) /\ frame \in Frame /\ frame.aliases \in Files
  BY NowFields DEF GoodFrame, Frame
<1>2. EmptyScope \in Scope /\ frame' \in Frame
  BY ScopeTypes, FramesFollow
<1>3. ASSUME NEW kind, stack' = stack,
             frame' = OpenedFrame(frame, kind, EmptyScope, frame.aliases)
      PROVE  Moves
  <2>1. Grown(frame, OpenedFrame(frame, kind, EmptyScope, frame.aliases))
    BY <1>1, <1>2, GrownOpened
  <2> QED
    BY <1>3, <2>1 DEF Holds, Moves
<1>4. CASE EnterBlock
  <2>1. frame' = OpenedFrame(frame, "block", EmptyScope, frame.aliases)
    BY <1>1, <1>4, OpeningIs DEF EnterBlock, Kinds
  <2> QED
    BY <1>3, <1>4, <2>1 DEF EnterBlock
<1>5. CASE EnterLoop
  <2>1. frame' = [PushScope(Opening(frame, "loop"), EmptyScope)
                    EXCEPT !.loops = Append(@, Len(frame.scopes) + 1)]
    BY <1>5 DEF EnterLoop
  <2>2. frame' = OpenedFrame(frame, "loop", EmptyScope, frame.aliases)
    BY <1>1, <2>1, OpeningLoopIs
  <2> QED
    BY <1>3, <1>5, <2>2 DEF EnterLoop
<1>6. CASE EnterTry
  <2>1. frame' = OpenedFrame(frame, "try", EmptyScope, frame.aliases)
    BY <1>1, <1>6, OpeningIs DEF EnterTry, Kinds
  <2> QED
    BY <1>3, <1>6, <2>1 DEF EnterTry
<1>7. ASSUME NEW n \in LambdaParams, NEW v \in Values, NEW home \in LambdaHomes,
             EnterLambdaExpr(n, v, home)
      PROVE  Moves
  <2> DEFINE h == OpenedFrame(frame, "lambda", EmptyScope, home)
             k == "lambda"
  <2>1. /\ home \in Files /\ n \in Names /\ v # Absent
        /\ k \in Kinds
    BY ConstantsAssumption DEF Kinds
  <2>2. h \in Frame
    BY <1>1, <1>2, <2>1, OpenedGood DEF GoodFrame
  <2>3. frame' = SetVariableNew(h, n, v) /\ stack' = stack
    BY <1>1, <1>7, <2>1, OpeningIs DEF EnterLambdaExpr, Kinds
  <2>4. Grown(frame, h)
    <3> HIDE DEF k
    <3>1. Grown(frame, OpenedFrame(frame, k, EmptyScope, home))
      BY <1>1, <1>2, GrownOpened
    <3> QED
      BY <3>1 DEF k
  <2> HIDE DEF h, k
  <2>5. Grown(h, SetVariableNew(h, n, v))
    BY <2>1, <2>2, GrownNew
  <2>6. Grown(frame, frame')
    BY <1>1, <1>2, <2>2, <2>3, <2>4, <2>5, GrownTwice
  <2> QED
    BY <2>3, <2>6 DEF Holds, Moves
<1>8. ASSUME frame.nest # <<>>, ~ InArgument, stack' = stack,
             NEW aliases \in Files,
             frame' = ClosedFrame(frame, OneLess(frame), aliases)
      PROVE  Moves
  <2>1. /\ OneLess(frame) \in Nat
        /\ OneLess(frame) >= Base(frame) + Len(frame.nest) - 1
    BY <1>1, <1>8, ClosingIs
  <2>2. Grown(frame', frame')
    BY <1>2, GrownSame
  <2> QED
    BY <1>8, <2>1, <2>2 DEF Shrinks, Moves
<1>9. CASE LeaveConstruct
  <2>1. /\ frame.nest # <<>> /\ Top.kind # "lambda"
        /\ frame' = ClosedFrame(frame, OneLess(frame), frame.aliases)
    BY <1>1, <1>9, ClosingIs DEF LeaveConstruct, Top
  <2> QED
    BY <1>1, <1>8, <1>9, <2>1 DEF LeaveConstruct
<1>10. CASE LeaveLambdaExpr
  <2>1. frame.nest # <<>> /\ Top.kind = "lambda"
    BY <1>10 DEF LeaveLambdaExpr, Inside, Top
  <2>2. Top.aliases \in Files
    BY <1>1, <2>1, InnermostConstruct DEF Top, Construct
  <2>3. frame' = ClosedFrame(frame, OneLess(frame), Top.aliases)
    BY <1>1, <1>10, <2>1, <2>2, ClosingIs DEF LeaveLambdaExpr, Top
  <2> QED
    BY <1>8, <1>10, <2>1, <2>2, <2>3 DEF LeaveLambdaExpr
<1> QED
  BY <1>4, <1>5, <1>6, <1>7, <1>9, <1>10 DEF Constructs

(* A call comes back to the frame it was made from.                        *)
LEMMA ResumedGrown ==
  ASSUME IInv, stack # <<>>, NEW ending, GoodFrame(ending),
         ending.moduleScope = frame.moduleScope, ending.path = frame.path,
         ending.moduleScope => ending.scopes[1] = frame.scopes[1],
         NEW pairs \in SUBSET (Names \X Names)
  PROVE  Grown(CallerOf.saved, Resumed(ending, pairs).frame)
<1>1. Sound(Resumed(ending, pairs)) /\ Sound(Back(ending))
  BY ResumedSound, BackSound
<1>2. /\ Waiting(ending).frame = CallerOf.saved
      /\ AllHome(Waiting(ending))
  BY BackSound
<1>3. Waiting(ending) \in State /\ Back(ending) \in State
      /\ Resumed(ending, pairs) \in State
  BY <1>1, <1>2 DEF AllHome, Sound
<1>4. Grown(CallerOf.saved, Back(ending).frame)
  BY <1>2, <1>3, GrownChecked DEF Back
<1>5. CASE pairs = {}
  <2>1. Resumed(ending, pairs) = Back(ending)
    BY <1>5 DEF Resumed, Back, Waiting
  <2> QED
    BY <1>4, <2>1
<1>6. CASE pairs # {}
  <2> DEFINE pair == CHOOSE p \in pairs : TRUE
             value == TakeVariable(ending, pair[1], Unit)
  <2>1. Resumed(ending, pairs) = SetVariable(Back(ending), pair[2], value)
    BY <1>6 DEF Resumed, Back, Waiting
  <2>2. pair \in Names \X Names
    BY <1>6
  <2> HIDE DEF pair
  <2>3. pair[1] \in Names /\ pair[2] \in Names
    BY <2>2
  <2>4. value # Absent
    <3>1. ending.scopes \in Seq(Scope)
      BY DEF GoodFrame, Frame
    <3>2. value = Unit \/ (InView(ending.scopes, pair[1])
                             /\ value = ValueOf(ending.scopes, pair[1]))
      BY DEF TakeVariable, OwnHolders, InView
    <3>3. value \in AnyValue
      BY <2>3, <3>1, <3>2, ValueOfType, AnyValues
    <3> QED
      BY <3>3, AbsentIsNoValue
  <2> HIDE DEF value
  <2>5. Grown(Back(ending).frame, SetVariable(Back(ending), pair[2], value).frame)
    BY <1>3, <2>3, <2>4, GrownSet
  <2>6. /\ CallerOf.saved \in Frame /\ Back(ending).frame \in Frame
        /\ Resumed(ending, pairs).frame \in Frame
    BY <1>2, <1>3 DEF State
  <2> QED
    BY <1>4, <2>1, <2>5, <2>6, GrownTwice
<1> QED
  BY <1>5, <1>6

LEMMA ErrorsPromise ==
  ASSUME IInv, IInv', Errors
  PROVE  Moves
<1>1. /\ GoodFrame(frame) /\ frame \in Frame /\ frame.aliases \in Files
      /\ Now \in State /\ Len(frame.scopes) \in Nat /\ frame' \in Frame
      /\ Base(frame) \in Nat /\ Len(frame.nest) \in Nat
  BY NowFields, FramesFollow, LenProperties DEF GoodFrame, Frame, Base
<1>2. ASSUME frame.nest # <<>>, ~ InArgument, stack' = stack,
             NEW d \in Nat, d >= Base(frame) + Len(frame.nest) - 1,
             NEW aliases \in Files, frame' = ClosedFrame(frame, d, aliases)
      PROVE  Moves
  <2>1. Grown(frame', frame')
    BY <1>1, GrownSame
  <2> QED
    BY <1>2, <2>1 DEF Shrinks, Moves
<1>3. CASE UnwindConstruct
  <2>1. frame.nest # <<>> /\ ~ InArgument /\ stack' = stack
    BY <1>3 DEF UnwindConstruct
  <2>2. /\ Top.aliases \in Files
        /\ Len(frame.scopes) >= Base(frame) + Len(frame.nest)
    BY <1>1, <2>1, InnermostConstruct DEF Top, Construct
  <2>3. /\ Len(frame.scopes) >= Base(frame) + Len(frame.nest) - 1
        /\ OneLess(frame) \in Nat
        /\ OneLess(frame) >= Base(frame) + Len(frame.nest) - 1
    <3>1. /\ OneLess(frame) \in Nat
          /\ OneLess(frame) >= Base(frame) + Len(frame.nest) - 1
      BY <1>1, <2>1, ClosingIs
    <3> QED
      BY <1>1, <2>2, <3>1
  <2>4. CASE Top.kind = "block"
    <3>1. frame' = ClosedFrame(frame, Len(frame.scopes), frame.aliases)
      BY <1>1, <1>3, <2>1, <2>4, ClosingIs DEF UnwindConstruct, Top
    <3> QED
      BY <1>1, <1>2, <2>1, <2>3, <3>1
  <2>5. CASE Top.kind = "loop"
    <3>1. frame' = ClosedFrame(frame, OneLess(frame), frame.aliases)
      BY <1>1, <1>3, <2>1, <2>5, ClosingIs DEF UnwindConstruct, Top
    <3> QED
      BY <1>1, <1>2, <2>1, <2>3, <3>1
  <2>6. CASE Top.kind = "lambda"
    <3>1. frame' = ClosedFrame(frame, OneLess(frame), Top.aliases)
      BY <1>1, <1>3, <2>1, <2>2, <2>6, ClosingIs DEF UnwindConstruct, Top
    <3> QED
      BY <1>2, <2>1, <2>2, <2>3, <3>1
  <2> QED
    BY <1>3, <2>4, <2>5, <2>6 DEF UnwindConstruct
<1>4. ASSUME frame.nest # <<>>
      PROVE  /\ Popped(UnwindTo(frame, Top))
                  = ClosedFrame(frame, Top.depth, frame.aliases)
             /\ GoodFrame(ClosedFrame(frame, Top.depth, frame.aliases))
             /\ Top.depth \in Nat
             /\ Top.depth >= Base(frame) + Len(frame.nest) - 1
  <2>1. /\ Popped(UnwindTo(frame, Top))
             = ClosedFrame(frame, Top.depth, frame.aliases)
        /\ Top.depth \in Nat
        /\ Top.depth >= Base(frame) + Len(frame.nest) - 1
    BY <1>1, <1>4, ClosingIs, InnermostConstruct DEF Top, Construct
  <2> QED
    BY <1>1, <1>4, <2>1, ClosedStep
<1>5. ASSUME NEW v \in Values, Catch(v) PROVE Moves
  <2> DEFINE f == Popped(UnwindTo(frame, Top))
             kind == "catch"
             opened == PushScope(Opening(f, kind), EmptyScope)
             s == [Now EXCEPT !.frame = opened]
             g == SetVariable(s, ErrName, v).frame
  <2>1. /\ frame.nest # <<>> /\ ~ InArgument /\ stack' = stack
        /\ frame' = g
    BY <1>5 DEF Catch, Inside, Become
  <2>2. /\ f = ClosedFrame(frame, Top.depth, frame.aliases) /\ GoodFrame(f)
        /\ f \in Frame
    BY <1>4, <2>1 DEF GoodFrame
  <2> HIDE DEF f
  <2>3. f.aliases \in Files /\ kind \in Kinds /\ kind # "loop"
        /\ EmptyScope \in Scope
    BY <2>2, ScopeTypes DEF GoodFrame, Frame, Kinds
  <2> HIDE DEF kind
  <2>4. opened = OpenedFrame(f, kind, EmptyScope, f.aliases)
    BY <2>2, <2>3, OpeningIs
  <2>5. opened \in Frame /\ Grown(f, opened)
    <3>1. GoodFrame(OpenedFrame(f, kind, EmptyScope, f.aliases))
      BY <2>2, <2>3, OpenedGood
    <3>2. Grown(f, OpenedFrame(f, kind, EmptyScope, f.aliases))
      BY <2>2, <2>3, GrownOpened
    <3> QED
      BY <2>4, <3>1, <3>2 DEF GoodFrame
  <2> HIDE DEF opened
  <2>6. s \in State /\ s.frame = opened
    BY <1>1, <2>5 DEF State
  <2> HIDE DEF s
  <2>7. Grown(opened, g)
    BY <2>6, ConstantsAssumption, GrownSet
  <2> HIDE DEF g
  <2>8. Grown(f, frame')
    BY <1>1, <2>1, <2>2, <2>5, <2>7, GrownTwice
  <2> QED
    BY <1>1, <1>4, <2>1, <2>2, <2>8 DEF Shrinks, Moves
<1>6. CASE PassTry
  <2>1. /\ frame.nest # <<>> /\ ~ InArgument /\ stack' = stack
        /\ frame' = Popped(UnwindTo(frame, Top))
    BY <1>6 DEF PassTry, Inside
  <2> QED
    BY <1>1, <1>2, <1>4, <2>1
<1>7. CASE FailCall
  <2> DEFINE pairs == PairsOnError(CallerOf)
  <2>1. /\ stack # <<>> /\ NoneAwaited /\ Become(Resumed(frame, pairs))
        /\ stack' = SubSeq(stack, 1, Len(stack) - 1)
    BY <1>7 DEF FailCall
  <2>2. pairs \in SUBSET (Names \X Names)
    BY <2>1, StackPopped DEF PairsOnError, Activation
  <2> HIDE DEF pairs
  <2>3. Grown(CallerOf.saved, Resumed(frame, pairs).frame)
    BY <1>1, <2>1, <2>2, ResumedGrown
  <2> QED
    BY <2>1, <2>3 DEF Resumes, Become, Moves
<1>8. CASE UnwindCall
  BY <1>1, <1>8, GrownSame DEF UnwindCall, Holds, Moves
<1> QED
  BY <1>3, <1>5, <1>6, <1>7, <1>8 DEF Errors

LEMMA CallsPromise ==
  ASSUME IInv, IInv', Calls
  PROVE  Moves
<1>1. GoodFrame(frame) /\ frame \in Frame /\ Now \in State
      /\ Now.frame = frame
  BY NowFields DEF GoodFrame
<1>2. ASSUME NEW saved, Parked(saved), Grown(frame, saved), NEW out, NEW lent,
             stack' = Append(stack, [saved |-> saved, out |-> out, lent |-> lent,
                                     functions |-> functions])
      PROVE  Moves
  <2> DEFINE act == [saved |-> saved, out |-> out, lent |-> lent,
                     functions |-> functions]
  <2>1. act \in Activation
    <3>1. Len(stack') = Len(stack) + 1 /\ stack'[Len(stack) + 1] = act
          /\ Len(stack) \in Nat
      BY <1>2, AppendProperties, LenProperties DEF IInv
    <3>2. stack' \in Seq(Activation)
      BY DEF IInv
    <3> HIDE DEF act
    <3> QED
      BY <3>1, <3>2, ElementOfSeq
  <2>2. stack' = Append(stack, act) /\ act.saved = saved
    BY <1>2
  <2> HIDE DEF act
  <2> QED
    BY <1>2, <2>1, <2>2 DEF Leaves, Moves
<1>3. ASSUME NEW args \in [Names -> Values], CallFunction(args)
      PROVE  Moves
  <2> DEFINE s == [Now EXCEPT !.frame = TakenFrom]
             taken == TakeCallState(s, frame.aliases)
             out == Awaited.sig.out
             lent == Awaited.lent
             n == CHOOSE n \in OutArgument(Awaited.sig) : TRUE
             at == Innermost(frame.scopes, n)
  <2>1. /\ Sound(s) /\ GoodFrame(TakenFrom) /\ frame.aliases \in Files
        /\ stack' = Append(stack, [saved |-> taken.saved, out |-> out,
                                   lent |-> lent, functions |-> functions])
    BY <1>1, <1>3, StartingCall DEF Frame
  <2>2. s \in State /\ s.frame = TakenFrom /\ TakenFrom \in Frame
    BY <1>1, <2>1 DEF Sound, GoodFrame, State
  <2>3. Grown(frame, TakenFrom)
    <3>1. TakenFrom = frame \/ (lent /\ TakenFrom = SetAt(frame, at, n, Lent))
      BY DEF TakenFrom, Lender, Lending, SetAt
    <3>2. lent => n \in Names
      <4>1. InArgument
        BY <1>3 DEF CallFunction
      <4>2. Awaited \in GoodCalls
        BY <4>1, AwaitedTyped
      <4> QED
        BY <4>2, ConstantsAssumption DEF GoodCalls, PendingCall, OutArgument
    <3>3. Lent # Absent
      BY ConstantsAssumption
    <3> HIDE DEF n, at, lent
    <3> QED
      BY <1>1, <3>1, <3>2, <3>3, GrownSame, GrownSetAt
  <2> HIDE DEF s, out, lent, n, at
  <2>4. Parked(taken.saved)
    BY <2>1, TakenHome
  <2>5. taken.saved = CheckIn(s).frame
    BY DEF TakeCallState
  <2>6. Grown(TakenFrom, taken.saved) /\ taken.saved \in Frame
    BY <2>2, <2>4, <2>5, GrownChecked DEF Parked, GoodFrame
  <2>7. Grown(frame, taken.saved)
    BY <1>1, <2>2, <2>3, <2>6, GrownTwice
  <2> HIDE DEF taken
  <2> QED
    BY <1>2, <2>1, <2>4, <2>7
<1>4. ASSUME NEW held, NEW v, NEW home \in LambdaHomes, CallLambda(held, v, home)
      PROVE  Moves
  <2> DEFINE taken == TakeCallState(Now, home)
             none == {}
             lent == FALSE
  <2>1. stack' = Append(stack, [saved |-> taken.saved, out |-> none,
                                lent |-> lent, functions |-> functions])
    BY <1>4 DEF CallLambda
  <2>2. home \in Files /\ Sound(Now)
    BY ConstantsAssumption DEF IInv
  <2> HIDE DEF none, lent
  <2>3. Parked(taken.saved)
    BY <2>2, TakenHome
  <2>4. taken.saved = CheckIn(Now).frame
    BY DEF TakeCallState
  <2>5. Grown(frame, taken.saved)
    BY <1>1, <2>4, GrownChecked
  <2> HIDE DEF taken
  <2> QED
    BY <1>2, <2>1, <2>3, <2>5
<1>5. ASSUME UNCHANGED <<frame, stack>> PROVE Moves
  BY <1>1, <1>5, GrownSame DEF Holds, Moves
<1>6. CASE CallRefused \/ CopyArgument \/ AbandonCall
  BY <1>5, <1>6 DEF CallRefused, Raising, CopyArgument, AbandonCall
<1>7. ASSUME NEW callee \in Files, NEW alias \in BOOLEAN, NEW sig \in Signatures,
             BeginCall(callee, alias, sig)
      PROVE  Moves
  BY <1>5, <1>7 DEF BeginCall
<1>8. CASE Return
  <2> DEFINE ending == EndedFrame(frame)
             pairs == CallerOf.out
  <2>1. /\ stack # <<>> /\ NoneAwaited /\ Become(Resumed(ending, pairs))
        /\ stack' = SubSeq(stack, 1, Len(stack) - 1)
    BY <1>8 DEF Return, EndedFrame
  <2>2. /\ GoodFrame(ending)
        /\ ending.moduleScope = frame.moduleScope /\ ending.path = frame.path
        /\ ending.moduleScope => ending.scopes[1] = frame.scopes[1]
    BY <1>1, EndedGood
  <2>3. pairs \in SUBSET (Names \X Names)
    BY <2>1, StackPopped DEF Activation
  <2> HIDE DEF ending, pairs
  <2>4. Grown(CallerOf.saved, Resumed(ending, pairs).frame)
    BY <2>1, <2>2, <2>3, ResumedGrown
  <2> QED
    BY <2>1, <2>4 DEF Resumes, Become, Moves
<1> QED
  BY <1>3, <1>4, <1>6, <1>7, <1>8 DEF Calls

(* What waits only becomes less, but for the call that begins.             *)
LEMMA NextRemains ==
  ASSUME IInv, [Next]_vars
  PROVE  \/ Remaining
         \/ \E callee \in Files, alias \in BOOLEAN, sig \in Signatures :
              BeginCall(callee, alias, sig)
<1>1. ASSUME pending' = pending PROVE Remaining
  BY <1>1, RemainingSame
<1>2. ASSUME InArgument, pending' = PendingPopped PROVE Remaining
  BY <1>2, AwaitedTyped DEF Remaining
<1>3. CASE CopyArgument
  <2>1. PICK value \in AnyValue :
          /\ pending' \in Seq(GoodCalls) /\ DOMAIN pending' = DOMAIN pending
          /\ \A k \in DOMAIN pending :
               pending'[k] = IF k = Len(pending)
                             THEN [pending[k] EXCEPT !.copy = value]
                             ELSE pending[k]
    BY <1>3, CopyArgumentIs
  <2>2. ASSUME NEW k \in DOMAIN pending
        PROVE  LET e == pending'[k]
                   c == pending[k]
               IN  /\ e \in GoodCalls /\ e.level = c.level /\ e.at = c.at
                   /\ e.sig = c.sig /\ e.lent = c.lent
    <3>1. PICK c \in GoodCalls : c = pending[k]
      BY PendingTypes
    <3>2. /\ [c EXCEPT !.copy = value].level = c.level
          /\ [c EXCEPT !.copy = value].at = c.at
          /\ [c EXCEPT !.copy = value].sig = c.sig
          /\ [c EXCEPT !.copy = value].lent = c.lent
          /\ [c EXCEPT !.copy = value] \in GoodCalls
      BY DEF GoodCalls, PendingCall
    <3>3. pending'[k] = c \/ pending'[k] = [c EXCEPT !.copy = value]
      BY <2>1, <3>1
    <3> QED
      BY <3>1, <3>2, <3>3
  <2> QED
    BY <2>1, <2>2 DEF Remaining
<1>4. ASSUME NEW args \in [Names -> Values], CallFunction(args)
      PROVE  Remaining
  BY <1>2, <1>4 DEF CallFunction
<1>5. CASE AbandonCall \/ UnwindCall
  BY <1>2, <1>5 DEF AbandonCall, UnwindCall
<1>6. CASE Statements
  BY <1>1, <1>6 DEF Statements, Assign, AssignHot, AssignHotFails, EndVariable,
                    Raise, Raising
<1>7. CASE Constructs
  BY <1>1, <1>7 DEF Constructs, EnterBlock, EnterLoop, EnterTry,
                    EnterLambdaExpr, LeaveConstruct, LeaveLambdaExpr
<1>8. CASE UnwindConstruct \/ PassTry \/ FailCall \/ \E v \in Values : Catch(v)
  BY <1>1, <1>8 DEF UnwindConstruct, PassTry, FailCall, Catch
<1>9. CASE CallRefused \/ Return
  BY <1>1, <1>9 DEF CallRefused, Raising, Return
<1>10. ASSUME NEW held, NEW v, NEW home, CallLambda(held, v, home)
       PROVE  Remaining
  BY <1>1, <1>10 DEF CallLambda
<1>11. CASE Stop \/ UNCHANGED vars
  BY <1>1, <1>11 DEF Stop, vars
<1> QED
  BY <1>3, <1>4, <1>5, <1>6, <1>7, <1>8, <1>9, <1>10, <1>11
     DEF Next, Calls, Errors

LEMMA NextPromises ==
  ASSUME ~ ArgumentsEnd, IInv, IInv', MarkInv, Promises, [Next]_vars
  PROVE  Promises'
<1>1. Moves
  <2>1. ASSUME UNCHANGED <<frame, stack>> PROVE Moves
    <3>1. frame \in Frame
      BY NowFields DEF GoodFrame
    <3> QED
      BY <2>1, <3>1, GrownSame DEF Holds, Moves
  <2>2. Stop \/ UNCHANGED vars => Moves
    BY <2>1 DEF Stop, vars
  <2> QED
    BY <2>2, StatementsPromise, ConstructsPromise, ErrorsPromise, CallsPromise
       DEF Next
<1>2. CASE Remaining
  BY <1>1, <1>2, PromisesKept DEF Moves
<1>3. CASE \E callee \in Files, alias \in BOOLEAN, sig \in Signatures :
             BeginCall(callee, alias, sig)
  BY <1>3, PromisesBegun
<1> QED
  BY <1>2, <1>3, NextRemains

LEMMA InitPromises == Init => Promises
<1> SUFFICES ASSUME Init PROVE Promises
  OBVIOUS
<1>1. pending = <<>> /\ DOMAIN <<>> = {}
  BY EmptySeq DEF Init
<1> QED
  BY <1>1 DEF Promises, Ordered

-----------------------------------------------------------------------------
(* The steps that stay in one activation.                                  *)

LEMMA OwnStep ==
  ASSUME Own(frame, frame'), store' = store
  PROVE  Wrote(Now, Now')
<1>1. /\ Now.store = store /\ Now.frame = frame
      /\ Now'.store = store' /\ Now'.frame = frame'
  BY DEF Now
<1> QED
  BY <1>1, SameWrote DEF Own

LEMMA WrittenStep ==
  ASSUME NEW s \in State, Become(s), Wrote(Now, s)
  PROVE  Wrote(Now, Now')
BY Becomes

LEMMA StatementsWrite ==
  ASSUME IInv, Statements
  PROVE  Wrote(Now, Now') /\ stack' = stack
<1>1. /\ Now \in State /\ GoodFrame(frame) /\ Now.frame = frame
      /\ Sound(Now) /\ Now.store = store
  BY NowFields DEF IInv
<1>2. ASSUME NEW n \in Names, NEW v \in Values, Assign(n, v)
      PROVE  Wrote(Now, Now') /\ stack' = stack
  <2>1. Wrote(Now, SetVariable(Now, n, v))
    BY <1>1, PlainValues, SetVariableWrote
  <2>2. SetVariable(Now, n, v) \in State
    BY <1>1, AnyValues, SetVariableSound DEF Sound
  <2> QED
    BY <1>2, <2>1, <2>2, WrittenStep DEF Assign
<1>3. ASSUME NEW n \in Names, NEW above \in BOOLEAN
      PROVE  LET at == IF above THEN AboveNearestLoop(frame)
                       ELSE NearestLoop(frame)
                 placed == SetAt(frame, at, n, Initial)
             IN  GoodFrame(placed) /\ Own(frame, placed)
  <2> DEFINE at == IF above THEN AboveNearestLoop(frame)
                   ELSE NearestLoop(frame)
  <2>1. at \in Nat /\ at >= Base(frame)
    BY <1>1, LoopPlaces
  <2> HIDE DEF at
  <2>2. GoodFrame(SetAt(frame, at, n, Initial))
    BY <1>1, <2>1, AnyValues, SetAtFrame
  <2>3. Own(frame, SetAt(frame, at, n, Initial))
    BY <1>1, <2>1, PlainValues, OwnSetAt
  <2> QED
    BY <2>2, <2>3 DEF at
<1>4. ASSUME NEW n \in Names, NEW v \in Values, NEW above \in BOOLEAN,
             AssignHot(n, v, above)
      PROVE  Wrote(Now, Now') /\ stack' = stack
  <2> DEFINE at == IF above THEN AboveNearestLoop(frame)
                   ELSE NearestLoop(frame)
             placed == IF InView(frame.scopes, n) THEN frame
                       ELSE SetAt(frame, at, n, Initial)
             s == [Now EXCEPT !.frame = placed]
  <2>1. Become(SetVariable(s, n, v)) /\ stack' = stack
    BY <1>4 DEF AssignHot
  <2>2. GoodFrame(placed) /\ Own(frame, placed)
    BY <1>1, <1>3, OwnSame
  <2> HIDE DEF at, placed
  <2>3. s.frame = placed /\ s.store = store
    BY <1>1 DEF State
  <2>4. Sound(s)
    BY <1>1, <2>2, OwnChange DEF Own
  <2> HIDE DEF s
  <2>5. SameTables(Now, s) /\ (NoneLent(Now) => NoneLent(s))
    BY <1>1, <2>2, <2>3, SameWrote DEF Own, Wrote
  <2>6. Wrote(s, SetVariable(s, n, v)) /\ SetVariable(s, n, v) \in State
    BY <2>4, PlainValues, AnyValues, SetVariableWrote, SetVariableSound DEF Sound
  <2>7. Wrote(Now, SetVariable(s, n, v))
    BY <2>5, <2>6, WroteAfterSame
  <2> QED
    BY <2>1, <2>6, <2>7, WrittenStep
<1>5. ASSUME NEW n \in Names, NEW above \in BOOLEAN, AssignHotFails(n, above)
      PROVE  Wrote(Now, Now') /\ stack' = stack
  <2>1. Own(frame, frame') /\ store' = store /\ stack' = stack
    BY <1>3, <1>5 DEF AssignHotFails
  <2> QED
    BY <2>1, OwnStep
<1>6. ASSUME Raising PROVE Wrote(Now, Now') /\ stack' = stack
  BY <1>6, OwnSame, OwnStep DEF Raising
<1>7. ASSUME NEW n \in Names, EndVariable(n)
      PROVE  Wrote(Now, Now') /\ stack' = stack
  <2>1. CASE InView(frame.scopes, n)
    <3>1. Wrote(Now, Destroy(Now, n))
      BY <1>1, <2>1, DestroyWrote
    <3>2. Destroy(Now, n) \in State
      BY <1>1, <2>1, DestroySound DEF Sound
    <3> QED
      BY <1>7, <2>1, <3>1, <3>2, WrittenStep DEF EndVariable
  <2>2. CASE ~ InView(frame.scopes, n)
    BY <1>6, <1>7, <2>2 DEF EndVariable
  <2> QED
    BY <2>1, <2>2
<1> QED
  BY <1>2, <1>4, <1>5, <1>6, <1>7 DEF Statements, Raise

LEMMA ConstructsWrite ==
  ASSUME IInv, Constructs
  PROVE  Wrote(Now, Now') /\ stack' = stack
<1>1. GoodFrame(frame) /\ frame.aliases \in Files
  BY NowFields DEF GoodFrame, Frame
<1>2. ASSUME NEW kind \in Kinds,
             frame' = OpenedFrame(frame, kind, EmptyScope, frame.aliases),
             UNCHANGED <<store, stack>>
      PROVE  Wrote(Now, Now') /\ stack' = stack
  BY <1>1, <1>2, OwnOpened, OwnStep
<1>3. ASSUME NEW aliases \in Files, frame.nest # <<>>,
             frame' = ClosedFrame(frame, OneLess(frame), aliases),
             UNCHANGED <<store, stack>>
      PROVE  Wrote(Now, Now') /\ stack' = stack
  <2>1. /\ OneLess(frame) \in Nat
        /\ OneLess(frame) >= Base(frame) + Len(frame.nest) - 1
    BY <1>1, <1>3, ClosingIs
  <2>2. Own(frame, frame')
    BY <1>1, <1>3, <2>1, OwnClosed
  <2> QED
    BY <1>3, <2>2, OwnStep
<1>4. CASE EnterBlock
  <2>1. frame' = OpenedFrame(frame, "block", EmptyScope, frame.aliases)
    BY <1>1, <1>4, OpeningIs DEF EnterBlock, Kinds
  <2> QED
    BY <1>2, <1>4, <2>1 DEF EnterBlock, Kinds
<1>5. CASE EnterLoop
  <2>1. frame' = [PushScope(Opening(frame, "loop"), EmptyScope)
                    EXCEPT !.loops = Append(@, Len(frame.scopes) + 1)]
    BY <1>5 DEF EnterLoop
  <2>2. frame' = OpenedFrame(frame, "loop", EmptyScope, frame.aliases)
    BY <1>1, <2>1, OpeningLoopIs
  <2> QED
    BY <1>2, <1>5, <2>2 DEF EnterLoop, Kinds
<1>6. CASE EnterTry
  <2>1. frame' = OpenedFrame(frame, "try", EmptyScope, frame.aliases)
    BY <1>1, <1>6, OpeningIs DEF EnterTry, Kinds
  <2> QED
    BY <1>2, <1>6, <2>1 DEF EnterTry, Kinds
<1>7. ASSUME NEW n \in LambdaParams, NEW v \in Values,
             NEW home \in LambdaHomes, EnterLambdaExpr(n, v, home)
      PROVE  Wrote(Now, Now') /\ stack' = stack
  <2> DEFINE h == OpenedFrame(frame, "lambda", EmptyScope, home)
             g == SetVariableNew(h, n, v)
  <2>1. /\ n \in Names /\ v \in Plain /\ home \in Files
        /\ "lambda" \in Kinds /\ EmptyScope \in Scope
    BY ConstantsAssumption, PlainValues, ScopeTypes DEF Kinds
  <2>2. /\ GoodFrame(h) /\ Own(frame, h)
        /\ Len(h.scopes) = Len(frame.scopes) + 1
    BY <1>1, <2>1, OpenedGood, OwnOpened
  <2>3. frame' = g
    BY <1>1, <1>7, <2>1, OpeningIs DEF EnterLambdaExpr, Kinds
  <2> HIDE DEF h
  <2>4. Len(h.scopes) >= 2
    <3>1. Len(frame.scopes) \in Nat /\ Len(frame.scopes) >= 1
      BY NowFields, SoundFrame DEF IInv
    <3> QED
      BY <2>2, <3>1
  <2>5. Own(h, g)
    BY <2>1, <2>2, <2>4, OwnNew
  <2> HIDE DEF g
  <2>6. Own(frame, frame')
    BY <2>2, <2>3, <2>5, OwnTwice
  <2> QED
    BY <1>7, <2>6, OwnStep DEF EnterLambdaExpr
<1>8. CASE LeaveConstruct
  <2>1. /\ frame.nest # <<>>
        /\ frame' = ClosedFrame(frame, OneLess(frame), frame.aliases)
    BY <1>1, <1>8, ClosingIs DEF LeaveConstruct, Top
  <2> QED
    BY <1>1, <1>3, <1>8, <2>1 DEF LeaveConstruct
<1>9. CASE LeaveLambdaExpr
  <2>1. frame.nest # <<>> /\ Top.kind = "lambda"
    BY <1>9 DEF LeaveLambdaExpr, Inside, Top
  <2>2. Top.aliases \in Files
    BY <1>1, <2>1, InnermostConstruct DEF Top, Construct
  <2>3. frame' = ClosedFrame(frame, OneLess(frame), Top.aliases)
    BY <1>1, <1>9, <2>1, <2>2, ClosingIs DEF LeaveLambdaExpr, Top
  <2> QED
    BY <1>3, <1>9, <2>1, <2>2, <2>3 DEF LeaveLambdaExpr
<1> QED
  BY <1>4, <1>5, <1>6, <1>7, <1>8, <1>9 DEF Constructs

(* An error on its way through the constructs of one activation.           *)
LEMMA ErrorsWrite ==
  ASSUME IInv, Errors, ~ FailCall
  PROVE  Wrote(Now, Now') /\ stack' = stack
<1>1. /\ GoodFrame(frame) /\ frame.aliases \in Files
      /\ Len(frame.scopes) \in Nat
      /\ Now.frame = frame /\ Now.store = store /\ Now \in State
  BY NowFields, LenProperties DEF GoodFrame, Frame
<1>2. ASSUME NEW d \in Nat, NEW aliases \in Files, frame.nest # <<>>,
             d >= Base(frame) + Len(frame.nest) - 1,
             frame' = ClosedFrame(frame, d, aliases),
             UNCHANGED <<store, stack>>
      PROVE  Wrote(Now, Now') /\ stack' = stack
  <2>1. Own(frame, frame')
    BY <1>1, <1>2, OwnClosed
  <2> QED
    BY <1>2, <2>1, OwnStep
<1>3. CASE UnwindConstruct
  <2>1. frame.nest # <<>> /\ UNCHANGED <<store, stack>>
    BY <1>3 DEF UnwindConstruct
  <2>2. CASE Top.kind = "block"
    <3>1. frame' = Popped(frame)
      BY <1>3, <2>2 DEF UnwindConstruct
    <3> QED
      BY <2>1, <3>1, OwnStep DEF Own, Popped
  <2>3. CASE Top.kind = "loop"
    <3>1. frame' = Popped(LeaveLoopOf(frame))
      BY <1>3, <2>3 DEF UnwindConstruct
    <3>2. /\ frame' = ClosedFrame(frame, OneLess(frame), frame.aliases)
          /\ OneLess(frame) \in Nat
          /\ OneLess(frame) >= Base(frame) + Len(frame.nest) - 1
      BY <1>1, <2>1, <2>3, <3>1, ClosingIs DEF Top
    <3> QED
      BY <1>1, <1>2, <2>1, <3>2
  <2>4. CASE Top.kind = "lambda"
    <3>1. frame' = Popped(PopScope([frame EXCEPT !.aliases = Top.aliases]))
      BY <1>3, <2>4 DEF UnwindConstruct
    <3>2. Top.aliases \in Files
      BY <1>1, <2>1, InnermostConstruct DEF Top, Construct
    <3>3. /\ frame' = ClosedFrame(frame, OneLess(frame), Top.aliases)
          /\ OneLess(frame) \in Nat
          /\ OneLess(frame) >= Base(frame) + Len(frame.nest) - 1
      BY <1>1, <2>1, <2>4, <3>1, <3>2, ClosingIs DEF Top
    <3> QED
      BY <1>2, <2>1, <3>2, <3>3
  <2> QED
    BY <1>3, <2>2, <2>3, <2>4 DEF UnwindConstruct
<1>4. ASSUME frame.nest # <<>>
      PROVE  /\ Popped(UnwindTo(frame, Top))
                  = ClosedFrame(frame, Top.depth, frame.aliases)
             /\ Top.depth \in Nat
             /\ Top.depth >= Base(frame) + Len(frame.nest) - 1
  BY <1>1, <1>4, ClosingIs, InnermostConstruct DEF Top, Construct
<1>5. ASSUME NEW v \in Values, Catch(v)
      PROVE  Wrote(Now, Now') /\ stack' = stack
  <2> DEFINE f == Popped(UnwindTo(frame, Top))
             opened == PushScope(Opening(f, "catch"), EmptyScope)
             s == [Now EXCEPT !.frame = opened]
             r == SetVariable(s, ErrName, v)
  <2>1. frame.nest # <<>> /\ Become(r) /\ stack' = stack
    BY <1>5 DEF Catch, Inside
  <2>2. GoodFrame(f) /\ Own(frame, f)
    <3> DEFINE g == ClosedFrame(frame, Top.depth, frame.aliases)
    <3>1. GoodFrame(g) /\ Own(frame, g)
      BY <1>1, <1>4, <2>1, ClosedGood, OwnClosed
    <3> HIDE DEF g
    <3> QED
      BY <1>4, <2>1, <3>1 DEF g
  <2> HIDE DEF f
  <2>3. f.aliases \in Files
    BY <2>2 DEF GoodFrame, Frame
  <2>4. GoodFrame(opened) /\ Own(f, opened)
    <3> DEFINE o == OpenedFrame(f, "catch", EmptyScope, f.aliases)
    <3>1. opened = o
      BY <2>2, <2>3, OpeningIs DEF Kinds
    <3>2. GoodFrame(o) /\ Own(f, o)
      BY <2>2, <2>3, ScopeTypes, OpenedGood, OwnOpened DEF Kinds
    <3> HIDE DEF o, opened
    <3> QED
      BY <3>1, <3>2
  <2> HIDE DEF opened
  <2>5. Own(frame, opened)
    BY <2>2, <2>4, OwnTwice
  <2>6. Sound(s)
    BY <1>1, <2>4, <2>5, OwnChange DEF IInv, Own
  <2>7. s.frame = opened /\ s.store = store
    BY <1>1 DEF State
  <2> HIDE DEF s
  <2>8. SameTables(Now, s) /\ (NoneLent(Now) => NoneLent(s))
    BY <1>1, <2>5, <2>7, SameWrote DEF Own, Wrote
  <2>9. Wrote(s, r) /\ r \in State
    BY <2>6, PlainValues, AnyValues, ConstantsAssumption, SetVariableWrote,
       SetVariableSound DEF Sound
  <2> HIDE DEF r
  <2>10. Wrote(Now, r)
    BY <2>8, <2>9, WroteAfterSame
  <2> QED
    BY <2>1, <2>9, <2>10, WrittenStep
<1>6. CASE PassTry
  <2>1. frame.nest # <<>>
    BY <1>6 DEF PassTry, Inside
  <2> QED
    BY <1>1, <1>2, <1>4, <1>6, <2>1 DEF PassTry
<1>7. CASE UnwindCall
  BY <1>7, OwnSame, OwnStep DEF UnwindCall
<1> QED
  BY <1>3, <1>5, <1>6, <1>7 DEF Errors

-----------------------------------------------------------------------------
(* Handing the tables over.                                                *)

(* check_in_module_scope: afterwards every table is in the store.          *)
LEMMA CheckInTables ==
  ASSUME NEW s, Sound(s)
  PROVE  LET in == CheckIn(s)
         IN  /\ in \in State
             /\ \A m \in Modules : in.store[m].vars = TableIn(s, m)
             /\ in.frame.moduleScope = s.frame.moduleScope
             /\ in.frame.path = s.frame.path
             /\ in.frame.scopes = IF s.frame.moduleScope
                                  THEN [s.frame.scopes EXCEPT ![1] = EmptyScope]
                                  ELSE s.frame.scopes
<1> DEFINE in == CheckIn(s)
<1>1. s \in State /\ s.frame \in Frame /\ s.store \in [Modules -> Table]
  BY SoundFrame DEF State
<1>2. in \in State
  BY CheckInHome DEF AllHome
<1>3. CASE ~ s.frame.moduleScope
  <2>1. in = s
    BY <1>3 DEF CheckIn
  <2> HIDE DEF in
  <2> QED
    BY <1>2, <1>3, <2>1 DEF TableIn, in
<1>4. CASE s.frame.moduleScope
  <2> DEFINE table == [vars |-> s.frame.scopes[1], dead |-> s.moduleDead]
             kept == [s.store EXCEPT ![s.frame.path] = table]
             g == [s.frame EXCEPT !.scopes[1] = EmptyScope]
  <2>1. in.store = kept /\ in.frame = g
    BY <1>4 DEF CheckIn
  <2>2. \A m \in Modules :
          kept[m] = IF m = s.frame.path THEN table ELSE s.store[m]
    BY <1>1
  <2>3. table.vars = s.frame.scopes[1]
    OBVIOUS
  <2>4. /\ g.moduleScope = s.frame.moduleScope /\ g.path = s.frame.path
        /\ g.scopes = [s.frame.scopes EXCEPT ![1] = EmptyScope]
    BY <1>1 DEF Frame
  <2> HIDE DEF table, kept, g, in
  <2>5. \A m \in Modules : in.store[m].vars = TableIn(s, m)
    BY <1>4, <2>1, <2>2, <2>3 DEF TableIn
  <2> QED
    BY <1>2, <1>4, <2>1, <2>4, <2>5 DEF in
<1> QED
  BY <1>3, <1>4

(* check_out_module_scope: the frame's table leaves the store.             *)
LEMMA CheckOutTables ==
  ASSUME NEW s, AllHome(s)
  PROVE  LET out == CheckOut(s)
         IN  /\ \A m \in Modules : TableIn(out, m) = s.store[m].vars
             /\ CleanStore(s.store) => CleanStore(out.store)
             /\ out.frame.moduleScope = s.frame.moduleScope
             /\ out.frame.path = s.frame.path
             /\ out.frame.scopes =
                  IF s.frame.moduleScope
                  THEN [s.frame.scopes EXCEPT
                          ![1] = s.store[s.frame.path].vars]
                  ELSE s.frame.scopes
<1> DEFINE out == CheckOut(s)
<1>1. /\ s \in State /\ s.frame \in Frame /\ s.store \in [Modules -> Table]
      /\ s.frame.scopes \in Seq(Scope) /\ FrameShape(s.frame)
  BY DEF AllHome, State, Frame
<1>2. CASE ~ s.frame.moduleScope
  <2>1. out = s
    BY <1>2 DEF CheckOut
  <2> HIDE DEF out
  <2> QED
    BY <1>2, <2>1 DEF TableIn, out
<1>3. CASE s.frame.moduleScope
  <2> DEFINE held == s.store[s.frame.path].vars
             kept == [s.store EXCEPT ![s.frame.path] = EmptyTable]
             g == [s.frame EXCEPT !.scopes[1] = held]
             scopes == [s.frame.scopes EXCEPT ![1] = held]
  <2>1. out.store = kept /\ out.frame = g
    BY <1>3 DEF CheckOut
  <2>2. \A m \in Modules :
          kept[m] = IF m = s.frame.path THEN EmptyTable ELSE s.store[m]
    BY <1>1
  <2>3. /\ g.moduleScope = s.frame.moduleScope /\ g.path = s.frame.path
        /\ g.scopes = scopes
    BY <1>1 DEF Frame
  <2>4. scopes[1] = held
    <3>1. 1 \in DOMAIN s.frame.scopes
      <4>1. /\ Len(s.frame.scopes) \in Nat /\ Len(s.frame.nest) \in Nat
            /\ DOMAIN s.frame.scopes = 1 .. Len(s.frame.scopes)
        BY <1>1, LenProperties DEF Frame
      <4>2. Len(s.frame.scopes) >= Base(s.frame) + Len(s.frame.nest)
            /\ Base(s.frame) = 2
        BY <1>1, <1>3 DEF FrameShape, Base
      <4> QED
        BY <4>1, <4>2
    <3> HIDE DEF held
    <3> QED
      BY <3>1
  <2> HIDE DEF kept, g, out, scopes
  <2>5. \A m \in Modules : TableIn(out, m) = s.store[m].vars
    BY <1>3, <2>1, <2>2, <2>3, <2>4 DEF TableIn
  <2>6. CleanStore(s.store) => CleanStore(out.store)
    BY <2>1, <2>2, CleanScopes DEF CleanStore, EmptyTable
  <2> QED
    BY <1>3, <2>1, <2>3, <2>5, <2>6 DEF out, scopes
<1> QED
  BY <1>2, <1>3

(* The frame of a function of a module, or of the main file.               *)
LEMMA CalleeTables ==
  ASSUME NEW s, AllHome(s), NEW aliases \in Files,
         s.frame = FreshFrame(EmptyScope, aliases), NEW params \in Scope,
         NEW r,
         \/ \E m \in Modules : r = ModuleFrame(s, m, params)
         \/ r = ScriptFrame(s, params)
  PROVE  /\ \A m \in Modules : TableIn(r, m) = s.store[m].vars
         /\ CleanStore(s.store) /\ CleanScope(params) => NoneLent(r)
<1>1. s \in State /\ s.store \in [Modules -> Table] /\ s.frame \in Frame
  BY DEF AllHome, State
<1>2. ASSUME NEW m \in Modules, r = ModuleFrame(s, m, params)
      PROVE  /\ \A k \in Modules : TableIn(r, k) = s.store[k].vars
             /\ CleanStore(s.store) /\ CleanScope(params) => NoneLent(r)
  <2> DEFINE held == s.store[m].vars
             kept == [s.store EXCEPT ![m] = EmptyTable]
             two == <<held, params>>
  <2>1. r.frame = [s.frame EXCEPT !.scopes = two, !.moduleScope = TRUE,
                                  !.path = m, !.aliases = m]
        /\ r.store = kept
    <3> DEFINE g == [s.frame EXCEPT !.scopes = two, !.moduleScope = TRUE,
                                    !.path = m, !.aliases = m]
               d == s.store[m].dead
    <3>1. r = [store |-> kept, frame |-> g, moduleDead |-> d]
      BY <1>2, Zenon DEF ModuleFrame
    <3> HIDE DEF g, kept, d
    <3>2. r.frame = g /\ r.store = kept
      BY <3>1
    <3> QED
      BY <3>2 DEF g
  <2>2. /\ two[1] = held /\ two[2] = params /\ DOMAIN two = 1 .. 2
    OBVIOUS
  <2>3. \A k \in Modules :
          kept[k] = IF k = m THEN EmptyTable ELSE s.store[k]
    BY <1>1
  <2> HIDE DEF two, kept
  <2>4. r.frame.scopes = two /\ r.frame.moduleScope = TRUE /\ r.frame.path = m
    BY <1>1, <2>1 DEF Frame
  <2>5. \A k \in Modules : TableIn(r, k) = s.store[k].vars
    BY <2>1, <2>2, <2>3, <2>4 DEF TableIn
  <2>6. ASSUME CleanStore(s.store), CleanScope(params) PROVE NoneLent(r)
    <3>1. CleanScope(held)
      BY <2>6 DEF CleanStore
    <3>2. Clean(two)
      <4> HIDE DEF held
      <4>1. \A i \in 1 .. 2 : i = 1 \/ i = 2
        OBVIOUS
      <4> QED
        BY <2>2, <2>6, <3>1, <4>1 DEF Clean
    <3>3. CleanStore(kept)
      BY <2>3, <2>6, CleanScopes DEF CleanStore, EmptyTable
    <3> QED
      BY <2>1, <2>4, <3>2, <3>3 DEF NoneLent
  <2> QED
    BY <2>5, <2>6
<1>3. ASSUME r = ScriptFrame(s, params)
      PROVE  /\ \A k \in Modules : TableIn(r, k) = s.store[k].vars
             /\ CleanStore(s.store) /\ CleanScope(params) => NoneLent(r)
  <2> DEFINE one == <<params>>
  <2>1. one[1] = params /\ DOMAIN one = 1 .. 1
    OBVIOUS
  <2> HIDE DEF one
  <2>2. /\ r.store = s.store /\ r.frame.scopes = one
        /\ r.frame.moduleScope = s.frame.moduleScope
    BY <1>1, <1>3 DEF ScriptFrame, State, Frame, one
  <2>3. ~ r.frame.moduleScope
    BY <2>2 DEF FreshFrame
  <2>4. \A k \in Modules : TableIn(r, k) = s.store[k].vars
    BY <2>2, <2>3 DEF TableIn
  <2>5. \A i \in 1 .. 1 : i = 1
    OBVIOUS
  <2> QED
    BY <2>1, <2>2, <2>4, <2>5 DEF NoneLent, Clean
<1> QED
  BY <1>2, <1>3

-----------------------------------------------------------------------------
(* Lending.                                                                *)

(* A suspended call lent one variable or none; the placeholder is in one   *)
(* scope, the innermost that holds the name, and never in the module's.    *)
OnlyPlaceholder(act) ==
  \A i \in DOMAIN act.saved.scopes, n \in Names :
    act.saved.scopes[i][n] = Lent =>
      /\ act.lent /\ i >= Base(act.saved)
      /\ \E pair \in act.out : pair[2] = n
      /\ i = Innermost(act.saved.scopes, n)

Owes(act) ==
  /\ \A p, q \in act.out : p = q
  /\ OnlyPlaceholder(act)
  /\ act.lent => \E pair \in act.out :
       /\ InView(act.saved.scopes, pair[2])
       /\ ValueOf(act.saved.scopes, pair[2]) = Lent

(* The inductive invariant: whatever can run or be handed to running code  *)
(* is without placeholders.                                                *)
LentInv ==
  /\ NoneLent(Now)
  /\ \A i \in DOMAIN stack : Owes(stack[i])

LEMMA InnermostIs ==
  ASSUME NEW scopes, NEW name, NEW k \in Holders(scopes, name),
         Holders(scopes, name) \subseteq Nat,
         \A j \in Holders(scopes, name) : j <= k
  PROVE  Innermost(scopes, name) = k /\ InView(scopes, name)
<1>1. \E i \in Holders(scopes, name) :
        \A j \in Holders(scopes, name) : j <= i
  OBVIOUS
<1>2. /\ Innermost(scopes, name) \in Holders(scopes, name)
      /\ \A j \in Holders(scopes, name) : j <= Innermost(scopes, name)
  BY <1>1 DEF Innermost
<1>3. /\ Innermost(scopes, name) <= k /\ k <= Innermost(scopes, name)
      /\ Innermost(scopes, name) \in Nat /\ k \in Nat
  BY <1>2
<1> QED
  BY <1>3 DEF InView

(* The caller's scopes without its module's table.                         *)
LEMMA ParkedScopes ==
  ASSUME NEW s, Sound(s)
  PROVE  LET t == CheckIn(s).frame.scopes
         IN  /\ DOMAIN t = DOMAIN s.frame.scopes
             /\ \A i \in DOMAIN t :
                  t[i] = IF s.frame.moduleScope /\ i = 1 THEN EmptyScope
                         ELSE s.frame.scopes[i]
<1> DEFINE t == CheckIn(s).frame.scopes
<1>1. t = IF s.frame.moduleScope
          THEN [s.frame.scopes EXCEPT ![1] = EmptyScope]
          ELSE s.frame.scopes
  BY CheckInTables
<1> HIDE DEF t
<1>2. s.frame.scopes \in Seq(Scope)
  BY SoundFrame
<1>3. DOMAIN t = DOMAIN s.frame.scopes
  BY <1>1
<1>4. \A i \in DOMAIN t :
        t[i] = IF s.frame.moduleScope /\ i = 1 THEN EmptyScope
               ELSE s.frame.scopes[i]
  BY <1>1, <1>2
<1> QED
  BY <1>3, <1>4 DEF t

(* The promise at the moment the lent value is taken: the variable is in   *)
(* the caller's own scopes.                                                *)
LEMMA LenderPlace ==
  ASSUME IInv, Promises, InArgument, Awaited.lent
  PROVE  LET n == CHOOSE k \in OutArgument(Awaited.sig) : TRUE
             at == Innermost(frame.scopes, n)
         IN  /\ n \in OutArgument(Awaited.sig) /\ n \in Names
             /\ at \in 1 .. Len(frame.scopes) /\ at \in Nat /\ at >= Base(frame)
             /\ \A j \in Holders(frame.scopes, n) : j <= at
             /\ InView(frame.scopes, n)
             /\ TakenFrom = Lending(frame, n)
             /\ Output = ValueOf(frame.scopes, n)
<1> DEFINE n == CHOOSE k \in OutArgument(Awaited.sig) : TRUE
<1>1. /\ Awaited \in GoodCalls /\ Awaited = pending[Len(pending)]
      /\ Len(pending) \in DOMAIN pending
  BY AwaitedTyped
<1>2. /\ OutArgument(Awaited.sig) # {} /\ Awaited.sig \in Signatures
      /\ Awaited.at \in Nat
  BY <1>1 DEF GoodCalls, PendingCall
<1>3. n \in OutArgument(Awaited.sig)
  BY <1>2
<1>4. TakenFrom = Lender(frame, n) /\ Output = Moved(frame, n)
  BY DEF TakenFrom, Output
<1> HIDE DEF n
<1>5. n \in Names
  BY <1>2, <1>3, ConstantsAssumption DEF OutArgument
<1>6. Holding(frame, n, Awaited.at)
  <2>1. Promise(Awaited)
    BY <1>1 DEF Promises
  <2>2. FrameAt(Awaited.level) = frame
    BY DEF InArgument, FrameAt
  <2> QED
    BY <1>3, <2>1, <2>2 DEF Promise, PromisedTo
<1>7. PICK i \in Base(frame) .. Base(frame) + Awaited.at :
        i \in Holders(frame.scopes, n)
  BY <1>6 DEF Holding
<1>8. InView(frame.scopes, n)
  BY <1>7 DEF InView
<1>9. frame.scopes \in Seq(Scope) /\ Len(frame.scopes) \in Nat
  BY NowFields, LenProperties DEF GoodFrame, Frame
<1>10. /\ Innermost(frame.scopes, n) \in 1 .. Len(frame.scopes)
       /\ \A j \in Holders(frame.scopes, n) :
            j <= Innermost(frame.scopes, n)
  BY <1>5, <1>8, <1>9, InnermostHolds
<1>11. Innermost(frame.scopes, n) >= Base(frame)
  BY <1>2, <1>7, <1>9, <1>10 DEF Base
<1> QED
  BY <1>3, <1>4, <1>5, <1>8, <1>9, <1>10, <1>11 DEF Lender, Moved, n

(* A call that lends a variable leaves the placeholder where it was.       *)
LEMMA LenderOwes ==
  ASSUME IInv, LentInv, Promises, InArgument, Awaited.lent,
         NEW s, Sound(s), s.frame = TakenFrom,
         NEW act, act.saved = CheckIn(s).frame, act.out = Awaited.sig.out,
         act.lent
  PROVE  Owes(act)
<1> DEFINE sig == Awaited.sig
           n == CHOOSE k \in OutArgument(sig) : TRUE
           at == Innermost(frame.scopes, n)
           fs == frame.scopes
           ls == s.frame.scopes
           ss == act.saved.scopes
<1>1. /\ n \in OutArgument(sig) /\ n \in Names
      /\ at \in 1 .. Len(fs) /\ at \in Nat /\ at >= Base(frame)
      /\ \A j \in Holders(fs, n) : j <= at
      /\ s.frame = Lending(frame, n)
  BY LenderPlace
<1>0. sig \in Signatures
  BY AwaitedTyped DEF GoodCalls, PendingCall
<1> HIDE DEF sig
<1>2. /\ frame \in Frame /\ fs \in Seq(Scope) /\ DOMAIN fs = 1 .. Len(fs)
      /\ Len(fs) \in Nat /\ \A i \in 1 .. Len(fs) : fs[i] \in Scope
      /\ \A i \in 1 .. Len(fs), k \in Names : fs[i][k] # Lent
  <2>1. frame \in Frame /\ fs \in Seq(Scope)
    BY NowFields DEF GoodFrame, Frame
  <2>2. /\ DOMAIN fs = 1 .. Len(fs) /\ Len(fs) \in Nat
        /\ \A i \in 1 .. Len(fs) : fs[i] \in Scope
    BY <2>1, LenProperties, ElementOfSeq
  <2>3. Clean(fs)
    BY NowFields DEF LentInv, NoneLent
  <2> QED
    BY <2>1, <2>2, <2>3 DEF Clean, CleanScope
<1> HIDE DEF n, at
<1>3. /\ ls = [fs EXCEPT ![at] = Bind(fs[at], n, Lent)]
      /\ s.frame.moduleScope = frame.moduleScope
  BY <1>1, <1>2 DEF Lending, Frame, at
<1> HIDE DEF fs
<1>4. /\ DOMAIN ls = 1 .. Len(fs)
      /\ \A i \in 1 .. Len(fs) :
           ls[i] = IF i = at THEN Bind(fs[at], n, Lent) ELSE fs[i]
  BY <1>1, <1>2, <1>3
<1>5. /\ DOMAIN ss = 1 .. Len(fs)
      /\ \A i \in 1 .. Len(fs) :
           ss[i] = IF frame.moduleScope /\ i = 1 THEN EmptyScope ELSE ls[i]
  <2> DEFINE t == CheckIn(s).frame.scopes
  <2>1. /\ DOMAIN t = DOMAIN ls
        /\ \A i \in DOMAIN t :
             t[i] = IF s.frame.moduleScope /\ i = 1 THEN EmptyScope ELSE ls[i]
    BY ParkedScopes
  <2>2. ss = t
    OBVIOUS
  <2> HIDE DEF ss, t, ls
  <2> QED
    BY <1>3, <1>4, <2>1, <2>2
<1>6. /\ Base(act.saved) = Base(frame)
      /\ frame.moduleScope => at # 1
  <2>1. act.saved.moduleScope = frame.moduleScope
    BY <1>3, CheckInTables
  <2> QED
    BY <1>1, <2>1 DEF Base
<1> HIDE DEF ls, ss
<1>7. ss[at][n] = Lent
  BY <1>1, <1>2, <1>4, <1>5, <1>6 DEF Bind, Scope
<1>8. ASSUME NEW i \in 1 .. Len(fs), NEW k \in Names, ss[i][k] = Lent
      PROVE  i = at /\ k = n
  <2>1. ~ (frame.moduleScope /\ i = 1)
    BY <1>5, <1>8, CleanScopes DEF CleanScope
  <2>2. ss[i] = ls[i]
    BY <1>5, <2>1
  <2>3. i = at
    BY <1>2, <1>4, <1>8, <2>2
  <2>4. ls[i] = Bind(fs[at], n, Lent) /\ fs[at] \in Scope
    BY <1>2, <1>4, <2>3
  <2>5. k # n => Bind(fs[at], n, Lent)[k] = fs[at][k]
    BY <2>4 DEF Bind, Scope
  <2> QED
    BY <1>2, <1>8, <2>2, <2>3, <2>4, <2>5
<1>9. at \in Holders(ss, n)
  <2>1. Lent # Absent
    BY ConstantsAssumption
  <2> QED
    BY <1>1, <1>5, <1>7, <2>1 DEF Holders
<1>10. Holders(ss, n) \subseteq Nat
  BY <1>2, <1>5 DEF Holders
<1>11. ASSUME NEW j \in Holders(ss, n) PROVE j <= at
  <2>1. j \in 1 .. Len(fs) /\ ss[j][n] # Absent
    BY <1>5 DEF Holders
  <2>2. ~ (frame.moduleScope /\ j = 1)
    BY <1>1, <1>5, <2>1 DEF EmptyScope
  <2>3. CASE j = at
    BY <1>1, <2>3
  <2>4. CASE j # at
    <3>1. ss[j] = fs[j]
      BY <1>4, <1>5, <2>1, <2>2, <2>4
    <3>2. j \in Holders(fs, n)
      BY <1>2, <2>1, <3>1 DEF Holders
    <3> QED
      BY <1>1, <3>2 DEF fs
  <2> QED
    BY <2>3, <2>4
<1>12. Innermost(ss, n) = at /\ InView(ss, n)
  BY <1>9, <1>10, <1>11, InnermostIs
<1>13. PICK pair \in act.out : pair[2] = n
  BY <1>1 DEF OutArgument, sig
<1>14. OnlyPlaceholder(act)
  <2> SUFFICES ASSUME NEW i \in DOMAIN ss, NEW k \in Names, ss[i][k] = Lent
               PROVE  /\ i >= Base(act.saved)
                      /\ \E p \in act.out : p[2] = k
                      /\ i = Innermost(ss, k)
    BY DEF OnlyPlaceholder, ss
  <2>1. i = at /\ k = n
    BY <1>5, <1>8
  <2> QED
    BY <1>1, <1>6, <1>12, <1>13, <2>1
<1>15. \A p, q \in act.out : p = q
  BY <1>0, ConstantsAssumption DEF sig
<1>16. InView(ss, pair[2]) /\ ValueOf(ss, pair[2]) = Lent
  BY <1>7, <1>12, <1>13 DEF ValueOf
<1> QED
  BY <1>13, <1>14, <1>15, <1>16 DEF Owes, ss

(* A call that lends nothing owes nothing.                                 *)
LEMMA PlainOwes ==
  ASSUME NEW s, Sound(s), Clean(s.frame.scopes),
         NEW act, act.saved = CheckIn(s).frame, ~ act.lent,
         \A p, q \in act.out : p = q
  PROVE  Owes(act)
<1>1. ASSUME NEW i \in DOMAIN act.saved.scopes, NEW n \in Names
      PROVE  act.saved.scopes[i][n] # Lent
  <2>1. /\ i \in DOMAIN s.frame.scopes
        /\ act.saved.scopes[i] = IF s.frame.moduleScope /\ i = 1
                                 THEN EmptyScope ELSE s.frame.scopes[i]
    BY <1>1, ParkedScopes
  <2> QED
    BY <2>1, CleanScopes DEF Clean, CleanScope
<1> QED
  BY <1>1 DEF Owes, OnlyPlaceholder

LEMMA TablesClean ==
  ASSUME NEW s, Sound(s), NoneLent(s), NEW m \in Modules
  PROVE  CleanScope(TableIn(s, m))
<1>1. 1 \in DOMAIN s.frame.scopes
  BY SoundFrame
<1> QED
  BY <1>1 DEF NoneLent, Clean, CleanStore, TableIn

LEMMA PushedOwes ==
  ASSUME IInv, LentInv, NEW act \in Activation, Owes(act),
         stack' = Append(stack, act)
  PROVE  \A i \in DOMAIN stack' : Owes(stack'[i])
<1> DEFINE t == Append(stack, act)
<1>1. /\ stack \in Seq(Activation) /\ Len(stack) \in Nat
      /\ \A i \in 1 .. Len(stack) : Owes(stack[i])
  <2>1. stack \in Seq(Activation)
    BY DEF IInv
  <2> QED
    BY <2>1, LenProperties DEF LentInv
<1>2. /\ t \in Seq(Activation) /\ Len(t) = Len(stack) + 1
      /\ \A i \in 1 .. Len(stack) : t[i] = stack[i]
      /\ t[Len(stack) + 1] = act
  BY <1>1, AppendProperties
<1> HIDE DEF t
<1>3. DOMAIN t = 1 .. Len(stack) + 1
  BY <1>2, LenProperties
<1>4. ASSUME NEW i \in DOMAIN t PROVE Owes(t[i])
  <2>1. CASE i \in 1 .. Len(stack)
    BY <1>1, <1>2, <2>1
  <2>2. CASE i = Len(stack) + 1
    BY <1>2, <2>2
  <2> QED
    BY <1>1, <1>3, <2>1, <2>2
<1> QED
  BY <1>4 DEF t

(* What a function is given has a value: a copied argument was read from   *)
(* running code, and a lent one is where it was promised to be.            *)
Copies == \A k \in DOMAIN pending : pending[k].copy # Lent

LEMMA CleanParameters ==
  ASSUME NEW sig \in Signatures, NEW args \in [Names -> Values],
         NEW output, output # Lent
  PROVE  CleanScope(ParameterScope(sig, args, output))
<1>1. Absent # Lent /\ \A n \in Names : args[n] # Lent
  BY ConstantsAssumption
<1>2. ASSUME NEW n \in Names
      PROVE  (IF n \in sig.in THEN args[n]
              ELSE IF \E pair \in sig.out : pair[1] = n THEN output
              ELSE Absent) # Lent
  BY <1>1
<1> QED
  BY <1>2, Zenon DEF ParameterScope, CleanScope

LEMMA ReadClean ==
  ASSUME IInv, LentInv, NEW n \in Names, InView(frame.scopes, n)
  PROVE  ValueOf(frame.scopes, n) # Lent
<1>1. frame.scopes \in Seq(Scope) /\ Clean(frame.scopes)
      /\ DOMAIN frame.scopes = 1 .. Len(frame.scopes)
  BY NowFields, LenProperties DEF GoodFrame, Frame, LentInv, NoneLent
<1>2. Innermost(frame.scopes, n) \in DOMAIN frame.scopes
  BY <1>1, InnermostHolds
<1> QED
  BY <1>1, <1>2 DEF ValueOf, Clean, CleanScope

LEMMA OutputClean ==
  ASSUME IInv, LentInv, Promises, Copies, InArgument
  PROVE  Output # Lent
<1>1. CASE Awaited.lent
  <2> DEFINE n == CHOOSE k \in OutArgument(Awaited.sig) : TRUE
  <2>1. n \in Names /\ InView(frame.scopes, n) /\ Output = ValueOf(frame.scopes, n)
    BY <1>1, LenderPlace
  <2> HIDE DEF n
  <2> QED
    BY <2>1, ReadClean
<1>2. CASE ~ Awaited.lent
  BY <1>2, AwaitedTyped DEF Copies, Output
<1> QED
  BY <1>1, <1>2

(* A call hands every table to the store and takes the callee's out.       *)
LEMMA CallKeepsTables ==
  ASSUME IInv, NEW s, Sound(s), SameTables(Now, s), NEW aliases \in Files,
         NEW params \in Scope, NEW r,
         LET now == TakeCallState(s, aliases).now
         IN  \/ \E m \in Modules : r = ModuleFrame(now, m, params)
             \/ r = ScriptFrame(now, params)
  PROVE  /\ SameTables(Now, r)
         /\ NoneLent(Now) /\ CleanScope(params) => NoneLent(r)
<1> DEFINE now == TakeCallState(s, aliases).now
           in == CheckIn(s)
<1>1. /\ AllHome(now) /\ now.frame = FreshFrame(EmptyScope, aliases)
  BY TakenHome
<1>2. now.store = in.store
  <2>1. in \in State
    BY CheckInTables
  <2>2. now = [in EXCEPT !.frame = FreshFrame(EmptyScope, aliases)]
    BY DEF TakeCallState
  <2> HIDE DEF now, in
  <2> QED
    BY <2>1, <2>2 DEF State
<1>3. \A m \in Modules : in.store[m].vars = TableIn(s, m)
  BY CheckInTables
<1> HIDE DEF in
<1>4. \A m \in Modules : now.store[m].vars = TableIn(Now, m)
  BY <1>2, <1>3 DEF SameTables
<1>5. \/ \E m \in Modules : r = ModuleFrame(now, m, params)
      \/ r = ScriptFrame(now, params)
  OBVIOUS
<1> HIDE DEF now
<1>6. /\ \A m \in Modules : TableIn(r, m) = now.store[m].vars
      /\ CleanStore(now.store) /\ CleanScope(params) => NoneLent(r)
  BY <1>1, <1>5, CalleeTables
<1>7. NoneLent(Now) => CleanStore(now.store)
  BY <1>4, TablesClean DEF CleanStore, IInv
<1> QED
  BY <1>4, <1>6, <1>7 DEF SameTables

LEMMA SuspendedIs ==
  ASSUME NEW saved \in Frame, NEW out \in SUBSET (Names \X Names),
         NEW lent \in BOOLEAN, NEW file \in Files, NEW act,
         act = [saved |-> saved, out |-> out, lent |-> lent,
                functions |-> file]
  PROVE  /\ act \in Activation /\ act.saved = saved /\ act.out = out
         /\ act.lent = lent
BY DEF Activation

LEMMA CallFunctionValues ==
  ASSUME IInv, Promises, NEW args \in [Names -> Values], CallFunction(args)
  PROVE  /\ SameTables(Now, Now')
         /\ LentInv /\ Copies => LentInv'
<1> DEFINE params == ParameterScope(Awaited.sig, args, Output)
           s == [Now EXCEPT !.frame = TakenFrom]
           taken == TakeCallState(s, frame.aliases)
           sig == Awaited.sig
           lent == Awaited.lent
           act == [saved |-> taken.saved, out |-> sig.out, lent |-> lent,
                   functions |-> functions]
           r == IF Awaited.callee \in Modules
                THEN ModuleFrame(taken.now, Awaited.callee, params)
                ELSE ScriptFrame(taken.now, params)
<1>1. /\ sig \in Signatures /\ lent \in BOOLEAN /\ params \in Scope
      /\ GoodFrame(TakenFrom) /\ Sound(s)
      /\ TakenFrom.moduleScope = frame.moduleScope
      /\ TakenFrom.path = frame.path
      /\ Become(r) /\ stack' = Append(stack, act)
  BY StartingCall
<1>2. /\ GoodFrame(frame) /\ frame.aliases \in Files /\ InArgument
      /\ Now.frame = frame /\ Now \in State /\ Now.store = store
  BY NowFields DEF GoodFrame, Frame, CallFunction
<1>3. LentInv /\ Copies => CleanScope(params)
  BY <1>1, <1>2, OutputClean, CleanParameters
<1>4. s.frame = TakenFrom /\ s.store = store
  BY <1>2 DEF State
<1> HIDE DEF params, s
<1>5. frame.moduleScope => TakenFrom.scopes[1] = frame.scopes[1]
  <2>1. CASE ~ lent
    BY <2>1 DEF TakenFrom
  <2>2. CASE lent
    <3> DEFINE n == CHOOSE k \in OutArgument(Awaited.sig) : TRUE
               at == Innermost(frame.scopes, n)
               scope == Bind(frame.scopes[at], n, Lent)
    <3>1. at \in Nat /\ at >= Base(frame) /\ TakenFrom = Lending(frame, n)
      BY <1>2, <2>2, LenderPlace
    <3>2. TakenFrom.scopes = [frame.scopes EXCEPT ![at] = scope]
      BY <1>2, <3>1 DEF Lending, GoodFrame, Frame
    <3> HIDE DEF n, at, scope
    <3>3. frame.moduleScope => at # 1
      BY <3>1 DEF Base
    <3> QED
      BY <3>2, <3>3
  <2> QED
    BY <2>1, <2>2
<1>7. SameTables(Now, s)
  BY <1>1, <1>2, <1>4, <1>5 DEF SameTables, TableIn
<1>8. /\ AllHome(taken.now) /\ Parked(taken.saved)
      /\ taken.now.frame = FreshFrame(EmptyScope, frame.aliases)
      /\ taken.saved = CheckIn(s).frame
  BY <1>1, <1>2, TakenHome DEF TakeCallState
<1>9. /\ SameTables(Now, r)
      /\ NoneLent(Now) /\ CleanScope(params) => NoneLent(r)
  BY <1>1, <1>2, <1>7, CallKeepsTables
<1>10. Sound(r)
  <2> HIDE DEF taken
  <2> QED
    BY <1>1, <1>2, <1>8, ModuleFrameSound, ScriptFrameSound
<1> HIDE DEF r, taken
<1>11. Now' = r
  BY <1>1, <1>10, Becomes DEF Sound
<1>12. /\ act \in Activation /\ act.saved = CheckIn(s).frame
       /\ act.out = sig.out /\ act.lent = lent
  <2>1. sig.out \in SUBSET (Names \X Names)
    BY <1>1, ConstantsAssumption
  <2>2. taken.saved \in Frame /\ functions \in Files
    BY <1>8 DEF Parked, GoodFrame, IInv
  <2> HIDE DEF lent, sig, act
  <2>3. act = [saved |-> taken.saved, out |-> sig.out, lent |-> lent,
               functions |-> functions]
    BY DEF act
  <2>4. /\ act \in Activation /\ act.saved = taken.saved
        /\ act.out = sig.out /\ act.lent = lent
    <3>1. lent \in BOOLEAN
      BY <1>1
    <3> HIDE DEF lent, sig
    <3> QED
      BY <2>1, <2>2, <2>3, <3>1, SuspendedIs
  <2> QED
    BY <1>8, <2>4
<1> HIDE DEF act
<1>13. ASSUME LentInv PROVE Owes(act)
  <2>1. CASE lent
    BY <1>1, <1>2, <1>4, <1>12, <1>13, <2>1, LenderOwes
  <2>2. CASE ~ lent
    <3>1. Clean(s.frame.scopes)
      <4>1. TakenFrom = frame
        BY <2>2 DEF TakenFrom
      <4>2. Clean(frame.scopes)
        BY <1>2, <1>13 DEF LentInv, NoneLent
      <4> QED
        BY <1>4, <4>1, <4>2
    <3>2. \A p, q \in act.out : p = q
      BY <1>1, <1>12, ConstantsAssumption
    <3> QED
      BY <1>1, <1>12, <2>2, <3>1, <3>2, PlainOwes
  <2> QED
    BY <2>1, <2>2
<1>14. ASSUME LentInv, Copies PROVE LentInv'
  <2>1. \A i \in DOMAIN stack' : Owes(stack'[i])
    BY <1>1, <1>12, <1>13, <1>14, PushedOwes
  <2> QED
    BY <1>3, <1>9, <1>11, <1>14, <2>1 DEF LentInv
<1> QED
  BY <1>9, <1>11, <1>14

LEMMA CallLambdaValues ==
  ASSUME IInv, NEW held \in LambdaHolds, NEW v \in Values,
         NEW home \in LambdaHomes, CallLambda(held, v, home)
  PROVE  SameTables(Now, Now') /\ (LentInv => LentInv')
<1> DEFINE taken == TakeCallState(Now, home)
           params == [n \in Names |-> IF n \in held THEN v ELSE Absent]
           act == [saved |-> taken.saved, out |-> {}, lent |-> FALSE,
                   functions |-> functions]
           r == ScriptFrame(taken.now, params)
<1>1. Become(r) /\ stack' = Append(stack, act)
  BY DEF CallLambda
<1>2. params \in Scope /\ CleanScope(params) /\ home \in Files
  BY AnyValues, ConstantsAssumption DEF Scope, CleanScope
<1> HIDE DEF params
<1>3. Sound(Now) /\ SameTables(Now, Now)
  BY DEF IInv, SameTables
<1>4. /\ AllHome(taken.now) /\ Parked(taken.saved)
      /\ taken.now.frame = FreshFrame(EmptyScope, home)
      /\ taken.saved = CheckIn(Now).frame
  BY <1>2, <1>3, TakenHome DEF TakeCallState
<1>5. SameTables(Now, r) /\ (NoneLent(Now) => NoneLent(r))
  BY <1>2, <1>3, CallKeepsTables
<1>6. Sound(r)
  <2> HIDE DEF taken
  <2> QED
    BY <1>2, <1>4, ScriptFrameSound
<1> HIDE DEF r, taken
<1>7. Now' = r
  BY <1>1, <1>6, Becomes DEF Sound
<1>8. /\ act \in Activation /\ act.saved = CheckIn(Now).frame
      /\ act.out = {} /\ ~ act.lent
  BY <1>4 DEF Activation, Parked, GoodFrame, IInv
<1> HIDE DEF act
<1>9. ASSUME LentInv PROVE LentInv'
  <2>1. Clean(Now.frame.scopes)
    BY <1>9 DEF LentInv, NoneLent
  <2>2. Owes(act)
    BY <1>3, <1>8, <2>1, PlainOwes
  <2>3. \A i \in DOMAIN stack' : Owes(stack'[i])
    BY <1>1, <1>8, <1>9, <2>2, PushedOwes
  <2> QED
    BY <1>5, <1>7, <1>9, <2>3 DEF LentInv
<1> QED
  BY <1>5, <1>7, <1>9

-----------------------------------------------------------------------------
(* Coming back.                                                            *)

(* What the caller finds: its own scopes, and its module's table.          *)
LEMMA BackTables ==
  ASSUME IInv, LentInv, stack # <<>>, NEW ending, GoodFrame(ending),
         Own(frame, ending)
  PROVE  LET back == Back(ending)
             saved == CallerOf.saved
         IN  /\ Sound(back) /\ SameTables(Now, back) /\ CleanStore(back.store)
             /\ back.frame.moduleScope = saved.moduleScope
             /\ DOMAIN back.frame.scopes = DOMAIN saved.scopes
             /\ \A i \in DOMAIN saved.scopes :
                  IF saved.moduleScope /\ i = 1
                  THEN CleanScope(back.frame.scopes[i])
                  ELSE back.frame.scopes[i] = saved.scopes[i]
<1> DEFINE s == [Now EXCEPT !.frame = ending]
           in == CheckIn(s)
           waiting == Waiting(ending)
           back == Back(ending)
           saved == CallerOf.saved
<1>1. /\ ending.moduleScope = frame.moduleScope /\ ending.path = frame.path
      /\ ending.moduleScope => ending.scopes[1] = frame.scopes[1]
      /\ Now.frame = frame /\ Now \in State /\ Now.store = store
  BY NowFields DEF Own
<1>2. /\ Sound(s) /\ AllHome(waiting) /\ waiting.frame = saved
      /\ waiting.store = in.store /\ Sound(back)
  BY <1>1, BackSound
<1>3. s.frame = ending /\ s.store = store
  BY <1>1 DEF State
<1> HIDE DEF s
<1>4. SameTables(Now, s)
  BY <1>1, <1>3 DEF SameTables, TableIn
<1>5. NoneLent(s)
  BY <1>1, <1>3 DEF LentInv, NoneLent, Own
<1>6. \A m \in Modules : in.store[m].vars = TableIn(s, m)
  BY <1>2, CheckInTables
<1> HIDE DEF in, saved
<1>7. CleanStore(waiting.store)
  BY <1>2, <1>5, <1>6, TablesClean DEF CleanStore
<1>8. /\ \A m \in Modules : TableIn(back, m) = waiting.store[m].vars
      /\ CleanStore(back.store)
      /\ back.frame.moduleScope = saved.moduleScope
      /\ back.frame.scopes =
           IF saved.moduleScope
           THEN [saved.scopes EXCEPT ![1] = waiting.store[saved.path].vars]
           ELSE saved.scopes
  <2> HIDE DEF waiting
  <2> QED
    BY <1>2, <1>7, CheckOutTables DEF Back, waiting
<1>9. SameTables(Now, back)
  BY <1>2, <1>4, <1>6, <1>8 DEF SameTables
<1>10. saved.moduleScope => saved.path \in Modules
  BY <1>2 DEF AllHome, FrameShape
<1>11. saved.moduleScope => CleanScope(waiting.store[saved.path].vars)
  BY <1>7, <1>10 DEF CleanStore
<1> HIDE DEF waiting, back
<1>12. /\ DOMAIN back.frame.scopes = DOMAIN saved.scopes
       /\ \A i \in DOMAIN saved.scopes :
            IF saved.moduleScope /\ i = 1
            THEN CleanScope(back.frame.scopes[i])
            ELSE back.frame.scopes[i] = saved.scopes[i]
  BY <1>8, <1>11
<1> QED
  BY <1>2, <1>8, <1>9, <1>12 DEF back, saved

(* What a call hands back is a value.                                      *)
LEMMA HandedBack ==
  ASSUME NEW f, GoodFrame(f), Clean(f.scopes), NEW name \in Names
  PROVE  TakeVariable(f, name, Unit) \in Plain
<1>1. f.scopes \in Seq(Scope)
  BY DEF GoodFrame, Frame
<1>2. CASE OwnHolders(f, name) = {}
  BY <1>2, PlainValues DEF TakeVariable
<1>3. CASE OwnHolders(f, name) # {}
  <2>1. InView(f.scopes, name)
    BY <1>3 DEF OwnHolders, InView
  <2>2. /\ ValueOf(f.scopes, name) \in AnyValue
        /\ Innermost(f.scopes, name) \in DOMAIN f.scopes
    BY <1>1, <2>1, ValueOfType, InnermostHolds
  <2>3. ValueOf(f.scopes, name) # Lent
    BY <2>2 DEF ValueOf, Clean, CleanScope
  <2> QED
    BY <1>3, <2>2, <2>3 DEF TakeVariable, AnyValue, Plain
<1> QED
  BY <1>2, <1>3

LEMMA CallerOwes ==
  ASSUME IInv, LentInv, stack # <<>>
  PROVE  Owes(CallerOf) /\ CallerOf \in Activation /\ GoodFrame(CallerOf.saved)
<1>1. Len(stack) \in DOMAIN stack /\ stack \in Seq(Activation)
  <2>1. stack \in Seq(Activation)
    BY DEF IInv
  <2> QED
    BY <2>1, LenProperties, EmptySeq
<1>2. stack[Len(stack)] \in Activation
  BY <1>1, ElementOfSeq
<1> QED
  BY <1>1, <1>2 DEF LentInv, IInv, CallerOf, Parked

(* Nothing was lent, or it has come back.                                  *)
LEMMA ResumedValues ==
  ASSUME IInv, LentInv, stack # <<>>, NEW ending, GoodFrame(ending),
         Own(frame, ending), NEW pairs,
         pairs = CallerOf.out \/ pairs = PairsOnError(CallerOf)
  PROVE  LET r == Resumed(ending, pairs)
         IN  NoneLent(r) /\ (SameTables(Now, r) \/ OneCell(Now, r))
<1> DEFINE act == CallerOf
           saved == act.saved
           back == Back(ending)
           old == saved.scopes
           scopes == back.frame.scopes
<1>1. /\ Owes(act) /\ act.lent \in BOOLEAN /\ act.out \in SUBSET (Names \X Names)
      /\ GoodFrame(saved) /\ saved.scopes \in Seq(Scope)
  BY CallerOwes DEF Activation, GoodFrame, Frame
<1>2. /\ Sound(back) /\ SameTables(Now, back) /\ CleanStore(back.store)
      /\ back.frame.moduleScope = saved.moduleScope
      /\ DOMAIN scopes = DOMAIN old
      /\ \A i \in DOMAIN old :
           IF saved.moduleScope /\ i = 1 THEN CleanScope(scopes[i])
           ELSE scopes[i] = old[i]
  BY BackTables
<1>3. Clean(ending.scopes)
  <2>1. Clean(frame.scopes)
    BY NowFields DEF LentInv, NoneLent
  <2> QED
    BY <2>1 DEF Own
<1>4. pairs = act.out \/ (~ act.lent /\ pairs = {})
  BY DEF PairsOnError
<1> HIDE DEF act, back
<1>5. ASSUME NEW i \in DOMAIN scopes, NEW n \in Names, scopes[i][n] = Lent
      PROVE  /\ act.lent /\ i >= Base(saved) /\ i \in DOMAIN old
             /\ \E pair \in act.out : pair[2] = n
             /\ i = Innermost(old, n)
  <2>1. ~ (saved.moduleScope /\ i = 1) /\ i \in DOMAIN old
    BY <1>2, <1>5 DEF CleanScope
  <2>2. old[i][n] = Lent
    BY <1>2, <1>5, <2>1
  <2> QED
    BY <1>1, <2>1, <2>2 DEF Owes, OnlyPlaceholder
<1>6. CASE pairs = {}
  <2>1. Resumed(ending, pairs) = back
    BY <1>6 DEF Resumed, back, Back, Waiting
  <2>2. ~ act.lent
    BY <1>1, <1>4, <1>6 DEF Owes
  <2>3. Clean(scopes)
    BY <1>5, <2>2 DEF Clean, CleanScope
  <2> QED
    BY <1>2, <2>1, <2>3 DEF NoneLent
<1>7. CASE pairs # {}
  <2> DEFINE pair == CHOOSE p \in pairs : TRUE
             n == pair[2]
             value == TakeVariable(ending, pair[1], Unit)
             r == SetVariable(back, n, value)
  <2>1. Resumed(ending, pairs) = r
    BY <1>7 DEF Resumed, back, Back, Waiting, act
  <2>2. pairs = act.out /\ pair \in act.out
    BY <1>4, <1>7
  <2> HIDE DEF pair
  <2>3. pair[1] \in Names /\ n \in Names
    BY <1>1, <2>2
  <2>4. value \in Plain
    BY <1>3, <2>3, HandedBack
  <2>5. value # Lent
    BY <2>4, PlainValues
  <2> HIDE DEF value, n
  <2>6. Wrote(back, r)
    BY <1>2, <2>3, <2>4, SetVariableWrote
  <2>7. SameTables(Now, r) \/ OneCell(Now, r)
    <3>1. \A m \in Modules : TableIn(back, m) = TableIn(Now, m)
      BY <1>2 DEF SameTables
    <3> HIDE DEF r
    <3>2. SameTables(back, r) => SameTables(Now, r)
      BY <3>1 DEF SameTables
    <3>3. OneCell(back, r) => OneCell(Now, r)
      BY <3>1 DEF OneCell
    <3> QED
      BY <2>6, <3>2, <3>3 DEF Wrote
  <2>8. CASE ~ act.lent
    <3>1. Clean(scopes)
      BY <1>5, <2>8 DEF Clean, CleanScope
    <3> HIDE DEF r
    <3>2. NoneLent(r)
      BY <1>2, <2>6, <3>1 DEF Wrote, NoneLent
    <3> QED
      BY <2>1, <2>7, <3>2
  <2>9. CASE act.lent
    <3> DEFINE k == Innermost(old, n)
    <3>1. InView(old, n) /\ ValueOf(old, n) = Lent
      BY <1>1, <2>2, <2>9 DEF Owes, n
    <3>2. k \in DOMAIN old /\ k \in Nat /\ k \in Holders(old, n)
          /\ \A j \in Holders(old, n) : j <= k
      <4>1. old \in Seq(Scope) /\ DOMAIN old = 1 .. Len(old)
        BY <1>1, LenProperties
      <4> HIDE DEF old, r, scopes
      <4>2. /\ Innermost(old, n) \in 1 .. Len(old)
            /\ old[Innermost(old, n)][n] # Absent
            /\ \A j \in Holders(old, n) : j <= Innermost(old, n)
        BY <2>3, <3>1, <4>1, InnermostHolds
      <4> QED
        BY <4>1, <4>2 DEF Holders
    <3>3. old[k][n] = Lent
      BY <3>1 DEF ValueOf
    <3>4. k >= Base(saved)
      BY <1>1, <2>3, <3>2, <3>3 DEF Owes, OnlyPlaceholder
    <3>5. ~ (saved.moduleScope /\ k = 1) /\ k >= 1
      BY <3>2, <3>4 DEF Base
    <3> HIDE DEF k
    <3>6. k \in Holders(scopes, n)
      BY <1>2, <3>2, <3>5 DEF Holders
    <3>7. Holders(scopes, n) \subseteq Nat
      <4>1. DOMAIN old = 1 .. Len(old)
        BY <1>1, LenProperties
      <4> QED
        BY <1>2, <4>1 DEF Holders
    <3>8. ASSUME NEW j \in Holders(scopes, n) PROVE j <= k
      <4>1. CASE j = 1
        BY <3>2, <3>5, <4>1
      <4>2. CASE j # 1
        <5>1. j \in Holders(old, n)
          BY <1>2, <3>8, <4>2 DEF Holders
        <5> QED
          BY <3>2, <5>1
      <4> QED
        BY <4>1, <4>2
    <3>9. Innermost(scopes, n) = k /\ InView(scopes, n)
      BY <3>6, <3>7, <3>8, InnermostIs
    <3>10. /\ r.store = back.store
           /\ r.frame.scopes = [scopes EXCEPT ![k] = Bind(scopes[k], n, value)]
      <4>1. back \in State /\ back.frame \in Frame
        BY <1>2, SoundFrame
      <4>2. Place(back.frame, back.moduleDead, n) = k
        BY <3>9 DEF Place
      <4> QED
        BY <4>1, <4>2 DEF SetVariable, State, Frame
    <3>11. \A i \in DOMAIN scopes : scopes[i] \in Scope
      <4>1. scopes \in Seq(Scope)
        BY <1>2, SoundFrame
      <4> QED
        BY <4>1, ElementOfSeq, LenProperties
    <3> HIDE DEF r, scopes
    <3>12. ASSUME NEW i \in DOMAIN r.frame.scopes, NEW x \in Names
           PROVE  r.frame.scopes[i][x] # Lent
      <4>1. i \in DOMAIN scopes
        BY <3>10
      <4>2. r.frame.scopes[i] = IF i = k THEN Bind(scopes[i], n, value)
                                ELSE scopes[i]
        BY <3>10, <4>1
      <4>3. Bind(scopes[i], n, value)[x] = IF x = n THEN value ELSE scopes[i][x]
        BY <3>11, <4>1 DEF Bind, Scope
      <4>4. scopes[i][x] = Lent => i = k /\ x = n
        <5> SUFFICES ASSUME scopes[i][x] = Lent PROVE i = k /\ x = n
          OBVIOUS
        <5>1. (\E p \in act.out : p[2] = x) /\ i = Innermost(old, x)
          BY <1>5, <4>1
        <5>2. \A p, q \in act.out : p = q
          BY <1>1 DEF Owes
        <5>3. x = n
          BY <2>2, <5>1, <5>2 DEF n
        <5> QED
          BY <5>1, <5>3 DEF k
      <4> QED
        BY <2>5, <4>2, <4>3, <4>4
    <3>13. NoneLent(r)
      BY <1>2, <3>10, <3>12 DEF NoneLent, Clean, CleanScope
    <3> QED
      BY <2>1, <2>7, <3>13
  <2> QED
    BY <2>8, <2>9
<1> QED
  BY <1>6, <1>7

-----------------------------------------------------------------------------
(* Every step.                                                             *)

LEMMA ReturnedValues ==
  ASSUME IInv, LentInv, stack # <<>>, NEW ending, GoodFrame(ending),
         Own(frame, ending), NEW pairs,
         pairs = CallerOf.out \/ pairs = PairsOnError(CallerOf),
         Become(Resumed(ending, pairs)),
         stack' = SubSeq(stack, 1, Len(stack) - 1)
  PROVE  LentInv' /\ (SameTables(Now, Now') \/ OneCell(Now, Now'))
<1> DEFINE r == Resumed(ending, pairs)
<1>1. NoneLent(r) /\ (SameTables(Now, r) \/ OneCell(Now, r))
  BY ResumedValues
<1>2. r \in State
  <2>1. pairs \in SUBSET (Names \X Names)
    BY CallerOwes DEF Activation, PairsOnError
  <2>2. Sound(r)
    BY <2>1, ResumedSound DEF Own
  <2> QED
    BY <2>2, SoundFrame
<1>3. Now' = r
  <2>1. Become(r)
    OBVIOUS
  <2> HIDE DEF r
  <2> QED
    BY <1>2, <2>1, Becomes
<1>4. \A i \in DOMAIN stack' : Owes(stack'[i])
  BY StackPopped DEF LentInv
<1> QED
  BY <1>1, <1>3, <1>4 DEF LentInv

LEMMA NextValues ==
  ASSUME IInv, Promises, Copies, LentInv, [Next]_vars
  PROVE  LentInv' /\ (SameTables(Now, Now') \/ OneCell(Now, Now'))
<1>1. ASSUME Wrote(Now, Now'), stack' = stack
      PROVE  LentInv' /\ (SameTables(Now, Now') \/ OneCell(Now, Now'))
  BY <1>1 DEF LentInv, Wrote
<1>2. ASSUME Now' = Now, stack' = stack
      PROVE  LentInv' /\ (SameTables(Now, Now') \/ OneCell(Now, Now'))
  BY <1>2 DEF LentInv, SameTables
<1>3. CASE Statements
  BY <1>1, <1>3, StatementsWrite
<1>4. CASE Constructs
  BY <1>1, <1>4, ConstructsWrite
<1>5. CASE Errors /\ ~ FailCall
  BY <1>1, <1>5, ErrorsWrite
<1>6. CASE FailCall
  <2>1. Own(frame, frame) /\ GoodFrame(frame)
    BY NowFields, OwnSame
  <2> QED
    BY <1>6, <2>1, ReturnedValues DEF FailCall
<1>7. CASE Return
  <2> DEFINE ending == EndedFrame(frame)
  <2>1. GoodFrame(ending) /\ Own(frame, ending)
    BY NowFields, EndedGood, OwnEnded
  <2>2. /\ stack # <<>> /\ Become(Resumed(ending, CallerOf.out))
        /\ stack' = SubSeq(stack, 1, Len(stack) - 1)
    BY <1>7 DEF Return, EndedFrame
  <2> HIDE DEF ending
  <2> QED
    BY <2>1, <2>2, ReturnedValues
<1>8. ASSUME NEW args \in [Names -> Values], CallFunction(args)
      PROVE  LentInv' /\ (SameTables(Now, Now') \/ OneCell(Now, Now'))
  BY <1>8, CallFunctionValues
<1>9. ASSUME NEW held \in LambdaHolds, NEW v \in Values,
             NEW home \in LambdaHomes, CallLambda(held, v, home)
      PROVE  LentInv' /\ (SameTables(Now, Now') \/ OneCell(Now, Now'))
  BY <1>9, CallLambdaValues
<1>10. CASE CallRefused \/ Stop \/ UNCHANGED vars
  BY <1>2, <1>10 DEF CallRefused, Raising, Stop, vars, Now
<1>11. ASSUME NEW callee \in Files, NEW alias \in BOOLEAN,
              NEW sig \in Signatures, BeginCall(callee, alias, sig)
       PROVE  LentInv' /\ (SameTables(Now, Now') \/ OneCell(Now, Now'))
  BY <1>2, <1>11 DEF BeginCall, Now
<1>12. CASE CopyArgument \/ AbandonCall
  BY <1>2, <1>12 DEF CopyArgument, AbandonCall, Now
<1> QED
  BY <1>3, <1>4, <1>5, <1>6, <1>7, <1>8, <1>9, <1>10, <1>11, <1>12
     DEF Next, Calls

(* The copies of what is not lent.                                         *)
LEMMA NextCopies ==
  ASSUME IInv, LentInv, Copies, [Next]_vars
  PROVE  Copies'
<1>1. ASSUME pending' = pending PROVE Copies'
  BY <1>1 DEF Copies
<1>2. ASSUME InArgument, pending' = PendingPopped PROVE Copies'
  BY <1>2, AwaitedTyped DEF Copies
<1>3. CASE CopyArgument
  <2>1. PICK name \in OutArgument(Awaited.sig) :
          /\ Readable(frame, moduleDead, name)
          /\ pending' = [pending EXCEPT ![Len(pending)].copy =
                           ValueOf(frame.scopes, name)]
    BY <1>3 DEF CopyArgument
  <2>2. name \in Names
    <3>1. Awaited.sig \in Signatures
      BY <1>3, AwaitedTyped DEF CopyArgument, GoodCalls, PendingCall
    <3> QED
      BY <3>1, ConstantsAssumption DEF OutArgument
  <2> DEFINE value == ValueOf(frame.scopes, name)
  <2>3. value # Lent
    BY <2>1, <2>2, ReadClean DEF Readable
  <2> HIDE DEF value
  <2>4. ASSUME NEW k \in DOMAIN pending' PROVE pending'[k].copy # Lent
    <3>1. k \in DOMAIN pending
      BY <2>1
    <3>2. PICK c \in GoodCalls : c = pending[k]
      BY <3>1, PendingTypes
    <3>3. pending'[k] = c \/ pending'[k] = [c EXCEPT !.copy = value]
      BY <2>1, <3>1, <3>2 DEF value
    <3>4. [c EXCEPT !.copy = value].copy = value
      BY DEF GoodCalls, PendingCall
    <3>5. c.copy # Lent
      BY <3>1, <3>2 DEF Copies
    <3> QED
      BY <2>3, <3>3, <3>4, <3>5
  <2> QED
    BY <2>4 DEF Copies
<1>4. ASSUME NEW callee \in Files, NEW alias \in BOOLEAN, NEW sig \in Signatures,
             BeginCall(callee, alias, sig)
      PROVE  Copies'
  <2>1. Begins(callee, alias, sig).copy # Lent
    BY ConstantsAssumption DEF Begins
  <2>2. /\ DOMAIN pending' = 1 .. Len(pending) + 1 /\ Len(pending) \in Nat
        /\ \A k \in 1 .. Len(pending) :
             pending'[k] = pending[k] /\ k \in DOMAIN pending
        /\ pending'[Len(pending) + 1] = Begins(callee, alias, sig)
    BY <1>4, BeginCallIs
  <2>3. ASSUME NEW k \in DOMAIN pending' PROVE pending'[k].copy # Lent
    <3>1. k \in 1 .. Len(pending) \/ k = Len(pending) + 1
      BY <2>2
    <3> QED
      BY <2>1, <2>2, <3>1 DEF Copies
  <2> QED
    BY <2>3 DEF Copies
<1>5. ASSUME NEW args \in [Names -> Values], CallFunction(args) PROVE Copies'
  BY <1>2, <1>5 DEF CallFunction
<1>6. CASE AbandonCall \/ UnwindCall
  BY <1>2, <1>6 DEF AbandonCall, UnwindCall
<1>7. CASE Statements
  BY <1>1, <1>7 DEF Statements, Assign, AssignHot, AssignHotFails, EndVariable,
                    Raise, Raising
<1>8. CASE Constructs
  BY <1>1, <1>8 DEF Constructs, EnterBlock, EnterLoop, EnterTry,
                    EnterLambdaExpr, LeaveConstruct, LeaveLambdaExpr
<1>9. CASE UnwindConstruct \/ PassTry \/ FailCall \/ \E v \in Values : Catch(v)
  BY <1>1, <1>9 DEF UnwindConstruct, PassTry, FailCall, Catch
<1>10. CASE CallRefused \/ Return \/ Stop \/ UNCHANGED vars
  BY <1>1, <1>10 DEF CallRefused, Raising, Return, Stop, vars
<1>11. ASSUME NEW held, NEW v, NEW home, CallLambda(held, v, home)
       PROVE  Copies'
  BY <1>1, <1>11 DEF CallLambda
<1> QED
  BY <1>3, <1>4, <1>5, <1>6, <1>7, <1>8, <1>9, <1>10, <1>11
     DEF Next, Calls, Errors

LEMMA InitValues == Init => LentInv /\ Copies
<1> SUFFICES ASSUME Init PROVE LentInv /\ Copies
  OBVIOUS
<1> DEFINE one == <<EmptyScope>>
<1>1. one[1] = EmptyScope /\ DOMAIN one = {1}
  OBVIOUS
<1> HIDE DEF one
<1>2. frame.scopes = one /\ stack = <<>>
  BY DEF Init, FreshFrame, one
<1>3. Clean(frame.scopes)
  BY <1>1, <1>2, CleanScopes DEF Clean
<1>4. ASSUME NEW m \in Modules, NEW n \in Names
      PROVE  store[m].vars[n] \in {Initial, Absent}
  BY <1>4 DEF Init
<1>5. CleanStore(store)
  BY <1>4, PlainValues DEF CleanStore, CleanScope
<1>6. pending = <<>> /\ DOMAIN <<>> = {}
  BY EmptySeq DEF Init
<1> QED
  BY <1>2, <1>3, <1>5, <1>6, NowFields DEF LentInv, NoneLent, Copies

(* Where every value is, now and in what a waiting call was promised.      *)
ValuesInv == LentInv /\ Copies /\ Promises

LEMMA ValuesAlways ==
  ASSUME ~ ArgumentsEnd
  PROVE  Spec => [](IInv /\ ValuesInv)
<1>1. Init => IInv /\ ValuesInv
  BY InitIInv, InitValues, InitPromises DEF ValuesInv
<1>2. IInv /\ MarkInv /\ ValuesInv /\ [Next]_vars => ValuesInv'
  BY NextIInv, NextValues, NextCopies, NextPromises DEF ValuesInv
<1> QED
  BY <1>1, <1>2, Invariant, MarkAlways, PTL DEF Spec

(***************************************************************************)
(* A variable that is lent to an output parameter is in one place: no code *)
(* ever runs with its placeholder in view, and the suspended call that     *)
(* lent it holds the placeholder where the value comes back (GLB-117).     *)
(* Between deciding what a call lends and taking it, its other arguments   *)
(* run: any calls, failures, assignments and ended variables, but for a    *)
(* `\` of the very variable the call lends.                                *)
(***************************************************************************)
THEOREM LentOnceHolds ==
  ASSUME ~ ArgumentsEnd
  PROVE  Spec => []LentOnce
<1>1. IInv /\ ValuesInv => LentOnce
  <2> SUFFICES ASSUME IInv, LentInv PROVE LentOnce
    BY DEF ValuesInv
  <2>1. \A i \in DOMAIN frame.scopes, n \in Names : frame.scopes[i][n] # Lent
    BY NowFields DEF LentInv, NoneLent, Clean, CleanScope
  <2>2. ASSUME NEW i \in DOMAIN stack, stack[i].lent, NEW pair \in stack[i].out
        PROVE  /\ InView(stack[i].saved.scopes, pair[2])
               /\ ValueOf(stack[i].saved.scopes, pair[2]) = Lent
    <3>1. Owes(stack[i])
      BY DEF LentInv
    <3> QED
      BY <2>2, <3>1 DEF Owes
  <2> QED
    BY <2>1, <2>2 DEF LentOnce
<1> QED
  BY <1>1, ValuesAlways, PTL

-----------------------------------------------------------------------------
(* The store of modules.                                                   *)

CellsOf(s) == [m \in Modules |-> [n \in Declared[m] |-> TableIn(s, m)[n]]]

LEMMA CellsAre == Cells = CellsOf(Now)
<1>1. \A m \in Modules : TableOf(m).vars = TableIn(Now, m)
  BY NowFields DEF TableOf, TableIn, RunningIn
<1>2. \A m \in Modules : \A n \in Declared[m] :
        CellOf(m, n) = TableIn(Now, m)[n]
  BY <1>1 DEF CellOf
<1> QED
  BY <1>1, <1>2 DEF Cells, CellsOf

LEMMA TableTypes ==
  ASSUME NEW s, Sound(s), NEW m \in Modules
  PROVE  TableIn(s, m) \in Scope
<1>1. s.store[m].vars \in Scope
  BY SoundFrame DEF State, Table
<1>2. s.frame.scopes[1] \in Scope
  BY SoundFrame, ElementOfSeq
<1> QED
  BY <1>1, <1>2 DEF TableIn

(* The cells after a step, by how it moved the tables.                     *)
LEMMA CellsStep ==
  ASSUME Sound(Now), SameTables(Now, Now') \/ OneCell(Now, Now')
  PROVE  \/ Cells' = Cells
         \/ /\ frame'.moduleScope /\ frame'.path \in Modules
            /\ \E n \in Declared[frame'.path], v \in Plain :
                 Cells' = [Cells EXCEPT ![frame'.path][n] = v]
<1>1. Cells = CellsOf(Now) /\ Cells' = CellsOf(Now')
  <2>1. (Cells = CellsOf(Now))'
    BY CellsAre, PTL
  <2> QED
    BY <2>1, CellsAre
<1>2. Now'.frame = frame'
  BY DEF Now
<1>3. CASE SameTables(Now, Now')
  BY <1>1, <1>3 DEF SameTables, CellsOf
<1>4. CASE OneCell(Now, Now')
  <2> DEFINE k == frame'.path
  <2>1. frame'.moduleScope /\ k \in Modules
    BY <1>2, <1>4 DEF OneCell
  <2>2. PICK n \in Declared[k], v \in Plain :
          \A m \in Modules :
            TableIn(Now', m) = IF m = k THEN Bind(TableIn(Now, m), n, v)
                               ELSE TableIn(Now, m)
    BY <1>2, <1>4 DEF OneCell
  <2> HIDE DEF k
  <2>3. \A m \in Modules : TableIn(Now, m) \in Scope
    BY TableTypes
  <2>4. n \in Names /\ \A m \in Modules : Declared[m] \subseteq Names
    BY <2>1, ConstantsAssumption
  <2>5. ASSUME NEW m \in Modules, NEW x \in Declared[m]
        PROVE  TableIn(Now', m)[x] =
                 IF m = k /\ x = n THEN v ELSE TableIn(Now, m)[x]
    <3>1. x \in Names
      BY <2>4
    <3> QED
      BY <2>2, <2>3, <3>1 DEF Bind, Scope
  <2>6. Cells' = [Cells EXCEPT ![k][n] = v]
    <3> DEFINE old == [m \in Modules |->
                         [x \in Declared[m] |-> TableIn(Now, m)[x]]]
               new == [m \in Modules |->
                         [x \in Declared[m] |-> TableIn(Now', m)[x]]]
    <3>1. ASSUME NEW m \in Modules
          PROVE  new[m] = [old EXCEPT ![k][n] = v][m]
      <4>1. CASE m = k
        <5>1. [old EXCEPT ![k][n] = v][m] = [old[m] EXCEPT ![n] = v]
          BY <4>1
        <5>2. [old[m] EXCEPT ![n] = v] =
                [x \in Declared[m] |-> IF x = n THEN v ELSE TableIn(Now, m)[x]]
          OBVIOUS
        <5> QED
          BY <2>5, <4>1, <5>1, <5>2
      <4>2. CASE m # k
        BY <2>5, <4>2
      <4> QED
        BY <4>1, <4>2
    <3>2. new = [old EXCEPT ![k][n] = v]
      <4>1. DOMAIN new = Modules /\ DOMAIN [old EXCEPT ![k][n] = v] = Modules
        OBVIOUS
      <4>2. new = [m \in Modules |-> new[m]]
        OBVIOUS
      <4>3. [old EXCEPT ![k][n] = v] =
              [m \in Modules |-> [old EXCEPT ![k][n] = v][m]]
        OBVIOUS
      <4> HIDE DEF new, old
      <4> QED
        BY <3>1, <4>2, <4>3
    <3> QED
      BY <1>1, <3>2 DEF CellsOf
  <2> QED
    BY <2>1, <2>6 DEF k
<1> QED
  BY <1>3, <1>4

(***************************************************************************)
(* The interpreter implements the store of module states: whatever is      *)
(* called, lent, ended or raised, each variable of a module is one cell    *)
(* that only the module's own code changes, one at a time.                 *)
(***************************************************************************)
THEOREM ModuleStoreImplemented ==
  ASSUME ~ ArgumentsEnd
  PROVE  Spec => ImplementsModuleStore
<1>1. Init => Abstract!Init
  <2> SUFFICES ASSUME Init PROVE Abstract!Init
    OBVIOUS
  <2>1. ~ frame.moduleScope
    BY DEF Init, FreshFrame
  <2>2. \A m \in Modules : \A n \in Declared[m] :
          TableIn(Now, m)[n] = Initial
    <3> SUFFICES ASSUME NEW m \in Modules, NEW n \in Declared[m]
                 PROVE  TableIn(Now, m)[n] = Initial
      OBVIOUS
    <3>1. n \in Names
      BY ConstantsAssumption
    <3>2. store[m].vars[n] = Initial
      BY <3>1 DEF Init
    <3> QED
      BY <2>1, <3>2, NowFields DEF TableIn
  <2>3. Cells = [m \in Modules |-> [n \in Declared[m] |-> Initial]]
    BY <2>2, CellsAre DEF CellsOf
  <2> QED
    BY <2>1, <2>3 DEF Abstract!Init
<1>2. IInv /\ ValuesInv /\ [Next]_vars /\ (IInv /\ ValuesInv)'
        => [Abstract!Next]_(Abstract!storeVars)
  <2> SUFFICES ASSUME IInv, ValuesInv, [Next]_vars, IInv'
               PROVE  Abstract!Next
    OBVIOUS
  <2> DEFINE code == IF frame'.moduleScope THEN frame'.path ELSE Script
  <2>1. code \in Modules \cup {Script}
    BY DEF IInv, Sound, FrameShape, Now
  <2>2. \/ Cells' = Cells
        \/ /\ frame'.moduleScope /\ frame'.path \in Modules
           /\ \E n \in Declared[frame'.path], v \in Plain :
                Cells' = [Cells EXCEPT ![frame'.path][n] = v]
    BY CellsStep, NextValues DEF IInv, ValuesInv
  <2>3. CASE Cells' = Cells
    <3>1. Abstract!Pass(code)
      BY <2>3 DEF Abstract!Pass
    <3> QED
      BY <2>1, <3>1 DEF Abstract!Next
  <2>4. ASSUME frame'.moduleScope, NEW n \in Declared[frame'.path],
               NEW v \in Plain, frame'.path \in Modules,
               Cells' = [Cells EXCEPT ![frame'.path][n] = v]
        PROVE  Abstract!Next
    <3>1. Abstract!Write(frame'.path, n, v)
      BY <2>4 DEF Abstract!Write
    <3>2. v \in Abstract!CellValues
      BY DEF Abstract!CellValues, Plain
    <3> QED
      BY <2>4, <3>1, <3>2 DEF Abstract!Next
  <2> QED
    BY <2>2, <2>3, <2>4
<1> QED
  BY <1>1, <1>2, ValuesAlways, PTL
     DEF Spec, ImplementsModuleStore, Abstract!Spec

-----------------------------------------------------------------------------
(* Ended names.                                                            *)

(* An assignment to a name that a `\` took from an open scope.             *)
LEMMA RevivedInPlace ==
  ASSUME NEW s, Sound(s), NEW n \in Names, NEW value \in Plain,
         value # Absent, s.frame.dead[n] \in DOMAIN s.frame.scopes
  PROVE  LET at == IF InView(s.frame.scopes, n)
                   THEN Innermost(s.frame.scopes, n) ELSE s.frame.dead[n]
         IN  SetVariable(s, n, value).frame.scopes[at][n] # Absent
<1> DEFINE f == s.frame
           t == SetVariable(s, n, value).frame
           at == IF InView(f.scopes, n) THEN Innermost(f.scopes, n)
                 ELSE f.dead[n]
<1>1. s \in State /\ f \in Frame /\ f.scopes \in Seq(Scope)
  BY SoundFrame
<1>2. at = Place(f, s.moduleDead, n)
  BY DEF Place
<1>3. t.scopes = [f.scopes EXCEPT ![at] = Bind(f.scopes[at], n, value)]
  BY <1>1, <1>2 DEF SetVariable, State, Frame
<1>4. at \in DOMAIN f.scopes /\ f.scopes[at] \in Scope
  <2>1. DOMAIN f.scopes = 1 .. Len(f.scopes)
    BY <1>1, LenProperties
  <2>2. at \in 1 .. Len(f.scopes)
    BY <1>1, <2>1, InnermostHolds
  <2> QED
    BY <1>1, <2>1, <2>2, ElementOfSeq
<1> HIDE DEF f, t, at
<1>5. t.scopes[at] = Bind(f.scopes[at], n, value)
  BY <1>3, <1>4
<1>6. t.scopes[at][n] = value
  BY <1>4, <1>5 DEF Bind, Scope
<1> QED
  BY <1>6 DEF f, t, at

(* What a write, a `\` and a `}` leave of the places of ended names.        *)
LEMMA DeadAfter ==
  ASSUME NEW s, Sound(s), NEW name \in Names, NEW value, NEW n \in Names,
         n # name
  PROVE  /\ SetVariable(s, name, value).frame.dead[n] = s.frame.dead[n]
         /\ Destroy(s, name).frame.dead[n] = s.frame.dead[n]
<1>1. s \in State /\ s.frame \in Frame
  BY SoundFrame
<1> QED
  BY <1>1 DEF SetVariable, Destroy, State, Frame

LEMMA DeadAfterClosing ==
  ASSUME NEW f, GoodFrame(f), NEW d \in Nat, NEW aliases \in Files,
         NEW n \in Names, f.dead[n] \in DOMAIN ClosedFrame(f, d, aliases).scopes
  PROVE  ClosedFrame(f, d, aliases).dead[n] = f.dead[n]
<1> DEFINE g == ClosedFrame(f, d, aliases)
<1>1. f \in Frame /\ f.scopes \in Seq(Scope) /\ f.dead[n] \in Nat
      /\ Len(f.scopes) \in Nat
  BY LenProperties DEF GoodFrame, Frame
<1>2. CASE Len(f.scopes) <= d
  BY <1>1, <1>2 DEF ClosedFrame, PopTo, Frame
<1>3. CASE ~ (Len(f.scopes) <= d)
  <2>1. /\ g.scopes = SubSeq(f.scopes, 1, d)
        /\ g.dead[n] = IF f.dead[n] <= d THEN f.dead[n] ELSE 0
    BY <1>1, <1>3 DEF ClosedFrame, PopTo, Frame
  <2> DEFINE t == SubSeq(f.scopes, 1, d)
  <2>2. DOMAIN t \subseteq 1 .. d
    BY <1>1, <1>3
  <2> HIDE DEF t, g
  <2>3. f.dead[n] <= d
    BY <1>1, <2>1, <2>2 DEF t, g
  <2> QED
    BY <2>1, <2>3 DEF g
<1> QED
  BY <1>2, <1>3

LEMMA EndedStep ==
  ASSUME IInv, [Next]_vars, NEW n \in Names, mode = "run", stack' = stack,
         Len(frame'.scopes) <= Len(frame.scopes),
         frame.dead[n] \in DOMAIN frame'.scopes,
         ~ InView(frame.scopes, n), frame'.dead[n] = 0
  PROVE  \E at \in {frame.dead[n], NearestLoop(frame),
                    AboveNearestLoop(frame)} : frame'.scopes[at][n] # Absent
<1> DEFINE Place3 == {frame.dead[n], NearestLoop(frame),
                      AboveNearestLoop(frame)}
           Goal == \E at \in Place3 : frame'.scopes[at][n] # Absent
<1>1. /\ GoodFrame(frame) /\ Sound(Now) /\ Now \in State
      /\ Now.frame = frame /\ Now.moduleDead = moduleDead
      /\ frame \in Frame /\ frame.scopes \in Seq(Scope)
      /\ Len(frame.scopes) \in Nat /\ DOMAIN frame.scopes = 1 .. Len(frame.scopes)
      /\ frame.aliases \in Files
  BY NowFields, LenProperties DEF IInv, GoodFrame, Frame
<1>2. IInv' /\ GoodFrame(frame')
  <2>1. IInv'
    BY NextIInv
  <2> QED
    BY <2>1 DEF IInv, Sound, State, Now, GoodFrame
<1>3. /\ frame'.scopes \in Seq(Scope) /\ Len(frame'.scopes) \in Nat
      /\ DOMAIN frame'.scopes = 1 .. Len(frame'.scopes)
  BY <1>2, LenProperties DEF GoodFrame, Frame
<1>4. frame.dead[n] # 0 /\ frame.dead[n] \in DOMAIN frame.scopes
  BY <1>1, <1>3
<1>5. frame'.dead[n] # frame.dead[n]
  BY <1>4
<1>6. ASSUME NEW name \in Names, NEW v \in Values, Assign(name, v) PROVE Goal
  <2>1. Become(SetVariable(Now, name, v))
    BY <1>6 DEF Assign
  <2>2. frame' = SetVariable(Now, name, v).frame
    BY <2>1 DEF Become
  <2>3. name = n
    BY <1>1, <1>5, <2>2, DeadAfter
  <2>4. v \in Plain /\ v # Absent
    BY PlainValues, ConstantsAssumption
  <2>5. frame'.scopes[frame.dead[n]][n] # Absent
    BY <1>1, <1>4, <2>2, <2>3, <2>4, RevivedInPlace
  <2> QED
    BY <2>5
<1>7. ASSUME NEW name \in Names, NEW v \in Values, NEW above \in BOOLEAN,
             AssignHot(name, v, above)
      PROVE  Goal
  <2> DEFINE at == IF above THEN AboveNearestLoop(frame)
                   ELSE NearestLoop(frame)
             placed == IF InView(frame.scopes, name) THEN frame
                       ELSE SetAt(frame, at, name, Initial)
             s == [Now EXCEPT !.frame = placed]
  <2>1. Become(SetVariable(s, name, v))
    BY <1>7 DEF AssignHot
  <2>2. frame' = SetVariable(s, name, v).frame
    BY <2>1 DEF Become
  <2>3. at \in Nat /\ at >= Base(frame) /\ at \in Place3
    BY <1>1, LoopPlaces
  <2> HIDE DEF at, Place3
  <2>4. /\ GoodFrame(placed)
        /\ placed.moduleScope = frame.moduleScope /\ placed.path = frame.path
        /\ placed.moduleScope => placed.scopes[1] = frame.scopes[1]
        /\ placed.dead = frame.dead
    <3>1. CASE InView(frame.scopes, name)
      BY <1>1, <3>1
    <3>2. CASE ~ InView(frame.scopes, name)
      <4>1. SetAt(frame, at, name, Initial).dead = frame.dead
        BY <1>1 DEF SetAt, Frame
      <4> QED
        BY <1>1, <2>3, <3>2, <4>1, AnyValues, SetAtFrame
    <3> QED
      BY <3>1, <3>2
  <2>5. ~ InView(frame.scopes, name) =>
          placed.scopes = [frame.scopes EXCEPT
                             ![at] = Bind(frame.scopes[at], name, Initial)]
    BY <1>1 DEF SetAt, Frame
  <2> HIDE DEF placed
  <2>6. Sound(s) /\ s.frame = placed
    BY <1>1, <2>4, OwnChange
  <2> HIDE DEF s
  <2>7. name = n
    BY <1>5, <2>2, <2>4, <2>6, DeadAfter
  <2>8. DOMAIN placed.scopes = DOMAIN frame.scopes
    BY <1>1, <2>5, <2>7
  <2>9. v \in Plain /\ v # Absent
    BY PlainValues, ConstantsAssumption
  <2> DEFINE here == IF InView(placed.scopes, n)
                     THEN Innermost(placed.scopes, n) ELSE placed.dead[n]
  <2>10. frame'.scopes[here][n] # Absent
    BY <1>4, <2>2, <2>4, <2>6, <2>7, <2>8, <2>9, RevivedInPlace
  <2>11. here \in Place3
    <3>1. CASE at \in DOMAIN frame.scopes
      <4>1. /\ at \in Holders(placed.scopes, n)
            /\ \A j \in Holders(placed.scopes, n) : j = at
        <5>1. \A i \in DOMAIN frame.scopes :
                /\ frame.scopes[i] \in Scope
                /\ placed.scopes[i] = IF i = at
                                      THEN Bind(frame.scopes[i], n, Initial)
                                      ELSE frame.scopes[i]
          BY <1>1, <2>5, <2>7, ElementOfSeq
        <5>2. \A i \in DOMAIN frame.scopes : frame.scopes[i][n] = Absent
          BY DEF InView, Holders
        <5>3. Bind(frame.scopes[at], n, Initial)[n] = Initial
          BY <3>1, <5>1 DEF Bind, Scope
        <5>4. Initial # Absent
          BY ConstantsAssumption
        <5> QED
          BY <2>8, <3>1, <5>1, <5>2, <5>3, <5>4 DEF Holders
      <4>2. Innermost(placed.scopes, n) = at /\ InView(placed.scopes, n)
        <5>1. Holders(placed.scopes, n) \subseteq Nat
          BY <2>3, <4>1
        <5>2. \A j \in Holders(placed.scopes, n) : j <= at
          BY <2>3, <4>1
        <5> QED
          BY <4>1, <5>1, <5>2, InnermostIs
      <4> QED
        BY <2>3, <4>2
    <3>2. CASE at \notin DOMAIN frame.scopes
      <4>1. placed.scopes = frame.scopes
        BY <1>1, <2>5, <2>7, <3>2
      <4> QED
        BY <2>4, <4>1 DEF Place3
    <3> QED
      BY <3>1, <3>2
  <2> QED
    BY <2>10, <2>11
<1>8. ASSUME NEW name \in Names, NEW above \in BOOLEAN,
             AssignHotFails(name, above)
      PROVE  Goal
  <2>1. frame'.dead = frame.dead
    BY <1>1, <1>8 DEF AssignHotFails, SetAt, Frame
  <2> QED
    BY <1>5, <2>1
<1>9. ASSUME NEW name \in Names, EndVariable(name) PROVE Goal
  <2>1. CASE InView(frame.scopes, name)
    <3>1. frame' = Destroy(Now, name).frame
      BY <1>9, <2>1 DEF EndVariable, Become
    <3>2. name # n
      BY <2>1
    <3> QED
      BY <1>1, <1>5, <3>1, <3>2, DeadAfter
  <2>2. CASE ~ InView(frame.scopes, name)
    BY <1>5, <1>9, <2>2 DEF EndVariable, Raising
  <2> QED
    BY <2>1, <2>2
<1>10. ASSUME NEW kind \in Kinds, NEW aliases \in Files,
              frame'.scopes = OpenedFrame(frame, kind, EmptyScope, aliases).scopes
       PROVE  Goal
  <2>1. frame'.scopes = Append(frame.scopes, EmptyScope)
    BY <1>1, <1>10 DEF OpenedFrame, Frame
  <2>2. Len(Append(frame.scopes, EmptyScope)) = Len(frame.scopes) + 1
    BY <1>1, ScopeTypes, AppendProperties
  <2> QED
    BY <1>1, <2>1, <2>2
<1>11. ASSUME NEW d \in Nat, NEW aliases \in Files,
              frame' = ClosedFrame(frame, d, aliases)
       PROVE  Goal
  BY <1>1, <1>5, <1>11, DeadAfterClosing
<1>12. ASSUME NEW param \in LambdaParams, NEW v \in Values,
              NEW home \in LambdaHomes, EnterLambdaExpr(param, v, home)
       PROVE  Goal
  <2> DEFINE h == OpenedFrame(frame, "lambda", EmptyScope, home)
  <2>1. param \in Names /\ home \in Files /\ "lambda" \in Kinds
    BY ConstantsAssumption DEF Kinds
  <2>2. frame' = SetVariableNew(h, param, v)
    BY <1>1, <1>12, <2>1, OpeningIs DEF EnterLambdaExpr
  <2>3. /\ h \in Frame
        /\ h.scopes = OpenedFrame(frame, "lambda", EmptyScope, home).scopes
    BY <1>1, <2>1, ScopeTypes, OpenedGood DEF GoodFrame
  <2>4. h.scopes = Append(frame.scopes, EmptyScope)
    BY <1>1 DEF OpenedFrame, Frame
  <2> HIDE DEF h
  <2>5. DOMAIN frame'.scopes = DOMAIN h.scopes
    BY <2>2, <2>3 DEF SetVariableNew, Frame
  <2>6. /\ h.scopes \in Seq(Scope)
        /\ Len(h.scopes) = Len(frame.scopes) + 1
    BY <1>1, <2>4, ScopeTypes, AppendProperties
  <2>7. Len(frame'.scopes) = Len(h.scopes)
    BY <1>3, <2>5, <2>6, LenProperties
  <2> QED
    BY <1>1, <2>6, <2>7
<1>13. CASE Constructs
  <2>1. CASE EnterBlock
    BY <1>1, <1>10, <2>1, OpeningIs DEF EnterBlock, Kinds
  <2>2. CASE EnterLoop
    <3>1. frame' = OpenedFrame(frame, "loop", EmptyScope, frame.aliases)
      <4>1. frame' = [PushScope(Opening(frame, "loop"), EmptyScope)
                        EXCEPT !.loops = Append(@, Len(frame.scopes) + 1)]
        BY <2>2 DEF EnterLoop
      <4> QED
        BY <1>1, <4>1, OpeningLoopIs
    <3> QED
      BY <1>1, <1>10, <3>1 DEF Kinds
  <2>3. CASE EnterTry
    BY <1>1, <1>10, <2>3, OpeningIs DEF EnterTry, Kinds
  <2>4. CASE LeaveConstruct
    <3>1. /\ frame' = ClosedFrame(frame, OneLess(frame), frame.aliases)
          /\ OneLess(frame) \in Nat
      BY <1>1, <2>4, ClosingIs DEF LeaveConstruct, Top
    <3> QED
      BY <1>1, <1>11, <3>1
  <2>5. CASE LeaveLambdaExpr
    <3>1. frame.nest # <<>> /\ Top.kind = "lambda"
      BY <2>5 DEF LeaveLambdaExpr, Inside, Top
    <3>2. Top.aliases \in Files
      BY <1>1, <3>1, InnermostConstruct DEF Top, Construct
    <3>3. /\ frame' = ClosedFrame(frame, OneLess(frame), Top.aliases)
          /\ OneLess(frame) \in Nat
      BY <1>1, <2>5, <3>1, <3>2, ClosingIs DEF LeaveLambdaExpr, Top
    <3> QED
      BY <1>11, <3>2, <3>3
  <2> QED
    BY <1>12, <1>13, <2>1, <2>2, <2>3, <2>4, <2>5 DEF Constructs
<1>14. CASE Raising \/ Stop \/ UNCHANGED vars
  BY <1>5, <1>14 DEF Raising, Stop, vars
<1>15. CASE Statements
  BY <1>6, <1>7, <1>8, <1>9, <1>14, <1>15 DEF Statements, Raise
<1>16. CASE Calls
  <2>1. Len(stack) \in Nat /\ stack \in Seq(Activation)
    <3>1. stack \in Seq(Activation)
      BY DEF IInv
    <3> QED
      BY <3>1, LenProperties
  <2>2. ASSUME NEW args \in [Names -> Values], CallFunction(args)
        PROVE  Goal
    <3>1. PICK act : stack' = Append(stack, act)
      BY <2>2 DEF CallFunction
    <3> QED
      BY <2>1, <3>1
  <2>3. ASSUME NEW held \in LambdaHolds, NEW v \in Values,
               NEW home \in LambdaHomes, CallLambda(held, v, home)
        PROVE  Goal
    <3>1. PICK act : stack' = Append(stack, act)
      BY <2>3 DEF CallLambda
    <3> QED
      BY <2>1, <3>1
  <2>4. CASE Return
    <3>1. stack # <<>> /\ stack' = SubSeq(stack, 1, Len(stack) - 1)
      BY <2>4 DEF Return
    <3>2. Len(stack') = Len(stack) - 1
      BY <3>1, StackPopped
    <3> QED
      BY <2>1, <3>2
  <2>5. ASSUME NEW callee \in Files, NEW alias \in BOOLEAN,
               NEW sig \in Signatures, BeginCall(callee, alias, sig)
        PROVE  Goal
    BY <1>5, <2>5 DEF BeginCall
  <2>6. CASE CopyArgument \/ AbandonCall
    BY <1>5, <2>6 DEF CopyArgument, AbandonCall
  <2> QED
    BY <1>14, <1>16, <2>2, <2>3, <2>4, <2>5, <2>6 DEF Calls, CallRefused
<1>17. ~ Errors
  BY DEF Errors, UnwindConstruct, Catch, PassTry, UnwindCall, FailCall
<1> QED
  BY <1>13, <1>14, <1>15, <1>16, <1>17 DEF Next

(***************************************************************************)
(* A name ended by `\` comes back only by an assignment to it, in the      *)
(* scope it was taken from or where a ring asks for it (GLB-147).          *)
(***************************************************************************)
THEOREM EndedKeepsItsPlaceHolds == Spec => EndedKeepsItsPlace
<1>1. IInv /\ [Next]_vars =>
        [\A n \in Names :
           /\ mode = "run" /\ stack' = stack
           /\ Len(frame'.scopes) <= Len(frame.scopes)
           /\ frame.dead[n] \in DOMAIN frame'.scopes
           /\ ~ InView(frame.scopes, n)
           /\ frame'.dead[n] = 0
           => \E at \in {frame.dead[n], NearestLoop(frame),
                         AboveNearestLoop(frame)} :
                frame'.scopes[at][n] # Absent]_vars
  BY EndedStep
<1> QED
  BY <1>1, Invariant, PTL DEF Spec, EndedKeepsItsPlace
=============================================================================
