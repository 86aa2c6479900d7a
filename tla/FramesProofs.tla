---------------------------- MODULE FramesProofs ----------------------------
(***************************************************************************)
(* That a module's variables are in one place (OneTable), whatever calls   *)
(* what and however the calls end.  Which table a statement writes depends *)
(* on where the places a frame remembers point: the marks of its loops,    *)
(* the scopes its ended names came from, the depths its constructs return  *)
(* to.  A good frame is one where none points at the module's table, scope *)
(* 1 of a module frame, and closing the open constructs never closes that  *)
(* scope.  OneTable is not inductive by itself: the inductive invariant    *)
(* IInv adds that the running frame is a good one and that every suspended *)
(* one was parked.                                                         *)
(*                                                                         *)
(* Then, that active_calls is the number of calls that are active          *)
(* (CallsBalanced), and with it the type of every variable of Frames       *)
(* (TypeOK): the counter stays a natural number although the ends of calls *)
(* subtract from it.  The count is spread over the suspended frames - a    *)
(* call adds an activation, an expression lambda a construct inside one -  *)
(* so the invariant carries, for each activation, the count it began with. *)
(*                                                                         *)
(* The first half is what the operators of Scopes and Frames do to a frame *)
(* and to the tables of the modules, the second the steps of Frames.       *)
(***************************************************************************)
EXTENDS Frames, TLAPS, SequenceTheorems, FiniteSetTheorems,
        WellFoundedInduction

(* How many marks of loops were open before construct i of the frame.      *)
MarksBefore(f, i) ==
  IF i = 1 THEN 0
  ELSE f.nest[i - 1].anchors + (IF f.nest[i - 1].kind = "loop" THEN 1 ELSE 0)

(* What a frame remembers is above the module's table.                     *)
FrameShape(f) ==
  /\ f.moduleScope => f.path \in Modules
  /\ Len(f.scopes) >= Base(f) + Len(f.nest)
  /\ \A i \in DOMAIN f.loops : f.loops[i] >= Base(f)
  /\ \A n \in Names : f.dead[n] = 0 \/ f.dead[n] >= Base(f)
  /\ \A i \in DOMAIN f.nest :
       /\ f.nest[i].depth >= Base(f) + i - 1
       /\ f.nest[i].anchors = MarksBefore(f, i)
  /\ Len(f.loops) = MarksBefore(f, Len(f.nest) + 1)

GoodFrame(f) == f \in Frame /\ FrameShape(f)

(* The table of a module has every name it declares, live or ended.        *)
Whole(m, table) ==
  /\ table \in Table
  /\ Held(table.vars) \cup table.dead = Declared[m]
  /\ Held(table.vars) \cap table.dead = {}

State == [store : [Modules -> Table], frame : Frame, moduleDead : SUBSET Names]

(* The store, the running frame and module_dead, as one record.            *)
Sound(s) ==
  /\ s \in State
  /\ FrameShape(s.frame)
  /\ \A m \in Modules :
       IF s.frame.moduleScope /\ s.frame.path = m
       THEN /\ s.store[m] = EmptyTable
            /\ Whole(m, [vars |-> s.frame.scopes[1], dead |-> s.moduleDead])
       ELSE Whole(m, s.store[m])
  /\ ~ s.frame.moduleScope => s.moduleDead = {}

(* Every table is in the store, and the frame is ready to run or to wait.  *)
AllHome(s) ==
  /\ s \in State
  /\ FrameShape(s.frame)
  /\ s.frame.moduleScope => s.frame.scopes[1] = EmptyScope
  /\ \A m \in Modules : Whole(m, s.store[m])
  /\ s.moduleDead = {}

(* A frame that is set aside has an empty scope for the module's table.    *)
Parked(f) ==
  /\ GoodFrame(f)
  /\ f.moduleScope => f.scopes[1] = EmptyScope

GoodActivation(act) == act \in Activation /\ Parked(act.saved)

(* What a call that waits for its arguments lends is one of them.          *)
GoodCalls == {c \in PendingCall : c.lent => OutArgument(c.sig) # {}}

IInv ==
  /\ Sound(Now)
  /\ stack \in Seq(Activation)
  /\ \A i \in DOMAIN stack : Parked(stack[i].saved)
  /\ functions \in Files
  /\ pending \in Seq(GoodCalls)
  /\ activeCalls \in Int
  /\ mode \in {"run", "error", "stopped"}

-----------------------------------------------------------------------------
(* Scopes.                                                                 *)

(* A bounded set of numbers that is not empty has a greatest element.      *)
LEMMA BoundedMax ==
  ASSUME NEW n \in Nat, NEW S \in SUBSET (1 .. n), S # {}
  PROVE  \E i \in S : \A j \in S : j <= i
<1> DEFINE T == {k \in Nat : n - k \in S}
<1>1. T \subseteq Nat /\ T # {}
  <2>1. PICK i \in S : TRUE
    OBVIOUS
  <2>2. n - i \in T
    BY <2>1
  <2> QED
    BY <2>2
<1>2. IsWellFoundedOn(OpToRel(<, Nat), Nat)
  BY NatLessThanWellFounded
<1>3. \E x \in T : \A y \in T : <<y, x>> \notin OpToRel(<, Nat)
  <2> HIDE DEF T
  <2> QED
    BY <1>1, <1>2, WFMin
<1>4. PICK x \in T : \A y \in T : ~ (y < x)
  <2>1. \A x, y \in Nat : <<y, x>> \in OpToRel(<, Nat) <=> y < x
    BY DEF OpToRel
  <2> QED
    BY <1>1, <1>3, <2>1
<1>5. \A j \in S : j <= n - x
  <2> SUFFICES ASSUME NEW j \in S PROVE j <= n - x
    OBVIOUS
  <2>1. n - j \in T
    OBVIOUS
  <2> QED
    BY <2>1, <1>4
<1> QED
  BY <1>4, <1>5

(* The innermost scope that holds a name in view is one of the stack's.    *)
LEMMA InnermostHolds ==
  ASSUME NEW scopes \in Seq(Scope), NEW name \in Names, InView(scopes, name)
  PROVE  /\ Innermost(scopes, name) \in 1 .. Len(scopes)
         /\ scopes[Innermost(scopes, name)][name] # Absent
         /\ \A j \in Holders(scopes, name) : j <= Innermost(scopes, name)
<1>1. /\ Holders(scopes, name) \in SUBSET (1 .. Len(scopes))
      /\ Holders(scopes, name) # {}
      /\ Len(scopes) \in Nat
  BY LenProperties DEF Holders, InView
<1>2. \E i \in Holders(scopes, name) :
        \A j \in Holders(scopes, name) : j <= i
  BY <1>1, BoundedMax
<1>3. /\ Innermost(scopes, name) \in Holders(scopes, name)
      /\ \A j \in Holders(scopes, name) : j <= Innermost(scopes, name)
  BY <1>2 DEF Innermost
<1> QED
  BY <1>1, <1>3 DEF Holders

(* A name in view has a value.                                             *)
LEMMA ValueOfType ==
  ASSUME NEW scopes \in Seq(Scope), NEW name \in Names, InView(scopes, name)
  PROVE  ValueOf(scopes, name) \in AnyValue
<1>1. /\ Innermost(scopes, name) \in 1 .. Len(scopes)
      /\ scopes[Innermost(scopes, name)][name] # Absent
  BY InnermostHolds
<1>2. scopes[Innermost(scopes, name)] \in Scope
  BY <1>1, ElementOfSeq
<1> QED
  BY <1>1, <1>2 DEF ValueOf, Scope

LEMMA ScopeTypes ==
  /\ EmptyScope \in Scope
  /\ \A scope \in Scope, name \in Names :
       /\ Unbind(scope, name) \in Scope
       /\ \A value \in AnyValue : Bind(scope, name, value) \in Scope
BY DEF EmptyScope, Scope, Bind, Unbind

(* Changing scopes and ended names where a frame allows it.                *)
LEMMA FrameWith ==
  ASSUME NEW f, GoodFrame(f),
         NEW scopes \in Seq(Scope), Len(scopes) >= Len(f.scopes),
         NEW dead \in [Names -> Nat],
         \A n \in Names : dead[n] = 0 \/ dead[n] >= Base(f)
  PROVE  GoodFrame([f EXCEPT !.scopes = scopes, !.dead = dead])
<1> DEFINE g == [f EXCEPT !.scopes = scopes, !.dead = dead]
<1>1. /\ g \in Frame
      /\ g.moduleScope = f.moduleScope /\ g.path = f.path
      /\ g.loops = f.loops /\ g.nest = f.nest
      /\ g.scopes = scopes /\ g.dead = dead
  BY DEF GoodFrame, Frame
<1>2. Base(g) = Base(f) /\ \A i : MarksBefore(g, i) = MarksBefore(f, i)
  BY <1>1 DEF Base, MarksBefore
<1>3. Len(f.scopes) \in Nat /\ Len(scopes) \in Nat /\ Len(f.nest) \in Nat
      /\ Base(f) \in Nat
  BY LenProperties DEF GoodFrame, Frame, Base
<1>4. Len(scopes) >= Base(f) + Len(f.nest)
  BY <1>3 DEF GoodFrame, FrameShape
<1> HIDE DEF g
<1>5. FrameShape(g)
  BY <1>1, <1>2, <1>4 DEF GoodFrame, FrameShape
<1> QED
  BY <1>1, <1>5 DEF GoodFrame, g

(* Writing one scope of a stack.                                           *)
LEMMA WriteScope ==
  ASSUME NEW scopes \in Seq(Scope), NEW at, NEW scope \in Scope
  PROVE  /\ [scopes EXCEPT ![at] = scope] \in Seq(Scope)
         /\ Len([scopes EXCEPT ![at] = scope]) = Len(scopes)
         /\ \A i \in 1 .. Len(scopes) :
              [scopes EXCEPT ![at] = scope][i] =
                IF i = at THEN scope ELSE scopes[i]
<1>1. CASE at \in 1 .. Len(scopes)
  BY <1>1, ExceptSeq
<1>2. CASE at \notin 1 .. Len(scopes)
  <2>1. DOMAIN scopes = 1 .. Len(scopes) /\ scopes \in [1 .. Len(scopes) -> Scope]
    BY LenProperties
  <2>2. [scopes EXCEPT ![at] = scope] = scopes
    BY <1>2, <2>1
  <2> QED
    BY <1>2, <2>2
<1> QED
  BY <1>1, <1>2

(* Where an assignment writes: above the module's table, or in it when the *)
(* name is there or was.                                                   *)
LEMMA PlaceInside ==
  ASSUME NEW f, GoodFrame(f), NEW gone \in SUBSET Names,
         ~ f.moduleScope => gone = {}, NEW name \in Names
  PROVE  /\ Place(f, gone, name) \in 1 .. Len(f.scopes)
         /\ \/ /\ Place(f, gone, name) >= Base(f)
               /\ ~ RevivesModule(f, gone, name)
            \/ /\ f.moduleScope
               /\ Place(f, gone, name) = 1
               /\ \/ /\ f.scopes[1][name] # Absent
                     /\ ~ RevivesModule(f, gone, name)
                  \/ RevivesModule(f, gone, name)
<1>1. /\ f.scopes \in Seq(Scope) /\ Len(f.scopes) \in Nat
      /\ DOMAIN f.scopes = 1 .. Len(f.scopes)
      /\ f.dead[name] \in Nat /\ Len(f.nest) \in Nat
      /\ Base(f) \in Nat
      /\ f.moduleScope => Base(f) = 2
      /\ ~ f.moduleScope => Base(f) = 1
  BY LenProperties DEF GoodFrame, Frame, Base
<1>2. /\ Len(f.scopes) >= Base(f)
      /\ f.dead[name] = 0 \/ f.dead[name] >= Base(f)
  BY <1>1 DEF GoodFrame, FrameShape
<1>3. CASE InView(f.scopes, name)
  <2> DEFINE i == Innermost(f.scopes, name)
  <2>1. Place(f, gone, name) = i /\ ~ RevivesModule(f, gone, name)
    BY <1>3 DEF Place, RevivesModule
  <2>2. i \in 1 .. Len(f.scopes) /\ f.scopes[i][name] # Absent
    BY <1>1, <1>3, InnermostHolds
  <2> HIDE DEF i
  <2>3. i >= Base(f) \/ (i = 1 /\ f.moduleScope)
    BY <1>1, <2>2
  <2> QED
    BY <2>1, <2>2, <2>3
<1>4. CASE ~ InView(f.scopes, name) /\ f.dead[name] \in DOMAIN f.scopes
  <2>1. Place(f, gone, name) = f.dead[name] /\ ~ RevivesModule(f, gone, name)
    BY <1>4 DEF Place, RevivesModule
  <2> QED
    BY <1>1, <1>2, <1>4, <2>1
<1>5. CASE ~ InView(f.scopes, name) /\ f.dead[name] \notin DOMAIN f.scopes
  <2>1. CASE name \in gone
    <3>1. Place(f, gone, name) = 1 /\ RevivesModule(f, gone, name)
      BY <1>5, <2>1 DEF Place, RevivesModule
    <3> QED
      BY <1>1, <1>2, <2>1, <3>1
  <2>2. CASE name \notin gone
    <3>1. Place(f, gone, name) = Len(f.scopes) /\ ~ RevivesModule(f, gone, name)
      BY <1>5, <2>2 DEF Place, RevivesModule
    <3> DEFINE n == Len(f.scopes)
    <3>2. n \in 1 .. n /\ n >= Base(f)
      BY <1>1, <1>2
    <3> HIDE DEF n
    <3> QED
      BY <3>1, <3>2 DEF n
  <2> QED
    BY <2>1, <2>2
<1> QED
  BY <1>3, <1>4, <1>5

-----------------------------------------------------------------------------
(* Changes of the running frame.                                           *)

(* One that leaves the module's table alone.                               *)
LEMMA OwnChange ==
  ASSUME NEW s, Sound(s), NEW g, GoodFrame(g),
         g.moduleScope = s.frame.moduleScope, g.path = s.frame.path,
         g.moduleScope => g.scopes[1] = s.frame.scopes[1]
  PROVE  Sound([s EXCEPT !.frame = g])
<1> DEFINE t == [s EXCEPT !.frame = g]
<1>1. /\ t \in State /\ t.store = s.store /\ t.frame = g
      /\ t.moduleDead = s.moduleDead
  BY DEF Sound, State, GoodFrame
<1> HIDE DEF t
<1>2. \A m \in Modules :
        IF g.moduleScope /\ g.path = m
        THEN /\ s.store[m] = EmptyTable
             /\ Whole(m, [vars |-> g.scopes[1], dead |-> s.moduleDead])
        ELSE Whole(m, s.store[m])
  BY DEF Sound
<1>3. Sound(t)
  BY <1>1, <1>2 DEF Sound, GoodFrame
<1> QED
  BY <1>3 DEF t

(* One that writes the table, in a frame of a module.                      *)
LEMMA TableChange ==
  ASSUME NEW s, Sound(s), s.frame.moduleScope, NEW g, GoodFrame(g),
         g.moduleScope = s.frame.moduleScope, g.path = s.frame.path,
         NEW gone \in SUBSET Names,
         Whole(g.path, [vars |-> g.scopes[1], dead |-> gone])
  PROVE  Sound([s EXCEPT !.frame = g, !.moduleDead = gone])
<1> DEFINE t == [s EXCEPT !.frame = g, !.moduleDead = gone]
<1>1. /\ t \in State /\ t.store = s.store /\ t.frame = g
      /\ t.moduleDead = gone
  BY DEF Sound, State, GoodFrame
<1> HIDE DEF t
<1>2. \A m \in Modules :
        IF g.path = m
        THEN /\ s.store[m] = EmptyTable
             /\ Whole(m, [vars |-> g.scopes[1], dead |-> gone])
        ELSE Whole(m, s.store[m])
  BY DEF Sound
<1>3. Sound(t)
  BY <1>1, <1>2 DEF Sound, GoodFrame
<1> QED
  BY <1>3 DEF t

(* A frame with another scope in one place, where `\` took a name noted.   *)
Written(f, at, scope, name, place) ==
  [f EXCEPT !.scopes[at] = scope, !.dead[name] = place]

LEMMA WriteFrame ==
  ASSUME NEW f, GoodFrame(f), NEW at \in 1 .. Len(f.scopes),
         NEW scope \in Scope, NEW name \in Names, NEW place \in Nat,
         place = 0 \/ place >= Base(f)
  PROVE  LET g == Written(f, at, scope, name, place)
         IN  /\ GoodFrame(g)
             /\ g.moduleScope = f.moduleScope /\ g.path = f.path
             /\ g.loops = f.loops /\ g.nest = f.nest /\ g.aliases = f.aliases
             /\ Len(g.scopes) = Len(f.scopes)
             /\ \A i \in 1 .. Len(f.scopes) :
                  g.scopes[i] = IF i = at THEN scope ELSE f.scopes[i]
<1> DEFINE scopes == [f.scopes EXCEPT ![at] = scope]
           dead == [f.dead EXCEPT ![name] = place]
           g == Written(f, at, scope, name, place)
<1>1. f \in Frame /\ f.scopes \in Seq(Scope) /\ f.dead \in [Names -> Nat]
  BY DEF GoodFrame, Frame
<1>2. /\ g = [f EXCEPT !.scopes = scopes, !.dead = dead]
      /\ g.scopes = scopes
      /\ g.moduleScope = f.moduleScope /\ g.path = f.path
      /\ g.loops = f.loops /\ g.nest = f.nest /\ g.aliases = f.aliases
  BY <1>1 DEF Frame, Written
<1>3. /\ scopes \in Seq(Scope) /\ Len(scopes) = Len(f.scopes)
      /\ \A i \in 1 .. Len(f.scopes) :
           scopes[i] = IF i = at THEN scope ELSE f.scopes[i]
  BY <1>1, WriteScope
<1>4. /\ dead \in [Names -> Nat]
      /\ \A n \in Names : dead[n] = 0 \/ dead[n] >= Base(f)
  BY <1>1 DEF GoodFrame, FrameShape
<1>5. Len(scopes) >= Len(f.scopes)
  <2>1. Len(f.scopes) \in Nat
    BY <1>1, LenProperties
  <2> QED
    BY <1>3, <2>1
<1>6. GoodFrame([f EXCEPT !.scopes = scopes, !.dead = dead])
  <2> HIDE DEF scopes, dead
  <2> QED
    BY <1>3, <1>4, <1>5, FrameWith
<1> QED
  BY <1>2, <1>3, <1>6

LEMMA AbsentIsNoValue == Absent \notin AnyValue
BY ConstantsAssumption DEF AnyValue

(* set_variable keeps every module's table whole and in its place.         *)
LEMMA SetVariableSound ==
  ASSUME NEW s, Sound(s), NEW name \in Names, NEW value \in AnyValue
  PROVE  LET g == SetVariable(s, name, value).frame
         IN  /\ Sound(SetVariable(s, name, value))
             /\ g.loops = s.frame.loops /\ g.nest = s.frame.nest
             /\ g.aliases = s.frame.aliases
             /\ g.moduleScope = s.frame.moduleScope
<1> DEFINE f == s.frame
           at == Place(f, s.moduleDead, name)
           scope == Bind(f.scopes[at], name, value)
           g == Written(f, at, scope, name, 0)
           revived == RevivesModule(f, s.moduleDead, name)
           gone == IF revived THEN s.moduleDead \ {name} ELSE s.moduleDead
           r == [s EXCEPT !.frame = g, !.moduleDead = gone]
<1>1. GoodFrame(f) /\ s.moduleDead \in SUBSET Names
      /\ (~ f.moduleScope => s.moduleDead = {})
      /\ f.scopes \in Seq(Scope)
  BY DEF Sound, State, GoodFrame, Frame
<1>2. SetVariable(s, name, value) = r
  <2>1. s \in State
    BY DEF Sound
  <2>2. s.frame \in Frame /\ f.scopes[at] = s.frame.scopes[at]
    BY <1>1 DEF GoodFrame
  <2> QED
    BY <2>1, <2>2 DEF SetVariable, State, Frame, Written
<1>3. /\ at \in 1 .. Len(f.scopes)
      /\ \/ at >= Base(f) /\ ~ revived
         \/ /\ f.moduleScope /\ at = 1
            /\ (f.scopes[1][name] # Absent /\ ~ revived) \/ revived
  <2> HIDE DEF f
  <2> QED
    BY <1>1, PlaceInside
<1>4. f.scopes[at] \in Scope
  BY <1>1, <1>3, ElementOfSeq
<1>5. scope \in Scope
  BY <1>4, ScopeTypes
<1>6. /\ GoodFrame(g)
      /\ g.moduleScope = f.moduleScope /\ g.path = f.path
      /\ g.loops = f.loops /\ g.nest = f.nest /\ g.aliases = f.aliases
      /\ \A i \in 1 .. Len(f.scopes) :
           g.scopes[i] = IF i = at THEN scope ELSE f.scopes[i]
  <2> HIDE DEF f, at, scope
  <2> QED
    BY <1>1, <1>3, <1>5, WriteFrame
<1>7. Sound(r)
  <2>1. CASE at >= Base(f) /\ ~ revived
    <3>1. g.moduleScope => g.scopes[1] = f.scopes[1]
      <4> HIDE DEF f, at, scope, g
      <4>1. f.moduleScope => Base(f) = 2
        BY DEF Base
      <4> QED
        BY <1>3, <1>6, <2>1, <4>1
    <3>2. r = [s EXCEPT !.frame = g]
      <4> HIDE DEF g
      <4> QED
        BY <2>1 DEF Sound, State
    <3> HIDE DEF g
    <3> QED
      BY <1>6, <3>1, <3>2, OwnChange
  <2>2. CASE /\ f.moduleScope /\ at = 1
             /\ (f.scopes[1][name] # Absent /\ ~ revived) \/ revived
    <3>1. /\ f.path \in Modules
          /\ Whole(f.path, [vars |-> f.scopes[1], dead |-> s.moduleDead])
      BY <1>1, <2>2 DEF Sound, GoodFrame, FrameShape
    <3>2. g.scopes[1] = Bind(f.scopes[1], name, value)
      <4> HIDE DEF f, at, g
      <4> QED
        BY <1>3, <1>6, <2>2
    <3>3. f.scopes[1] \in Scope
      BY <1>4, <2>2
    <3>4. Held(g.scopes[1]) = Held(f.scopes[1]) \cup {name}
      <4> HIDE DEF f, at, g
      <4> QED
        BY <3>2, <3>3, AbsentIsNoValue DEF Held, Bind, Scope
    <3>5. revived => name \in s.moduleDead
      BY DEF RevivesModule
    <3>6. ~ revived => name \in Held(f.scopes[1])
      BY <2>2 DEF Held
    <3>7. Whole(f.path, [vars |-> g.scopes[1], dead |-> gone])
      <4>1. [vars |-> g.scopes[1], dead |-> gone] \in Table
        <5>1. g.scopes[1] \in Scope
          BY <3>2, <3>3, ScopeTypes
        <5>2. gone \in SUBSET Names
          BY <1>1
        <5> HIDE DEF g, gone
        <5> QED
          BY <5>1, <5>2 DEF Table
      <4>2. /\ Held(g.scopes[1]) \cup gone = Declared[f.path]
            /\ Held(g.scopes[1]) \cap gone = {}
        <5>1. /\ Held(f.scopes[1]) \cup s.moduleDead = Declared[f.path]
              /\ Held(f.scopes[1]) \cap s.moduleDead = {}
          <6> HIDE DEF f
          <6> QED
            BY <3>1 DEF Whole
        <5>2. CASE revived
          <6> HIDE DEF f, g, revived
          <6> QED
            BY <3>4, <3>5, <5>1, <5>2
        <5>3. CASE ~ revived
          <6> HIDE DEF f, g, revived
          <6> QED
            BY <3>4, <3>6, <5>1, <5>3
        <5> QED
          BY <5>2, <5>3
      <4> HIDE DEF f, g, gone
      <4> QED
        BY <4>1, <4>2 DEF Whole
    <3>8. gone \in SUBSET Names
      BY <1>1
    <3> HIDE DEF g, gone
    <3> QED
      BY <1>6, <2>2, <3>7, <3>8, TableChange
  <2> HIDE DEF f, at, revived, r
  <2> QED
    BY <1>3, <2>1, <2>2
<1>8. r.frame = g
  BY DEF Sound, State
<1> HIDE DEF g, f, r
<1> QED
  BY <1>2, <1>6, <1>7, <1>8 DEF f

(* destroy_variable of a name in view does so too.                         *)
LEMMA DestroySound ==
  ASSUME NEW s, Sound(s), NEW name \in Names, InView(s.frame.scopes, name)
  PROVE  Sound(Destroy(s, name))
<1> DEFINE f == s.frame
           at == Innermost(f.scopes, name)
           scope == Unbind(f.scopes[at], name)
           gone == s.moduleDead \cup {name}
<1>1. GoodFrame(f) /\ s.moduleDead \in SUBSET Names
      /\ f.scopes \in Seq(Scope) /\ f.dead \in [Names -> Nat]
      /\ f.moduleScope \in BOOLEAN
      /\ DOMAIN f.scopes = 1 .. Len(f.scopes)
  BY LenProperties DEF Sound, State, GoodFrame, Frame
<1>2. /\ at \in 1 .. Len(f.scopes) /\ f.scopes[at][name] # Absent
      /\ \A j \in Holders(f.scopes, name) : j <= at
      /\ at \in Holders(f.scopes, name)
  <2>1. InView(f.scopes, name)
    OBVIOUS
  <2> HIDE DEF f
  <2> QED
    BY <1>1, <2>1, InnermostHolds DEF Holders
<1>3. f.scopes[at] \in Scope /\ scope \in Scope
  <2>1. f.scopes[at] \in Scope
    BY <1>1, <1>2, ElementOfSeq
  <2> QED
    BY <2>1, ScopeTypes
<1>4. /\ f.moduleScope => Base(f) = 2
      /\ ~ f.moduleScope => Base(f) = 1
      /\ Base(f) \in Nat
  BY DEF Base
<1>5. CASE OwnHolders(f, name) # {}
  <2> DEFINE g == Written(f, at, scope, name, at)
  <2>1. at >= Base(f) /\ at \in Nat
    <3> HIDE DEF f, at
    <3>1. PICK i \in Holders(f.scopes, name) : i >= Base(f)
      BY <1>5 DEF OwnHolders
    <3>2. i \in Nat /\ i <= at
      BY <1>1, <1>2, <3>1 DEF Holders
    <3> QED
      BY <1>2, <1>4, <3>1, <3>2
  <2>2. Destroy(s, name) = [s EXCEPT !.frame = g]
    BY <1>1, <1>5 DEF Destroy, Sound, State, GoodFrame, Frame, Written
  <2>3. /\ GoodFrame(g)
        /\ g.moduleScope = f.moduleScope /\ g.path = f.path
        /\ \A i \in 1 .. Len(f.scopes) :
             g.scopes[i] = IF i = at THEN scope ELSE f.scopes[i]
    <3> HIDE DEF f, at, scope
    <3> QED
      BY <1>1, <1>2, <1>3, <2>1, WriteFrame
  <2>4. g.moduleScope => g.scopes[1] = f.scopes[1]
    <3> HIDE DEF f, at, scope, g
    <3>1. SUFFICES ASSUME f.moduleScope PROVE g.scopes[1] = f.scopes[1]
      BY <2>3
    <3>2. 1 \in 1 .. Len(f.scopes) /\ at # 1
      BY <1>2, <1>4, <2>1, <3>1
    <3> QED
      BY <2>3, <3>2
  <2> HIDE DEF g
  <2> QED
    BY <2>2, <2>3, <2>4, OwnChange
<1>6. CASE OwnHolders(f, name) = {}
  <2> DEFINE g == Written(f, at, scope, name, f.dead[name])
  <2>1. f.moduleScope /\ at = 1
    <3> HIDE DEF f, at
    <3> QED
      BY <1>2, <1>4, <1>6 DEF OwnHolders
  <2>2. Destroy(s, name) = [s EXCEPT !.frame = g, !.moduleDead = gone]
    <3> DEFINE h == [f EXCEPT !.scopes[at] = scope]
    <3>1. f \in Frame /\ s \in State
      BY DEF Sound, State
    <3>2. Destroy(s, name) = [s EXCEPT !.frame = h, !.moduleDead = gone]
      BY <1>6 DEF Destroy
    <3>3. h = g
      <4> HIDE DEF f, at, scope
      <4>1. [f.dead EXCEPT ![name] = f.dead[name]] = f.dead
        BY <1>1
      <4> QED
        BY <3>1, <4>1 DEF Frame, Written
    <3> HIDE DEF h, g
    <3> QED
      BY <3>2, <3>3
  <2>3. /\ GoodFrame(g)
        /\ g.moduleScope = f.moduleScope /\ g.path = f.path
        /\ \A i \in 1 .. Len(f.scopes) :
             g.scopes[i] = IF i = at THEN scope ELSE f.scopes[i]
    <3>1. f.dead[name] \in Nat
          /\ (f.dead[name] = 0 \/ f.dead[name] >= Base(f))
      BY <1>1 DEF GoodFrame, FrameShape
    <3> HIDE DEF f, at, scope
    <3> QED
      BY <1>1, <1>2, <1>3, <3>1, WriteFrame
  <2>4. Whole(f.path, [vars |-> g.scopes[1], dead |-> gone])
    <3>1. /\ f.path \in Modules
          /\ Whole(f.path, [vars |-> f.scopes[1], dead |-> s.moduleDead])
      BY <1>1, <2>1 DEF Sound, GoodFrame, FrameShape
    <3>2. g.scopes[1] = Unbind(f.scopes[1], name) /\ f.scopes[1] \in Scope
          /\ g.scopes[1] \in Scope
      <4> HIDE DEF f, at, g
      <4> QED
        BY <1>2, <1>3, <2>1, <2>3
    <3>3. /\ Held(g.scopes[1]) = Held(f.scopes[1]) \ {name}
          /\ name \in Held(f.scopes[1])
      <4> HIDE DEF f, at, g
      <4> QED
        BY <1>2, <2>1, <3>2 DEF Held, Unbind, Scope
    <3>4. [vars |-> g.scopes[1], dead |-> gone] \in Table
      <4>1. gone \in SUBSET Names
        BY <1>1
      <4> HIDE DEF g, gone
      <4> QED
        BY <3>2, <4>1 DEF Table
    <3>5. /\ Held(f.scopes[1]) \cup s.moduleDead = Declared[f.path]
          /\ Held(f.scopes[1]) \cap s.moduleDead = {}
      <4> HIDE DEF f
      <4> QED
        BY <3>1 DEF Whole
    <3>6. /\ Held(g.scopes[1]) \cup gone = Declared[f.path]
          /\ Held(g.scopes[1]) \cap gone = {}
      <4> HIDE DEF f, g
      <4> QED
        BY <3>3, <3>5
    <3> HIDE DEF f, g, gone
    <3> QED
      BY <3>4, <3>6 DEF Whole
  <2>5. gone \in SUBSET Names
    BY <1>1
  <2>6. Sound([s EXCEPT !.frame = g, !.moduleDead = gone])
    <3>1. Whole(g.path, [vars |-> g.scopes[1], dead |-> gone])
      BY <2>3, <2>4
    <3> HIDE DEF at, scope, g, gone
    <3> QED
      BY <2>1, <2>3, <2>5, <3>1, TableChange
  <2> QED
    BY <2>2, <2>6
<1> HIDE DEF f
<1> QED
  BY <1>5, <1>6

(* A write to a scope of the frame's own.                                  *)
LEMMA SetAtFrame ==
  ASSUME NEW f, GoodFrame(f), NEW at \in Nat, at >= Base(f),
         NEW name \in Names, NEW value \in AnyValue
  PROVE  LET g == SetAt(f, at, name, value)
         IN  /\ GoodFrame(g)
             /\ g.moduleScope = f.moduleScope /\ g.path = f.path
             /\ g.loops = f.loops /\ g.nest = f.nest /\ g.aliases = f.aliases
             /\ g.moduleScope => g.scopes[1] = f.scopes[1]
<1> DEFINE scope == Bind(f.scopes[at], name, value)
           g == Written(f, at, scope, name, f.dead[name])
<1>1. /\ f.scopes \in Seq(Scope) /\ f.dead \in [Names -> Nat]
      /\ Len(f.scopes) \in Nat /\ Len(f.nest) \in Nat /\ Base(f) \in Nat
      /\ f.moduleScope => Base(f) = 2
  BY LenProperties DEF GoodFrame, Frame, Base
<1>2. SetAt(f, at, name, value) = g
  BY <1>1 DEF SetAt, Written, GoodFrame, Frame
<1>3. CASE at \in 1 .. Len(f.scopes)
  <2>1. f.scopes[at] \in Scope
    BY <1>1, <1>3, ElementOfSeq
  <2>2. scope \in Scope
    BY <2>1, ScopeTypes
  <2>3. f.dead[name] \in Nat /\ (f.dead[name] = 0 \/ f.dead[name] >= Base(f))
    BY <1>1 DEF GoodFrame, FrameShape
  <2> HIDE DEF scope
  <2>4. /\ GoodFrame(g)
        /\ g.moduleScope = f.moduleScope /\ g.path = f.path
        /\ g.loops = f.loops /\ g.nest = f.nest /\ g.aliases = f.aliases
        /\ \A i \in 1 .. Len(f.scopes) :
             g.scopes[i] = IF i = at THEN scope ELSE f.scopes[i]
    BY <1>3, <2>2, <2>3, WriteFrame
  <2>5. f.moduleScope => 1 \in 1 .. Len(f.scopes) /\ at # 1
    BY <1>1, <1>3
  <2> HIDE DEF g
  <2> QED
    BY <1>2, <2>4, <2>5
<1>4. CASE at \notin 1 .. Len(f.scopes)
  <2>1. f.scopes \in [1 .. Len(f.scopes) -> Scope]
    BY <1>1, LenProperties
  <2>2. g = f
    BY <1>1, <1>4, <2>1 DEF Written, GoodFrame, Frame
  <2> HIDE DEF g
  <2> QED
    BY <1>2, <2>2
<1> QED
  BY <1>3, <1>4

(* Where the hot targets write is above the module's table.                *)
LEMMA LoopPlaces ==
  ASSUME NEW f, GoodFrame(f)
  PROVE  /\ NearestLoop(f) \in Nat /\ NearestLoop(f) >= Base(f)
         /\ AboveNearestLoop(f) \in Nat /\ AboveNearestLoop(f) >= Base(f)
<1>1. /\ f.loops \in Seq(Nat) /\ Len(f.loops) \in Nat /\ Base(f) \in Nat
      /\ \A i \in 1 .. Len(f.loops) : f.loops[i] \in Nat
      /\ \A i \in 1 .. Len(f.loops) : f.loops[i] >= Base(f)
  <2>1. f.loops \in Seq(Nat) /\ Base(f) \in Nat
    BY DEF GoodFrame, Frame, Base
  <2>2. DOMAIN f.loops = 1 .. Len(f.loops)
    BY <2>1, LenProperties
  <2> QED
    BY <2>1, <2>2, LenProperties, ElementOfSeq DEF GoodFrame, FrameShape
<1>2. NearestLoop(f) \in Nat /\ NearestLoop(f) >= Base(f)
  <2>1. CASE f.loops = <<>>
    BY <1>1, <2>1 DEF NearestLoop
  <2>2. CASE f.loops # <<>>
    <3>1. Len(f.loops) \in 1 .. Len(f.loops)
      BY <1>1, <2>2, EmptySeq
    <3> QED
      BY <1>1, <2>2, <3>1 DEF NearestLoop
  <2> QED
    BY <2>1, <2>2
<1>3. AboveNearestLoop(f) \in Nat /\ AboveNearestLoop(f) >= Base(f)
  BY <1>1 DEF AboveNearestLoop
<1> QED
  BY <1>2, <1>3

(* Binding a name in the current scope.                                    *)
LEMMA SetVariableNewFrame ==
  ASSUME NEW f, GoodFrame(f), NEW name \in Names, NEW value \in AnyValue
  PROVE  LET g == SetVariableNew(f, name, value)
         IN  /\ GoodFrame(g)
             /\ g.moduleScope = f.moduleScope /\ g.path = f.path
             /\ g.loops = f.loops /\ g.nest = f.nest /\ g.aliases = f.aliases
             /\ g.moduleScope => g.scopes[1] = f.scopes[1]
<1> DEFINE at == Len(f.scopes)
           scope == Bind(f.scopes[at], name, value)
           g == Written(f, at, scope, name, 0)
<1>1. /\ f.scopes \in Seq(Scope) /\ at \in Nat /\ Len(f.nest) \in Nat
      /\ Base(f) \in Nat /\ Base(f) >= 1
      /\ f.moduleScope => Base(f) = 2
  BY LenProperties DEF GoodFrame, Frame, Base
<1>2. at >= Base(f)
  BY <1>1 DEF GoodFrame, FrameShape
<1>3. SetVariableNew(f, name, value) = g
  BY DEF SetVariableNew, Written, GoodFrame, Frame
<1>4. f.scopes[at] \in Scope
  BY <1>1, <1>2, ElementOfSeq
<1>5. scope \in Scope
  BY <1>4, ScopeTypes
<1>6. at \in 1 .. Len(f.scopes) /\ (f.moduleScope => at > 1)
  BY <1>1, <1>2
<1>7. /\ GoodFrame(g)
      /\ g.moduleScope = f.moduleScope /\ g.path = f.path
      /\ g.loops = f.loops /\ g.nest = f.nest /\ g.aliases = f.aliases
      /\ \A i \in 1 .. Len(f.scopes) :
           g.scopes[i] = IF i = at THEN scope ELSE f.scopes[i]
  <2> HIDE DEF at, scope
  <2> QED
    BY <1>5, <1>6, WriteFrame
<1>8. f.moduleScope => 1 \in 1 .. Len(f.scopes) /\ at # 1
  <2> HIDE DEF at
  <2>1. SUFFICES ASSUME f.moduleScope PROVE 1 \in 1 .. at /\ at # 1
    BY DEF at
  <2> QED
    BY <1>1, <1>6, <2>1
<1> HIDE DEF g, at, scope
<1> QED
  BY <1>3, <1>7, <1>8

-----------------------------------------------------------------------------
(* Opening and closing constructs.                                         *)

(* A frame in which a construct has been opened, with its scope.           *)
OpenedFrame(f, kind, scope, aliases) ==
  [f EXCEPT
     !.scopes = Append(f.scopes, scope),
     !.nest = Append(f.nest, [kind |-> kind, depth |-> Len(f.scopes),
                              anchors |-> Len(f.loops),
                              aliases |-> f.aliases]),
     !.loops = IF kind = "loop" THEN Append(f.loops, Len(f.scopes) + 1)
               ELSE f.loops,
     !.aliases = aliases]

LEMMA OpenedGood ==
  ASSUME NEW f, GoodFrame(f), NEW kind \in Kinds, NEW scope \in Scope,
         NEW aliases \in Files
  PROVE  LET g == OpenedFrame(f, kind, scope, aliases)
         IN  /\ GoodFrame(g)
             /\ g.moduleScope = f.moduleScope /\ g.path = f.path
             /\ g.moduleScope => g.scopes[1] = f.scopes[1]
             /\ g.nest = Append(f.nest, [kind |-> kind,
                                         depth |-> Len(f.scopes),
                                         anchors |-> Len(f.loops),
                                         aliases |-> f.aliases])
<1> DEFINE construct == [kind |-> kind, depth |-> Len(f.scopes),
                         anchors |-> Len(f.loops), aliases |-> f.aliases]
           g == OpenedFrame(f, kind, scope, aliases)
           loops == IF kind = "loop" THEN Append(f.loops, Len(f.scopes) + 1)
                    ELSE f.loops
           nest == Append(f.nest, construct)
           scopes == Append(f.scopes, scope)
<1>1. /\ f.scopes \in Seq(Scope) /\ f.loops \in Seq(Nat)
      /\ f.nest \in Seq(Construct) /\ f.aliases \in Files
      /\ Base(f) \in Nat /\ Base(f) >= 1 /\ (f.moduleScope => Base(f) = 2)
      /\ f \in Frame
  BY DEF GoodFrame, Frame, Base
<1>2. /\ Len(f.scopes) \in Nat /\ Len(f.loops) \in Nat /\ Len(f.nest) \in Nat
      /\ DOMAIN f.loops = 1 .. Len(f.loops)
      /\ DOMAIN f.nest = 1 .. Len(f.nest)
  BY <1>1, LenProperties
<1>3. /\ Len(f.scopes) >= Base(f) + Len(f.nest)
      /\ Len(f.loops) = MarksBefore(f, Len(f.nest) + 1)
      /\ \A i \in 1 .. Len(f.loops) : f.loops[i] >= Base(f)
      /\ \A i \in 1 .. Len(f.nest) :
           /\ f.nest[i].depth >= Base(f) + i - 1
           /\ f.nest[i].anchors = MarksBefore(f, i)
  BY <1>2 DEF GoodFrame, FrameShape
<1>4. construct \in Construct
  BY <1>1, <1>2 DEF Construct
<1>5. /\ scopes \in Seq(Scope) /\ Len(scopes) = Len(f.scopes) + 1
      /\ \A i \in 1 .. Len(f.scopes) : scopes[i] = f.scopes[i]
  BY <1>1, AppendProperties
<1>6. /\ nest \in Seq(Construct) /\ Len(nest) = Len(f.nest) + 1
      /\ DOMAIN nest = 1 .. Len(f.nest) + 1
      /\ \A i \in 1 .. Len(f.nest) : nest[i] = f.nest[i]
      /\ nest[Len(f.nest) + 1] = construct
  <2> HIDE DEF construct
  <2>1. /\ nest \in Seq(Construct) /\ Len(nest) = Len(f.nest) + 1
        /\ \A i \in 1 .. Len(f.nest) : nest[i] = f.nest[i]
        /\ nest[Len(f.nest) + 1] = construct
    BY <1>1, <1>4, AppendProperties
  <2> HIDE DEF nest
  <2> QED
    BY <2>1, LenProperties
<1>7. /\ loops \in Seq(Nat)
      /\ Len(loops) = Len(f.loops) + (IF kind = "loop" THEN 1 ELSE 0)
      /\ \A i \in DOMAIN loops : loops[i] >= Base(f)
  <2>1. CASE kind = "loop"
    <3>1. Len(f.scopes) + 1 \in Nat /\ Len(f.scopes) + 1 >= Base(f)
      BY <1>1, <1>2, <1>3
    <3> DEFINE mark == Len(f.scopes) + 1
    <3>2. loops = Append(f.loops, mark)
      BY <2>1
    <3> HIDE DEF mark, loops
    <3>3. /\ loops \in Seq(Nat) /\ Len(loops) = Len(f.loops) + 1
          /\ \A i \in 1 .. Len(f.loops) : loops[i] = f.loops[i]
          /\ loops[Len(f.loops) + 1] = mark
      BY <1>1, <3>1, <3>2, AppendProperties DEF mark
    <3>4. DOMAIN loops = 1 .. Len(f.loops) + 1
      BY <3>3, LenProperties
    <3> QED
      BY <1>2, <1>3, <2>1, <3>1, <3>3, <3>4 DEF mark
  <2>2. CASE kind # "loop"
    <3>1. loops = f.loops
      BY <2>2
    <3> HIDE DEF loops
    <3> QED
      BY <1>1, <1>2, <1>3, <2>2, <3>1
  <2> QED
    BY <2>1, <2>2
<1>8. /\ g \in Frame
      /\ g.scopes = scopes /\ g.nest = nest /\ g.loops = loops
      /\ g.moduleScope = f.moduleScope /\ g.path = f.path /\ g.dead = f.dead
  <2>1. g = [f EXCEPT !.scopes = scopes, !.nest = nest, !.loops = loops,
                      !.aliases = aliases]
    BY DEF OpenedFrame
  <2> HIDE DEF scopes, nest, loops, g
  <2> QED
    BY <1>1, <1>5, <1>6, <1>7, <2>1 DEF Frame
<1> HIDE DEF scopes, nest, loops, g
<1>9. /\ Base(g) = Base(f)
      /\ \A i \in 1 .. Len(f.nest) + 1 : MarksBefore(g, i) = MarksBefore(f, i)
      /\ MarksBefore(g, Len(f.nest) + 2) =
           Len(f.loops) + (IF kind = "loop" THEN 1 ELSE 0)
  <2>1. Base(g) = Base(f)
    BY <1>8 DEF Base
  <2>2. ASSUME NEW i \in 1 .. Len(f.nest) + 1
        PROVE  MarksBefore(g, i) = MarksBefore(f, i)
    <3>1. CASE i = 1
      BY <3>1 DEF MarksBefore
    <3>2. CASE i # 1
      <4>1. i - 1 \in 1 .. Len(f.nest)
        BY <1>2, <3>2
      <4> QED
        BY <1>6, <1>8, <3>2, <4>1 DEF MarksBefore
    <3> QED
      BY <3>1, <3>2
  <2>3. MarksBefore(g, Len(f.nest) + 2) =
          Len(f.loops) + (IF kind = "loop" THEN 1 ELSE 0)
    <3>1. g.nest[Len(f.nest) + 1] = construct
      BY <1>6, <1>8
    <3> DEFINE k == Len(f.nest) + 2
    <3>2. k - 1 = Len(f.nest) + 1 /\ k # 1
      BY <1>2
    <3> HIDE DEF k
    <3>3. MarksBefore(g, k) =
            g.nest[k - 1].anchors
              + (IF g.nest[k - 1].kind = "loop" THEN 1 ELSE 0)
      BY <3>2 DEF MarksBefore
    <3>4. MarksBefore(g, k) = construct.anchors
                              + (IF construct.kind = "loop" THEN 1 ELSE 0)
      BY <3>1, <3>2, <3>3
    <3> QED
      BY <3>4 DEF k
  <2> QED
    BY <2>1, <2>2, <2>3
<1>10. FrameShape(g)
  <2>1. g.moduleScope => g.path \in Modules
    BY <1>8 DEF GoodFrame, FrameShape
  <2>2. Len(g.scopes) >= Base(g) + Len(g.nest)
    BY <1>1, <1>2, <1>3, <1>5, <1>6, <1>8, <1>9
  <2>3. \A i \in DOMAIN g.loops : g.loops[i] >= Base(g)
    BY <1>7, <1>8, <1>9
  <2>4. \A n \in Names : g.dead[n] = 0 \/ g.dead[n] >= Base(g)
    BY <1>8, <1>9 DEF GoodFrame, FrameShape
  <2>5. ASSUME NEW i \in DOMAIN g.nest
        PROVE  /\ g.nest[i].depth >= Base(g) + i - 1
               /\ g.nest[i].anchors = MarksBefore(g, i)
    <3>1. CASE i \in 1 .. Len(f.nest)
      <4>1. g.nest[i] = f.nest[i]
        BY <1>6, <1>8, <3>1
      <4>2. i \in 1 .. Len(f.nest) + 1
        BY <1>2, <3>1
      <4> QED
        BY <1>3, <1>9, <3>1, <4>1, <4>2
    <3>2. CASE i = Len(f.nest) + 1
      <4>1. g.nest[i] = construct
        BY <1>6, <1>8, <3>2
      <4>2. /\ construct.depth = Len(f.scopes)
            /\ construct.anchors = Len(f.loops)
        OBVIOUS
      <4>3. i \in 1 .. Len(f.nest) + 1
        BY <1>2, <3>2
      <4>4. construct.anchors = MarksBefore(g, i)
        BY <1>3, <1>9, <3>2, <4>2, <4>3
      <4>5. construct.depth >= Base(g) + i - 1
        BY <1>1, <1>2, <1>3, <1>9, <3>2, <4>2
      <4> QED
        BY <4>1, <4>4, <4>5
    <3> QED
      BY <1>2, <1>6, <1>8, <2>5, <3>1, <3>2
  <2>6. Len(g.loops) = MarksBefore(g, Len(g.nest) + 1)
    <3>1. Len(g.nest) + 1 = Len(f.nest) + 2
      BY <1>2, <1>6, <1>8
    <3> QED
      BY <1>7, <1>8, <1>9, <3>1
  <2> QED
    BY <2>1, <2>2, <2>3, <2>4, <2>5, <2>6 DEF FrameShape
<1>11. g.moduleScope => g.scopes[1] = f.scopes[1]
  <2>1. 1 \in 1 .. Len(f.scopes)
    BY <1>1, <1>2, <1>3
  <2> QED
    BY <1>5, <1>8, <2>1
<1> QED
  BY <1>8, <1>10, <1>11 DEF GoodFrame, nest, g

(* What popping scopes down to a depth changes.                            *)
LEMMA PopToFrame ==
  ASSUME NEW f, f \in Frame, NEW d \in Nat, d >= 1,
         \A n \in Names : f.dead[n] = 0 \/ f.dead[n] >= Base(f)
  PROVE  LET g == PopTo(f, d)
         IN  /\ g \in Frame
             /\ g.moduleScope = f.moduleScope /\ g.path = f.path
             /\ g.loops = f.loops /\ g.nest = f.nest /\ g.aliases = f.aliases
             /\ Len(g.scopes) <= Len(f.scopes)
             /\ Len(g.scopes) >= d \/ Len(g.scopes) = Len(f.scopes)
             /\ \A i \in 1 .. Len(g.scopes) : g.scopes[i] = f.scopes[i]
             /\ \A n \in Names : g.dead[n] = 0 \/ g.dead[n] >= Base(f)
<1> DEFINE g == PopTo(f, d)
           scopes == SubSeq(f.scopes, 1, d)
           dead == [n \in Names |-> IF f.dead[n] <= d THEN f.dead[n] ELSE 0]
<1>1. /\ f.scopes \in Seq(Scope) /\ Len(f.scopes) \in Nat
      /\ f.dead \in [Names -> Nat]
  BY LenProperties DEF Frame
<1>2. CASE Len(f.scopes) <= d
  <2>1. PopTo(f, d) = f
    BY <1>2 DEF PopTo
  <2>2. Len(f.scopes) <= Len(f.scopes)
    BY <1>1
  <2> QED
    BY <2>1, <2>2
<1>3. CASE ~ (Len(f.scopes) <= d)
  <2>1. \A i \in 1 .. d : f.scopes[i] \in Scope
    <3>1. \A i \in 1 .. Len(f.scopes) : f.scopes[i] \in Scope
      BY <1>1, ElementOfSeq
    <3> QED
      BY <1>1, <1>3, <3>1
  <2>2. /\ scopes \in Seq(Scope) /\ Len(scopes) = d
        /\ \A i \in 1 .. d : scopes[i] = f.scopes[i]
    <3>1. /\ scopes \in Seq(Scope)
          /\ Len(scopes) = IF 1 <= d THEN d - 1 + 1 ELSE 0
          /\ \A i \in 1 .. d - 1 + 1 : scopes[i] = f.scopes[1 + i - 1]
      BY <2>1, SubSeqProperties, 1 \in Int, d \in Int
    <3> QED
      BY <3>1
  <2>3. dead \in [Names -> Nat]
        /\ \A n \in Names : dead[n] = 0 \/ dead[n] >= Base(f)
    BY <1>1
  <2>4. g = [f EXCEPT !.scopes = scopes, !.dead = dead]
    BY <1>3 DEF PopTo, Frame
  <2> HIDE DEF g, scopes, dead
  <2>5. /\ g \in Frame /\ g.scopes = scopes /\ g.dead = dead
        /\ g.moduleScope = f.moduleScope /\ g.path = f.path
        /\ g.loops = f.loops /\ g.nest = f.nest /\ g.aliases = f.aliases
    BY <2>2, <2>3, <2>4 DEF Frame
  <2>6. Len(g.scopes) <= Len(f.scopes) /\ Len(g.scopes) >= d
    BY <1>1, <1>3, <2>2, <2>5
  <2>7. \A i \in 1 .. Len(g.scopes) : g.scopes[i] = f.scopes[i]
    BY <2>2, <2>5
  <2>8. \A n \in Names : g.dead[n] = 0 \/ g.dead[n] >= Base(f)
    BY <2>3, <2>5
  <2> QED
    BY <2>5, <2>6, <2>7, <2>8 DEF g
<1> QED
  BY <1>2, <1>3

(* A frame whose innermost construct has been closed, down to a depth.     *)
ClosedFrame(f, d, aliases) ==
  [PopTo(f, d) EXCEPT
     !.nest = SubSeq(f.nest, 1, Len(f.nest) - 1),
     !.loops = SubSeq(f.loops, 1, f.nest[Len(f.nest)].anchors),
     !.aliases = aliases]

LEMMA ClosedGood ==
  ASSUME NEW f, GoodFrame(f), f.nest # <<>>,
         NEW d \in Nat, d >= Base(f) + Len(f.nest) - 1,
         NEW aliases \in Files
  PROVE  LET g == ClosedFrame(f, d, aliases)
         IN  /\ GoodFrame(g)
             /\ g.moduleScope = f.moduleScope /\ g.path = f.path
             /\ g.moduleScope => g.scopes[1] = f.scopes[1]
             /\ g.nest = SubSeq(f.nest, 1, Len(f.nest) - 1)
<1> DEFINE h == PopTo(f, d)
           last == Len(f.nest)
           marks == f.nest[last].anchors
           nest == SubSeq(f.nest, 1, last - 1)
           loops == SubSeq(f.loops, 1, marks)
           g == ClosedFrame(f, d, aliases)
<1>1. /\ f.scopes \in Seq(Scope) /\ f.loops \in Seq(Nat)
      /\ f.nest \in Seq(Construct)
      /\ Base(f) \in Nat /\ Base(f) >= 1 /\ (f.moduleScope => Base(f) = 2)
      /\ f \in Frame
  BY DEF GoodFrame, Frame, Base
<1>2. /\ Len(f.scopes) \in Nat /\ Len(f.loops) \in Nat
      /\ last \in Nat /\ last >= 1
      /\ DOMAIN f.loops = 1 .. Len(f.loops)
      /\ DOMAIN f.nest = 1 .. last
  BY <1>1, LenProperties, EmptySeq
<1>3. /\ Len(f.scopes) >= Base(f) + last
      /\ Len(f.loops) = MarksBefore(f, last + 1)
      /\ \A i \in 1 .. Len(f.loops) : f.loops[i] >= Base(f)
      /\ \A n \in Names : f.dead[n] = 0 \/ f.dead[n] >= Base(f)
      /\ \A i \in 1 .. last :
           /\ f.nest[i].depth >= Base(f) + i - 1
           /\ f.nest[i].anchors = MarksBefore(f, i)
  BY <1>2 DEF GoodFrame, FrameShape
<1>4. /\ h \in Frame
      /\ h.moduleScope = f.moduleScope /\ h.path = f.path
      /\ Len(h.scopes) <= Len(f.scopes)
      /\ Len(h.scopes) >= d \/ Len(h.scopes) = Len(f.scopes)
      /\ \A i \in 1 .. Len(h.scopes) : h.scopes[i] = f.scopes[i]
      /\ \A n \in Names : h.dead[n] = 0 \/ h.dead[n] >= Base(f)
  <2>1. d >= 1
    BY <1>1, <1>2
  <2> QED
    BY <1>1, <1>3, <2>1, PopToFrame
<1>5. /\ nest \in Seq(Construct) /\ Len(nest) = last - 1
      /\ DOMAIN nest = 1 .. last - 1
      /\ \A i \in 1 .. last - 1 : nest[i] = f.nest[i]
  <2>1. \A i \in 1 .. last - 1 : f.nest[i] \in Construct
    <3>1. \A i \in 1 .. last : f.nest[i] \in Construct
      BY <1>1, ElementOfSeq
    <3> HIDE DEF last
    <3> QED
      BY <1>2, <3>1
  <2> HIDE DEF last
  <2>2. /\ nest \in Seq(Construct)
        /\ Len(nest) = IF 1 <= last - 1 THEN last - 1 - 1 + 1 ELSE 0
        /\ \A i \in 1 .. last - 1 - 1 + 1 : nest[i] = f.nest[1 + i - 1]
    BY <1>2, <2>1, SubSeqProperties, 1 \in Int, last - 1 \in Int
  <2>3. DOMAIN nest = 1 .. Len(nest)
    BY <2>2, LenProperties
  <2> HIDE DEF nest
  <2>4. Len(nest) = last - 1
    BY <1>2, <2>2
  <2> QED
    BY <1>2, <2>2, <2>3, <2>4
<1>6. /\ marks \in Nat
      /\ Len(f.loops) = marks + (IF f.nest[last].kind = "loop" THEN 1 ELSE 0)
      /\ marks = MarksBefore(f, last)
  <2>1. f.nest[last] \in Construct
    BY <1>1, <1>2, ElementOfSeq
  <2> HIDE DEF last
  <2>2. marks \in Nat
    BY <2>1 DEF Construct
  <2> DEFINE k == last + 1
  <2>3. k - 1 = last /\ k # 1
    BY <1>2
  <2> HIDE DEF k
  <2>4. MarksBefore(f, k) = marks + (IF f.nest[last].kind = "loop" THEN 1 ELSE 0)
    BY <2>3 DEF MarksBefore
  <2>5. last \in 1 .. last
    BY <1>2
  <2> QED
    BY <1>3, <2>2, <2>4, <2>5 DEF k
<1>7. /\ loops \in Seq(Nat) /\ Len(loops) = marks
      /\ \A i \in DOMAIN loops : loops[i] >= Base(f)
  <2> HIDE DEF last, marks
  <2>1. \A i \in 1 .. marks : i \in 1 .. Len(f.loops)
    <3>1. marks <= Len(f.loops)
      BY <1>6
    <3> HIDE DEF marks
    <3> QED
      BY <1>2, <1>6, <3>1
  <2>2. \A i \in 1 .. marks : f.loops[i] \in Nat
    BY <1>1, <2>1, ElementOfSeq
  <2>3. /\ loops \in Seq(Nat)
        /\ Len(loops) = IF 1 <= marks THEN marks - 1 + 1 ELSE 0
        /\ \A i \in 1 .. marks - 1 + 1 : loops[i] = f.loops[1 + i - 1]
    BY <1>6, <2>2, SubSeqProperties, 1 \in Int, marks \in Int
  <2>4. DOMAIN loops = 1 .. Len(loops)
    BY <2>3, LenProperties
  <2> HIDE DEF loops
  <2>5. Len(loops) = marks
    BY <1>6, <2>3
  <2>6. ASSUME NEW i \in 1 .. marks PROVE loops[i] = f.loops[i]
    BY <1>6, <2>3
  <2>7. DOMAIN loops = 1 .. marks
    BY <2>4, <2>5
  <2> QED
    BY <1>3, <2>1, <2>3, <2>5, <2>6, <2>7
<1>8. /\ g \in Frame
      /\ g.scopes = h.scopes /\ g.nest = nest /\ g.loops = loops
      /\ g.moduleScope = f.moduleScope /\ g.path = f.path /\ g.dead = h.dead
  <2>1. g = [h EXCEPT !.nest = nest, !.loops = loops, !.aliases = aliases]
    BY DEF ClosedFrame
  <2> HIDE DEF nest, loops, g, h
  <2> QED
    BY <1>4, <1>5, <1>7, <2>1 DEF Frame
<1>9. /\ Base(g) = Base(f)
      /\ \A i \in 1 .. last : MarksBefore(g, i) = MarksBefore(f, i)
  <2> HIDE DEF g, nest, last, loops, h
  <2>1. ASSUME NEW i \in 1 .. last PROVE MarksBefore(g, i) = MarksBefore(f, i)
    <3>1. CASE i = 1
      BY <3>1 DEF MarksBefore
    <3>2. CASE i # 1
      <4>1. i - 1 \in 1 .. last - 1
        BY <1>2, <3>2
      <4> QED
        BY <1>5, <1>8, <3>2, <4>1 DEF MarksBefore
    <3> QED
      BY <3>1, <3>2
  <2> QED
    BY <1>8, <2>1 DEF Base
<1> HIDE DEF g, nest, last, loops, h, marks
<1>10. Len(g.scopes) \in Nat /\ Len(g.scopes) >= Base(g) + Len(g.nest)
  <2>1. Len(h.scopes) \in Nat
    BY <1>4, LenProperties DEF Frame
  <2>2. Len(h.scopes) >= Base(f) + last - 1
    <3>1. d >= Base(f) + last - 1
      BY DEF last
    <3>2. Len(h.scopes) >= d \/ Len(h.scopes) = Len(f.scopes)
      BY <1>4
    <3>3. Len(f.scopes) >= Base(f) + last /\ last \in Nat /\ Base(f) \in Nat
          /\ Len(f.scopes) \in Nat
      BY <1>1, <1>2, <1>3
    <3> QED
      BY <2>1, <3>1, <3>2, <3>3
  <2> QED
    BY <1>1, <1>2, <1>5, <1>8, <1>9, <2>1, <2>2
<1>11. FrameShape(g)
  <2>1. g.moduleScope => g.path \in Modules
    BY <1>8 DEF GoodFrame, FrameShape
  <2>2. \A i \in DOMAIN g.nest :
          /\ g.nest[i].depth >= Base(g) + i - 1
          /\ g.nest[i].anchors = MarksBefore(g, i)
    <3> TAKE i \in DOMAIN g.nest
    <3>1. i \in 1 .. last - 1 /\ i \in 1 .. last
      BY <1>2, <1>5, <1>8
    <3> QED
      BY <1>3, <1>5, <1>8, <1>9, <3>1
  <2>3. Len(g.loops) = MarksBefore(g, Len(g.nest) + 1)
    <3>1. Len(g.nest) + 1 = last /\ last \in 1 .. last
      BY <1>2, <1>5, <1>8
    <3>2. MarksBefore(g, last) = marks
      BY <1>6, <1>9, <3>1
    <3> QED
      BY <1>7, <1>8, <3>1, <3>2
  <2> QED
    BY <1>4, <1>7, <1>8, <1>9, <1>10, <2>1, <2>2, <2>3 DEF FrameShape
<1>12. g.moduleScope => g.scopes[1] = f.scopes[1]
  <2>1. 1 \in 1 .. Len(h.scopes)
    <3>1. Len(h.scopes) \in Nat /\ Len(h.scopes) >= 1
      BY <1>1, <1>5, <1>8, <1>9, <1>10, <1>2
    <3> QED
      BY <3>1
  <2> QED
    BY <1>4, <1>8, <2>1
<1> QED
  BY <1>8, <1>11, <1>12 DEF GoodFrame, g, nest, last

-----------------------------------------------------------------------------
(* Moving tables.                                                          *)

LEMMA EmptyTableType == EmptyTable \in Table
BY ScopeTypes DEF EmptyTable, Table

(* check_in_module_scope brings every table home and parks the frame.      *)
LEMMA CheckInHome ==
  ASSUME NEW s, Sound(s)
  PROVE  /\ AllHome(CheckIn(s))
         /\ CheckIn(s).frame.nest = s.frame.nest
<1>1. s \in State /\ GoodFrame(s.frame)
  BY DEF Sound, State, GoodFrame
<1>2. CASE ~ s.frame.moduleScope
  BY <1>1, <1>2 DEF CheckIn, Sound, AllHome
<1>3. CASE s.frame.moduleScope
  <2> DEFINE f == s.frame
             m == f.path
             table == [vars |-> f.scopes[1], dead |-> s.moduleDead]
             g == [f EXCEPT !.scopes[1] = EmptyScope]
             kept == [s.store EXCEPT ![m] = table]
             r == [store |-> kept, frame |-> g, moduleDead |-> {}]
  <2>1. CheckIn(s) = r
    BY <1>3 DEF CheckIn
  <2>2. m \in Modules /\ Whole(m, table)
    BY <1>1, <1>3 DEF Sound, GoodFrame, FrameShape
  <2>3. GoodFrame(g) /\ g.scopes[1] = EmptyScope /\ g.moduleScope = f.moduleScope
        /\ g.nest = f.nest
    <3> DEFINE scopes == [f.scopes EXCEPT ![1] = EmptyScope]
    <3> HIDE DEF f
    <3>1. f.scopes \in Seq(Scope) /\ f.dead \in [Names -> Nat]
          /\ Len(f.scopes) \in Nat /\ Base(f) \in Nat /\ Base(f) >= 1
          /\ Len(f.nest) \in Nat
      BY <1>1, LenProperties DEF GoodFrame, Frame, Base, f
    <3>2. 1 \in 1 .. Len(f.scopes)
      <4>1. Len(f.scopes) >= Base(f) + Len(f.nest)
        BY <1>1 DEF GoodFrame, FrameShape, f
      <4> QED
        BY <3>1, <4>1
    <3>3. /\ scopes \in Seq(Scope) /\ Len(scopes) = Len(f.scopes)
          /\ scopes[1] = EmptyScope
      BY <3>1, <3>2, ScopeTypes, WriteScope
    <3>4. Len(scopes) >= Len(f.scopes)
      BY <3>1, <3>3
    <3>5. /\ g = [f EXCEPT !.scopes = scopes, !.dead = f.dead]
          /\ g.scopes = scopes /\ g.moduleScope = f.moduleScope
          /\ g.nest = f.nest
      BY <1>1 DEF GoodFrame, Frame, f
    <3>6. \A n \in Names : f.dead[n] = 0 \/ f.dead[n] >= Base(f)
      BY <1>1 DEF GoodFrame, FrameShape, f
    <3>7. GoodFrame(f)
      BY <1>1 DEF f
    <3>8. GoodFrame([f EXCEPT !.scopes = scopes, !.dead = f.dead])
      <4> HIDE DEF scopes
      <4> QED
        BY <3>1, <3>3, <3>4, <3>6, <3>7, FrameWith
    <3> QED
      BY <3>3, <3>5, <3>8
  <2>4. kept \in [Modules -> Table] /\ \A k \in Modules : Whole(k, kept[k])
    <3>1. s.store \in [Modules -> Table]
      BY <1>1 DEF State
    <3>2. \A k \in Modules : k # m => Whole(k, s.store[k])
      BY <1>3 DEF Sound
    <3>3. table \in Table
      BY <2>2 DEF Whole
    <3>4. kept \in [Modules -> Table]
      <4> HIDE DEF table
      <4> QED
        BY <3>1, <3>3
    <3>5. \A k \in Modules : kept[k] = IF k = m THEN table ELSE s.store[k]
      BY <3>1
    <3> HIDE DEF table, kept
    <3> QED
      BY <2>2, <3>2, <3>4, <3>5
  <2>5. r \in State
    <3> HIDE DEF kept, g
    <3> QED
      BY <2>3, <2>4 DEF State, GoodFrame
  <2>6. AllHome(r)
    <3>1. r.store = kept /\ r.frame = g /\ r.moduleDead = {}
      OBVIOUS
    <3> HIDE DEF r, kept, g
    <3> QED
      BY <2>3, <2>4, <2>5, <3>1 DEF AllHome, GoodFrame
  <2>7. r.frame = g
    OBVIOUS
  <2> HIDE DEF r, g
  <2> QED
    BY <2>1, <2>3, <2>6, <2>7
<1> QED
  BY <1>2, <1>3

(* check_out_module_scope takes the table of the frame's module.           *)
LEMMA CheckOutSound ==
  ASSUME NEW s, AllHome(s)
  PROVE  /\ Sound(CheckOut(s))
         /\ CheckOut(s).frame.nest = s.frame.nest
<1>1. s \in State /\ GoodFrame(s.frame)
  BY DEF AllHome, State, GoodFrame
<1>2. CASE ~ s.frame.moduleScope
  BY <1>1, <1>2 DEF CheckOut, Sound, AllHome
<1>3. CASE s.frame.moduleScope
  <2> DEFINE f == s.frame
             m == f.path
             table == s.store[m]
             g == [f EXCEPT !.scopes[1] = table.vars]
             kept == [s.store EXCEPT ![m] = EmptyTable]
             r == [store |-> kept, frame |-> g, moduleDead |-> table.dead]
  <2>1. CheckOut(s) = r
    BY <1>3 DEF CheckOut
  <2>2. m \in Modules /\ Whole(m, table)
    BY <1>1, <1>3 DEF AllHome, GoodFrame, FrameShape
  <2>3. table \in Table /\ table = [vars |-> table.vars, dead |-> table.dead]
        /\ table.vars \in Scope /\ table.dead \in SUBSET Names
    <3> HIDE DEF table
    <3> QED
      BY <2>2 DEF Whole, Table
  <2>4. GoodFrame(g) /\ g.scopes[1] = table.vars /\ g.moduleScope = f.moduleScope
        /\ g.path = m /\ g.nest = f.nest
    <3> DEFINE scopes == [f.scopes EXCEPT ![1] = table.vars]
    <3> HIDE DEF f, table
    <3>1. f.scopes \in Seq(Scope) /\ f.dead \in [Names -> Nat]
          /\ Len(f.scopes) \in Nat /\ Base(f) \in Nat /\ Base(f) >= 1
          /\ Len(f.nest) \in Nat
      BY <1>1, LenProperties DEF GoodFrame, Frame, Base, f
    <3>2. 1 \in 1 .. Len(f.scopes)
      <4>1. Len(f.scopes) >= Base(f) + Len(f.nest)
        BY <1>1 DEF GoodFrame, FrameShape, f
      <4> QED
        BY <3>1, <4>1
    <3>3. /\ scopes \in Seq(Scope) /\ Len(scopes) = Len(f.scopes)
          /\ scopes[1] = table.vars
      BY <2>3, <3>1, <3>2, WriteScope
    <3>4. Len(scopes) >= Len(f.scopes)
      BY <3>1, <3>3
    <3>5. /\ g = [f EXCEPT !.scopes = scopes, !.dead = f.dead]
          /\ g.scopes = scopes /\ g.moduleScope = f.moduleScope
          /\ g.nest = f.nest /\ g.path = f.path
      BY <1>1 DEF GoodFrame, Frame, f
    <3>6. \A n \in Names : f.dead[n] = 0 \/ f.dead[n] >= Base(f)
      BY <1>1 DEF GoodFrame, FrameShape, f
    <3>7. GoodFrame(f)
      BY <1>1 DEF f
    <3>8. GoodFrame([f EXCEPT !.scopes = scopes, !.dead = f.dead])
      <4> HIDE DEF scopes
      <4> QED
        BY <3>1, <3>3, <3>4, <3>6, <3>7, FrameWith
    <3> QED
      BY <3>3, <3>5, <3>8
  <2>5. /\ kept \in [Modules -> Table] /\ kept[m] = EmptyTable
        /\ \A k \in Modules : k # m => Whole(k, kept[k])
    <3>1. s.store \in [Modules -> Table] /\ \A k \in Modules : Whole(k, s.store[k])
      BY <1>1 DEF State, AllHome
    <3> QED
      BY <2>2, <3>1, EmptyTableType
  <2>6. r \in State
    <3> HIDE DEF kept, g, table
    <3> QED
      BY <2>3, <2>4, <2>5 DEF State, GoodFrame
  <2>7. Sound(r)
    <3>1. r.store = kept /\ r.frame = g /\ r.moduleDead = table.dead
      OBVIOUS
    <3>2. g.moduleScope /\ g.path = m
      BY <1>3, <2>4
    <3>3. Whole(m, [vars |-> g.scopes[1], dead |-> table.dead])
      BY <2>2, <2>3, <2>4
    <3> HIDE DEF r, kept, g, table, m
    <3> QED
      BY <2>4, <2>5, <2>6, <3>1, <3>2, <3>3 DEF Sound, GoodFrame
  <2>8. r.frame = g
    OBVIOUS
  <2> HIDE DEF r, g
  <2> QED
    BY <2>1, <2>4, <2>7, <2>8
<1> QED
  BY <1>2, <1>3

(* A frame of the callee's own.                                            *)
LEMMA FreshGood ==
  ASSUME NEW scope \in Scope, NEW aliases \in Files
  PROVE  LET f == FreshFrame(scope, aliases)
         IN  GoodFrame(f) /\ ~ f.moduleScope /\ f.nest = <<>>
<1> DEFINE f == FreshFrame(scope, aliases)
<1>1. /\ <<scope>> \in Seq(Scope) /\ Len(<<scope>>) = 1
      /\ <<>> \in Seq(Nat) /\ <<>> \in Seq(Construct)
  OBVIOUS
<1>2. /\ f.scopes = <<scope>> /\ f.loops = <<>> /\ f.nest = <<>>
      /\ f.moduleScope = FALSE /\ f.dead = [n \in Names |-> 0]
      /\ f.path = Script
  BY DEF FreshFrame
<1>3. f \in Frame
  <2>1. Script \in Files
    BY DEF Files
  <2>2. [n \in Names |-> 0] \in [Names -> Nat]
    OBVIOUS
  <2> QED
    BY <1>1, <2>1, <2>2 DEF FreshFrame, Frame
<1> HIDE DEF f
<1>4. FrameShape(f)
  <2>1. Base(f) = 1 /\ MarksBefore(f, 1) = 0
    BY <1>2 DEF Base, MarksBefore
  <2>2. Len(f.nest) = 0 /\ Len(f.loops) = 0 /\ Len(f.scopes) = 1
    BY <1>1, <1>2
  <2>3. DOMAIN f.nest = {} /\ DOMAIN f.loops = {}
    BY <1>2
  <2>4. Len(f.nest) + 1 = 1
    BY <1>2
  <2>5. Len(f.loops) = MarksBefore(f, Len(f.nest) + 1)
    BY <2>1, <2>2, <2>4
  <2>6. Len(f.scopes) >= Base(f) + Len(f.nest)
    BY <2>1, <2>2
  <2> QED
    BY <1>2, <2>1, <2>3, <2>5, <2>6 DEF FrameShape
<1> QED
  BY <1>2, <1>3, <1>4 DEF GoodFrame, f

(* take_call_state leaves every table home.                                *)
LEMMA TakenHome ==
  ASSUME NEW s, Sound(s), NEW aliases \in Files
  PROVE  LET taken == TakeCallState(s, aliases)
         IN  /\ AllHome(taken.now)
             /\ taken.now.frame = FreshFrame(EmptyScope, aliases)
             /\ Parked(taken.saved)
             /\ taken.saved.nest = s.frame.nest
<1> DEFINE in == CheckIn(s)
           f == FreshFrame(EmptyScope, aliases)
           now == [in EXCEPT !.frame = f]
<1>1. AllHome(in) /\ in.frame.nest = s.frame.nest
  BY CheckInHome
<1>2. TakeCallState(s, aliases) = [saved |-> in.frame, now |-> now]
  BY DEF TakeCallState
<1>3. GoodFrame(f) /\ ~ f.moduleScope
  BY ScopeTypes, FreshGood
<1> HIDE DEF f, in
<1>4. /\ now \in State /\ now.frame = f /\ now.store = in.store
      /\ now.moduleDead = in.moduleDead
  BY <1>1, <1>3 DEF AllHome, State, GoodFrame
<1>5. AllHome(now)
  <2> HIDE DEF now
  <2> QED
    BY <1>1, <1>3, <1>4 DEF AllHome, GoodFrame
<1>6. Parked(in.frame)
  BY <1>1 DEF AllHome, Parked, GoodFrame, State
<1> HIDE DEF now
<1> QED
  BY <1>1, <1>2, <1>4, <1>5, <1>6 DEF f

(* The callee's frame, over its module's table.                            *)
LEMMA ModuleFrameSound ==
  ASSUME NEW s, AllHome(s), NEW aliases \in Files,
         s.frame = FreshFrame(EmptyScope, aliases),
         NEW m \in Modules, NEW params \in Scope
  PROVE  /\ Sound(ModuleFrame(s, m, params))
         /\ ModuleFrame(s, m, params).frame.nest = <<>>
<1> DEFINE table == s.store[m]
           scopes == <<table.vars, params>>
           g == [s.frame EXCEPT !.scopes = scopes, !.moduleScope = TRUE,
                                !.path = m, !.aliases = m]
           kept == [s.store EXCEPT ![m] = EmptyTable]
           r == [store |-> kept, frame |-> g, moduleDead |-> table.dead]
<1>1. ModuleFrame(s, m, params) = r
  BY DEF ModuleFrame
<1>2. /\ s.store \in [Modules -> Table] /\ s.frame \in Frame
      /\ \A k \in Modules : Whole(k, s.store[k])
  BY DEF AllHome, State
<1>3. /\ table.vars \in Scope /\ table.dead \in SUBSET Names
      /\ Whole(m, table) /\ table = [vars |-> table.vars, dead |-> table.dead]
  <2>1. Whole(m, table) /\ table \in Table
    BY <1>2 DEF Whole
  <2> HIDE DEF table
  <2> QED
    BY <2>1 DEF Table
<1>4. /\ kept \in [Modules -> Table] /\ kept[m] = EmptyTable
      /\ \A k \in Modules : k # m => Whole(k, kept[k])
  BY <1>2, EmptyTableType
<1>5. scopes \in Seq(Scope) /\ Len(scopes) >= 2 /\ scopes[1] = table.vars
  <2> HIDE DEF table
  <2> QED
    BY <1>3
<1>6. /\ s.frame.loops = <<>> /\ s.frame.nest = <<>>
      /\ s.frame.dead = [n \in Names |-> 0]
  BY DEF FreshFrame
<1>7. /\ g \in Frame
      /\ g.scopes = scopes /\ g.moduleScope = TRUE /\ g.path = m
      /\ g.loops = <<>> /\ g.nest = <<>> /\ g.dead = [n \in Names |-> 0]
  <2> HIDE DEF scopes
  <2>1. m \in Files
    BY DEF Files
  <2> QED
    BY <1>2, <1>5, <1>6, <2>1 DEF Frame
<1> HIDE DEF g, scopes, kept, table
<1>8. FrameShape(g)
  <2>1. Base(g) = 2 /\ MarksBefore(g, 1) = 0
    BY <1>7 DEF Base, MarksBefore
  <2>2. Len(g.nest) = 0 /\ Len(g.loops) = 0
    BY <1>7
  <2>3. DOMAIN g.nest = {} /\ DOMAIN g.loops = {}
    BY <1>7
  <2>4. Len(g.nest) + 1 = 1
    BY <1>7
  <2>5. Len(g.loops) = MarksBefore(g, Len(g.nest) + 1)
    BY <2>1, <2>2, <2>4
  <2>6. Len(g.scopes) >= Base(g) + Len(g.nest)
    BY <1>5, <1>7, <2>1, <2>2
  <2> QED
    BY <1>7, <2>1, <2>3, <2>5, <2>6 DEF FrameShape
<1>9. r \in State
  BY <1>3, <1>4, <1>7 DEF State
<1>10. r.store = kept /\ r.frame = g /\ r.moduleDead = table.dead
  OBVIOUS
<1>11. Whole(m, [vars |-> g.scopes[1], dead |-> table.dead])
  BY <1>3, <1>5, <1>7
<1> HIDE DEF r
<1>12. Sound(r)
  BY <1>4, <1>7, <1>8, <1>9, <1>10, <1>11 DEF Sound
<1> QED
  BY <1>1, <1>7, <1>10, <1>12

(* The callee's frame, outside every module.                               *)
LEMMA ScriptFrameSound ==
  ASSUME NEW s, AllHome(s), NEW aliases \in Files,
         s.frame = FreshFrame(EmptyScope, aliases), NEW params \in Scope
  PROVE  /\ Sound(ScriptFrame(s, params))
         /\ ScriptFrame(s, params).frame.nest = <<>>
<1> DEFINE f == s.frame
           scopes == <<params>>
           g == [f EXCEPT !.scopes = scopes, !.dead = f.dead]
           r == [s EXCEPT !.frame = g]
<1>1. s \in State /\ f \in Frame /\ GoodFrame(f)
  BY DEF AllHome, State, GoodFrame
<1>2. ScriptFrame(s, params) = r
  BY <1>1 DEF ScriptFrame, State, Frame
<1>3. ~ f.moduleScope /\ f.nest = <<>> /\ f.scopes = <<EmptyScope>>
  BY DEF FreshFrame
<1>4. /\ scopes \in Seq(Scope) /\ Len(scopes) >= Len(<<EmptyScope>>)
      /\ f.dead \in [Names -> Nat]
      /\ \A n \in Names : f.dead[n] = 0 \/ f.dead[n] >= Base(f)
  BY <1>1 DEF Frame, GoodFrame, FrameShape
<1>5. GoodFrame(g)
  <2> HIDE DEF f, scopes
  <2> QED
    BY <1>1, <1>3, <1>4, FrameWith
<1>6. g.moduleScope = f.moduleScope /\ g.nest = f.nest
  <2> HIDE DEF f, scopes
  <2> QED
    BY <1>1 DEF Frame
<1> HIDE DEF g
<1>7. /\ r \in State /\ r.frame = g /\ r.store = s.store
      /\ r.moduleDead = s.moduleDead
  BY <1>1, <1>5 DEF State, GoodFrame
<1> HIDE DEF r
<1>8. Sound(r)
  BY <1>3, <1>5, <1>6, <1>7 DEF AllHome, Sound, GoodFrame
<1> QED
  BY <1>2, <1>3, <1>6, <1>7, <1>8

(* A frame all of whose constructs have been left.                         *)
EndedFrame(f) == [PopTo(f, Base(f)) EXCEPT !.nest = <<>>, !.loops = <<>>]

LEMMA EndedGood ==
  ASSUME NEW f, GoodFrame(f)
  PROVE  LET g == EndedFrame(f)
         IN  /\ GoodFrame(g)
             /\ g.moduleScope = f.moduleScope /\ g.path = f.path
             /\ g.moduleScope => g.scopes[1] = f.scopes[1]
<1> DEFINE h == PopTo(f, Base(f))
           g == EndedFrame(f)
<1>1. /\ f \in Frame /\ Base(f) \in Nat /\ Base(f) >= 1
      /\ Len(f.scopes) \in Nat /\ Len(f.nest) \in Nat
  BY LenProperties DEF GoodFrame, Frame, Base
<1>2. /\ Len(f.scopes) >= Base(f)
      /\ \A n \in Names : f.dead[n] = 0 \/ f.dead[n] >= Base(f)
  BY <1>1 DEF GoodFrame, FrameShape
<1>3. /\ h \in Frame
      /\ h.moduleScope = f.moduleScope /\ h.path = f.path
      /\ Len(h.scopes) >= Base(f) \/ Len(h.scopes) = Len(f.scopes)
      /\ \A i \in 1 .. Len(h.scopes) : h.scopes[i] = f.scopes[i]
      /\ \A n \in Names : h.dead[n] = 0 \/ h.dead[n] >= Base(f)
  BY <1>1, <1>2, PopToFrame
<1> HIDE DEF h
<1>4. <<>> \in Seq(Nat) /\ <<>> \in Seq(Construct)
  OBVIOUS
<1>5. /\ g \in Frame /\ g.nest = <<>> /\ g.loops = <<>>
      /\ g.scopes = h.scopes /\ g.dead = h.dead
      /\ g.moduleScope = f.moduleScope /\ g.path = f.path
  BY <1>3, <1>4 DEF Frame, EndedFrame, h
<1> HIDE DEF g
<1>6. Base(g) = Base(f) /\ MarksBefore(g, 1) = 0
  BY <1>5 DEF Base, MarksBefore
<1>7. Len(h.scopes) \in Nat /\ Len(h.scopes) >= Base(f)
  <2>1. Len(h.scopes) \in Nat
    BY <1>3, LenProperties DEF Frame
  <2> QED
    BY <1>1, <1>2, <1>3, <2>1
<1>8. FrameShape(g)
  <2>1. DOMAIN g.nest = {} /\ DOMAIN g.loops = {}
    BY <1>5
  <2>2. Len(g.nest) = 0 /\ Len(g.loops) = 0 /\ Len(g.nest) + 1 = 1
    BY <1>5
  <2>3. Len(g.loops) = MarksBefore(g, Len(g.nest) + 1)
    BY <1>6, <2>2
  <2>4. Len(g.scopes) >= Base(g) + Len(g.nest)
    BY <1>1, <1>5, <1>6, <1>7, <2>2
  <2>5. g.moduleScope => g.path \in Modules
    BY <1>5 DEF GoodFrame, FrameShape
  <2> QED
    BY <1>3, <1>5, <1>6, <2>1, <2>3, <2>4, <2>5 DEF FrameShape
<1>9. 1 \in 1 .. Len(h.scopes)
  BY <1>1, <1>7
<1> QED
  BY <1>3, <1>5, <1>8, <1>9 DEF GoodFrame, g, h

(* The caller with its scopes back, before and after its module's table:   *)
(* restore_call_state.                                                     *)
Waiting(ending) ==
  [CheckIn([Now EXCEPT !.frame = ending]) EXCEPT !.frame = CallerOf.saved]

Back(ending) == CheckOut(Waiting(ending))

LEMMA BackSound ==
  ASSUME IInv, stack # <<>>, NEW ending, GoodFrame(ending),
         ending.moduleScope = frame.moduleScope, ending.path = frame.path,
         ending.moduleScope => ending.scopes[1] = frame.scopes[1]
  PROVE  /\ Sound([Now EXCEPT !.frame = ending])
         /\ AllHome(Waiting(ending))
         /\ Waiting(ending).frame = CallerOf.saved
         /\ Waiting(ending).store = CheckIn([Now EXCEPT !.frame = ending]).store
         /\ Sound(Back(ending))
         /\ Back(ending).frame.nest = CallerOf.saved.nest
<1> DEFINE act == CallerOf
           s == [Now EXCEPT !.frame = ending]
           in == CheckIn(s)
           waiting == Waiting(ending)
<1>1. Parked(act.saved)
  <2>1. Len(stack) \in DOMAIN stack
    <3>1. stack \in Seq(Activation)
      BY DEF IInv
    <3> QED
      BY <3>1, LenProperties, EmptySeq
  <2> QED
    BY <2>1 DEF IInv, CallerOf
<1>2. Sound(s)
  <2>1. Sound(Now) /\ Now.frame = frame
    BY DEF IInv, Now
  <2> QED
    BY <2>1, OwnChange
<1>3. AllHome(in)
  <2> HIDE DEF s
  <2> QED
    BY <1>2, CheckInHome
<1> HIDE DEF in, act
<1>4. waiting = [in EXCEPT !.frame = act.saved]
  BY DEF Waiting, in, act
<1>5. /\ waiting \in State /\ waiting.frame = act.saved
      /\ waiting.store = in.store /\ waiting.moduleDead = in.moduleDead
  BY <1>1, <1>3, <1>4 DEF AllHome, State, Parked, GoodFrame
<1> HIDE DEF waiting
<1>6. AllHome(waiting)
  BY <1>1, <1>3, <1>5 DEF AllHome, Parked, GoodFrame
<1>7. Sound(CheckOut(waiting)) /\ CheckOut(waiting).frame.nest = act.saved.nest
  BY <1>5, <1>6, CheckOutSound
<1> QED
  BY <1>2, <1>5, <1>6, <1>7 DEF Back, waiting, in, act

(* Giving a frame that was set aside its table back, and what it was       *)
(* promised: restore_call_state and the output arguments.                  *)
LEMMA ResumedSound ==
  ASSUME IInv, stack # <<>>, NEW ending, GoodFrame(ending),
         ending.moduleScope = frame.moduleScope, ending.path = frame.path,
         ending.moduleScope => ending.scopes[1] = frame.scopes[1],
         NEW pairs \in SUBSET (Names \X Names)
  PROVE  /\ Sound(Resumed(ending, pairs))
         /\ Resumed(ending, pairs).frame.nest = CallerOf.saved.nest
<1> DEFINE back == Back(ending)
<1>1. Sound(back) /\ back.frame.nest = CallerOf.saved.nest
  BY BackSound
<1> HIDE DEF back
<1>2. CASE pairs = {}
  <2>1. Resumed(ending, pairs) = back
    BY <1>2 DEF Resumed, back, Back, Waiting
  <2> QED
    BY <1>1, <2>1
<1>3. CASE pairs # {}
  <2> DEFINE pair == CHOOSE p \in pairs : TRUE
             value == TakeVariable(ending, pair[1], Unit)
  <2>1. Resumed(ending, pairs) = SetVariable(back, pair[2], value)
    BY <1>3 DEF Resumed, back, Back, Waiting
  <2>2. pair \in Names \X Names
    BY <1>3
  <2> HIDE DEF pair
  <2>3. pair[1] \in Names /\ pair[2] \in Names
    BY <2>2
  <2>4. value \in AnyValue
    <3>1. ending.scopes \in Seq(Scope)
      BY DEF GoodFrame, Frame
    <3>2. CASE OwnHolders(ending, pair[1]) = {}
      BY <3>2 DEF TakeVariable, AnyValue
    <3>3. CASE OwnHolders(ending, pair[1]) # {}
      <4>1. InView(ending.scopes, pair[1])
        BY <3>3 DEF OwnHolders, InView
      <4>2. ValueOf(ending.scopes, pair[1]) \in AnyValue
        BY <2>3, <3>1, <4>1, ValueOfType
      <4> QED
        BY <3>3, <4>2 DEF TakeVariable
    <3> QED
      BY <3>2, <3>3
  <2> HIDE DEF value
  <2> QED
    BY <1>1, <2>1, <2>3, <2>4, SetVariableSound
<1> QED
  BY <1>2, <1>3

-----------------------------------------------------------------------------
(* The invariant.                                                          *)

LEMMA Becomes ==
  \A s \in State : Become(s) =>
    Now' = s /\ frame' = s.frame /\ store' = s.store
BY DEF State, Become, Now

(* A step that changes the running frame and the tables, and nothing else  *)
(* that IInv is about.                                                     *)
LEMMA NowStep ==
  ASSUME IInv, Sound(Now'), stack' = stack, functions' = functions,
         pending' = pending, activeCalls' \in Int, mode' \in {"run", "error", "stopped"}
  PROVE  IInv'
BY DEF IInv

LEMMA NowFields ==
  /\ Now.store = store /\ Now.frame = frame /\ Now.moduleDead = moduleDead
  /\ IInv => Now \in State /\ GoodFrame(frame)
BY DEF Now, IInv, Sound, State, GoodFrame

(* A step of the frame that leaves its module's table alone.               *)
LEMMA FrameStep ==
  ASSUME IInv, GoodFrame(frame'),
         frame'.moduleScope = frame.moduleScope, frame'.path = frame.path,
         frame'.moduleScope => frame'.scopes[1] = frame.scopes[1],
         UNCHANGED <<store, moduleDead>>
  PROVE  Sound(Now')
<1>1. Now' = [Now EXCEPT !.frame = frame']
  BY DEF Now
<1>2. Sound(Now) /\ Now.frame = frame
  BY DEF IInv, Now
<1>3. \A g : /\ GoodFrame(g)
             /\ g.moduleScope = frame.moduleScope /\ g.path = frame.path
             /\ (g.moduleScope => g.scopes[1] = frame.scopes[1])
             => Sound([Now EXCEPT !.frame = g])
  BY <1>2, OwnChange
<1> QED
  BY <1>1, <1>3

LEMMA AnyValues ==
  Values \subseteq AnyValue /\ Unit \in AnyValue /\ Initial \in Values
BY ConstantsAssumption DEF AnyValue

(* Statements.                                                             *)
LEMMA StatementsStep ==
  ASSUME IInv, Statements
  PROVE  IInv'
<1>1. /\ Now \in State /\ GoodFrame(frame) /\ Now.frame = frame
      /\ Sound(Now)
  BY NowFields DEF IInv
<1>2. ASSUME NEW n \in Names, NEW v \in Values, Assign(n, v) PROVE IInv'
  <2>1. Sound(SetVariable(Now, n, v))
    BY <1>1, AnyValues, SetVariableSound
  <2>2. Now' = SetVariable(Now, n, v)
    BY <1>2, <2>1, Becomes DEF Assign, Sound
  <2> QED
    BY <1>2, <2>1, <2>2, NowStep DEF Assign, IInv
<1>3. ASSUME NEW n \in Names, NEW v \in Values, NEW above \in BOOLEAN,
             AssignHot(n, v, above)
      PROVE  IInv'
  <2> DEFINE at == IF above THEN AboveNearestLoop(frame) ELSE NearestLoop(frame)
             placed == IF InView(frame.scopes, n) THEN frame
                       ELSE SetAt(frame, at, n, Initial)
             s == [Now EXCEPT !.frame = placed]
  <2>1. at \in Nat /\ at >= Base(frame)
    BY <1>1, LoopPlaces
  <2>2. /\ GoodFrame(placed)
        /\ placed.moduleScope = frame.moduleScope /\ placed.path = frame.path
        /\ placed.moduleScope => placed.scopes[1] = frame.scopes[1]
    <3> HIDE DEF at
    <3> QED
      BY <1>1, <2>1, AnyValues, SetAtFrame
  <2>3. Sound(s)
    <3> HIDE DEF placed
    <3> QED
      BY <1>1, <2>2, OwnChange
  <2>4. Sound(SetVariable(s, n, v))
    <3> HIDE DEF s
    <3> QED
      BY <2>3, AnyValues, SetVariableSound
  <2>5. Now' = SetVariable(s, n, v)
    <3>1. Become(SetVariable(s, n, v))
      BY <1>3 DEF AssignHot
    <3> HIDE DEF s
    <3> QED
      BY <2>4, <3>1, Becomes DEF Sound
  <2> HIDE DEF s
  <2> QED
    BY <1>3, <2>4, <2>5, NowStep DEF AssignHot, IInv
<1>4. ASSUME NEW n \in Names, NEW above \in BOOLEAN, AssignHotFails(n, above)
      PROVE  IInv'
  <2> DEFINE at == IF above THEN AboveNearestLoop(frame) ELSE NearestLoop(frame)
             placed == SetAt(frame, at, n, Initial)
  <2>1. at \in Nat /\ at >= Base(frame)
    BY <1>1, LoopPlaces
  <2>2. /\ GoodFrame(placed)
        /\ placed.moduleScope = frame.moduleScope /\ placed.path = frame.path
        /\ placed.moduleScope => placed.scopes[1] = frame.scopes[1]
    <3> HIDE DEF at
    <3> QED
      BY <1>1, <2>1, AnyValues, SetAtFrame
  <2>3. frame' = placed
    BY <1>4 DEF AssignHotFails
  <2> HIDE DEF placed
  <2>4. Sound(Now')
    BY <1>4, <2>2, <2>3, FrameStep DEF AssignHotFails
  <2> QED
    BY <1>4, <2>4, NowStep DEF AssignHotFails, IInv
<1>5. ASSUME Raising PROVE IInv'
  <2>1. Now' = Now
    BY <1>5 DEF Raising, Now
  <2> QED
    BY <1>1, <1>5, <2>1, NowStep DEF Raising, IInv
<1>6. ASSUME NEW n \in Names, EndVariable(n) PROVE IInv'
  <2>1. CASE InView(frame.scopes, n)
    <3>1. Sound(Destroy(Now, n))
      BY <1>1, <2>1, DestroySound
    <3>2. Now' = Destroy(Now, n)
      BY <1>6, <2>1, <3>1, Becomes DEF EndVariable, Sound
    <3> QED
      BY <1>6, <2>1, <3>1, <3>2, NowStep DEF EndVariable, IInv
  <2>2. CASE ~ InView(frame.scopes, n)
    BY <1>5, <1>6, <2>2 DEF EndVariable
  <2> QED
    BY <2>1, <2>2
<1> QED
  BY <1>2, <1>3, <1>4, <1>5, <1>6 DEF Statements, Raise

(* What the innermost construct remembers.                                 *)
LEMMA InnermostConstruct ==
  ASSUME NEW f, GoodFrame(f), f.nest # <<>>
  PROVE  LET c == f.nest[Len(f.nest)]
         IN  /\ c \in Construct
             /\ c.depth >= Base(f) + Len(f.nest) - 1
             /\ Len(f.scopes) >= Base(f) + Len(f.nest)
             /\ Len(f.loops) = c.anchors + (IF c.kind = "loop" THEN 1 ELSE 0)
<1> DEFINE last == Len(f.nest)
           k == last + 1
<1>1. f.nest \in Seq(Construct)
  BY DEF GoodFrame, Frame
<1>2. last \in Nat /\ last >= 1 /\ DOMAIN f.nest = 1 .. last
  BY <1>1, LenProperties, EmptySeq
<1>3. f.nest[last] \in Construct
  BY <1>1, <1>2, ElementOfSeq
<1> HIDE DEF last
<1>4. last \in DOMAIN f.nest /\ k - 1 = last /\ k # 1
  BY <1>2
<1>5. /\ f.nest[last].depth >= Base(f) + last - 1
      /\ Len(f.scopes) >= Base(f) + last
      /\ Len(f.loops) = MarksBefore(f, k)
  BY <1>4 DEF GoodFrame, FrameShape, last
<1> HIDE DEF k
<1>6. MarksBefore(f, k) = f.nest[last].anchors
                          + (IF f.nest[last].kind = "loop" THEN 1 ELSE 0)
  BY <1>4 DEF MarksBefore
<1> QED
  BY <1>3, <1>5, <1>6 DEF last

(* The actions that open and close constructs, in these terms.             *)
LEMMA OpeningIs ==
  ASSUME NEW f, GoodFrame(f), NEW kind \in Kinds, kind # "loop",
         NEW aliases \in Files
  PROVE  /\ PushScope(Opening(f, kind), EmptyScope)
              = OpenedFrame(f, kind, EmptyScope, f.aliases)
         /\ [PushScope(Opening(f, kind), EmptyScope) EXCEPT !.aliases = aliases]
              = OpenedFrame(f, kind, EmptyScope, aliases)
BY DEF PushScope, Opening, OpenedFrame, GoodFrame, Frame

LEMMA OpeningLoopIs ==
  ASSUME NEW f, GoodFrame(f)
  PROVE  [PushScope(Opening(f, "loop"), EmptyScope)
            EXCEPT !.loops = Append(@, Len(f.scopes) + 1)]
           = OpenedFrame(f, "loop", EmptyScope, f.aliases)
BY DEF PushScope, Opening, OpenedFrame, GoodFrame, Frame

(* How far pop_scope goes.                                                 *)
OneLess(f) == IF Len(f.scopes) > 1 THEN Len(f.scopes) - 1 ELSE 1

LEMMA ClosingIs ==
  ASSUME NEW f, GoodFrame(f), f.nest # <<>>, NEW aliases \in Files
  PROVE  LET c == f.nest[Len(f.nest)]
         IN  /\ c.kind # "loop" =>
                  Popped(PopScope([f EXCEPT !.aliases = aliases]))
                    = ClosedFrame(f, OneLess(f), aliases)
             /\ c.kind # "loop" =>
                  Popped(PopScope(f)) = ClosedFrame(f, OneLess(f), f.aliases)
             /\ c.kind = "loop" =>
                  Popped(LeaveLoopOf(f)) = ClosedFrame(f, OneLess(f), f.aliases)
             /\ c.kind # "loop" =>
                  Popped(f) = ClosedFrame(f, Len(f.scopes), f.aliases)
             /\ Popped(UnwindTo(f, c)) = ClosedFrame(f, c.depth, f.aliases)
             /\ OneLess(f) \in Nat /\ OneLess(f) >= Base(f) + Len(f.nest) - 1
<1> DEFINE c == f.nest[Len(f.nest)]
<1>1. /\ c \in Construct /\ f \in Frame /\ f.loops \in Seq(Nat)
      /\ c.depth >= Base(f) + Len(f.nest) - 1
      /\ Len(f.scopes) >= Base(f) + Len(f.nest)
      /\ Len(f.loops) = c.anchors + (IF c.kind = "loop" THEN 1 ELSE 0)
      /\ c.anchors \in Nat /\ c.depth \in Nat
  BY InnermostConstruct DEF GoodFrame, Frame, Construct
<1>2. /\ Len(f.scopes) \in Nat /\ Base(f) \in Nat /\ Base(f) >= 1
      /\ Len(f.nest) \in Nat /\ Len(f.loops) \in Nat
  BY LenProperties DEF GoodFrame, Frame, Base
<1>3. OneLess(f) \in Nat /\ OneLess(f) >= Base(f) + Len(f.nest) - 1
  BY <1>1, <1>2 DEF OneLess
<1>4. c.kind # "loop" => SubSeq(f.loops, 1, c.anchors) = f.loops
  <2>1. SubSeq(f.loops, 1, Len(f.loops)) = f.loops
    BY <1>1, SubSeqFull
  <2>2. c.kind # "loop" => Len(f.loops) = c.anchors
    BY <1>1
  <2> HIDE DEF c
  <2> QED
    BY <2>1, <2>2
<1>5. c.kind = "loop" => Len(f.loops) - 1 = c.anchors
  BY <1>1
<1> HIDE DEF c
<1>6. c.kind # "loop" => Popped(PopScope([f EXCEPT !.aliases = aliases]))
                           = ClosedFrame(f, OneLess(f), aliases)
  BY Zenon, <1>1, <1>4 DEF Popped, PopScope, PopTo, ClosedFrame, OneLess, Frame, c
<1>7. c.kind # "loop" => Popped(PopScope(f))
                           = ClosedFrame(f, OneLess(f), f.aliases)
  BY <1>1, <1>4 DEF Popped, PopScope, PopTo, ClosedFrame, OneLess, Frame, c
<1>8. c.kind = "loop" => Popped(LeaveLoopOf(f))
                           = ClosedFrame(f, OneLess(f), f.aliases)
  BY Zenon, <1>1, <1>5
     DEF LeaveLoopOf, Popped, PopScope, PopTo, ClosedFrame, OneLess, Frame, c
<1>9. c.kind # "loop" => Popped(f) = ClosedFrame(f, Len(f.scopes), f.aliases)
  <2>1. PopTo(f, Len(f.scopes)) = f
    BY <1>2 DEF PopTo
  <2> QED
    BY <1>1, <1>4, <2>1 DEF Popped, ClosedFrame, Frame, c
<1>10. Popped(UnwindTo(f, c)) = ClosedFrame(f, c.depth, f.aliases)
  BY <1>1 DEF UnwindTo, Popped, PopTo, ClosedFrame, Frame, c
<1> QED
  BY <1>3, <1>6, <1>7, <1>8, <1>9, <1>10 DEF c

(* Blocks, loops, `!?` and lambdas.                                        *)

(* A frame in which one of the running frame's constructs was closed.      *)
LEMMA ClosedStep ==
  ASSUME IInv, frame.nest # <<>>, NEW d \in Nat,
         d >= Base(frame) + Len(frame.nest) - 1,
         NEW aliases \in Files
  PROVE  LET g == ClosedFrame(frame, d, aliases)
         IN  /\ GoodFrame(g)
             /\ g.moduleScope = frame.moduleScope /\ g.path = frame.path
             /\ g.moduleScope => g.scopes[1] = frame.scopes[1]
BY NowFields, ClosedGood

LEMMA ConstructsStep ==
  ASSUME IInv, Constructs
  PROVE  IInv'
<1>1. GoodFrame(frame) /\ frame.aliases \in Files
  BY NowFields DEF GoodFrame, Frame
<1>2. ASSUME NEW kind \in Kinds, NEW aliases \in Files,
             frame' = OpenedFrame(frame, kind, EmptyScope, aliases),
             UNCHANGED <<store, moduleDead, functions, stack, pending, activeCalls,
                       mode>>
      PROVE  IInv'
  <2> DEFINE g == OpenedFrame(frame, kind, EmptyScope, aliases)
  <2>1. /\ GoodFrame(g)
        /\ g.moduleScope = frame.moduleScope /\ g.path = frame.path
        /\ g.moduleScope => g.scopes[1] = frame.scopes[1]
    BY <1>1, ScopeTypes, OpenedGood
  <2> HIDE DEF g
  <2>2. frame' = g
    BY <1>2 DEF g
  <2>3. Sound(Now')
    BY <1>2, <2>1, <2>2, FrameStep
  <2> QED
    BY <1>2, <2>3, NowStep DEF IInv
<1>3. ASSUME NEW d \in Nat, NEW aliases \in Files, frame.nest # <<>>,
             d >= Base(frame) + Len(frame.nest) - 1,
             frame' = ClosedFrame(frame, d, aliases),
             activeCalls' \in Int,
             UNCHANGED <<store, moduleDead, functions, stack, pending, mode>>
      PROVE  IInv'
  <2> DEFINE g == ClosedFrame(frame, d, aliases)
  <2>1. /\ GoodFrame(g)
        /\ g.moduleScope = frame.moduleScope /\ g.path = frame.path
        /\ g.moduleScope => g.scopes[1] = frame.scopes[1]
    BY <1>3, ClosedStep
  <2> HIDE DEF g
  <2>2. frame' = g
    BY <1>3 DEF g
  <2>3. Sound(Now')
    BY <1>3, <2>1, <2>2, FrameStep
  <2> QED
    BY <1>3, <2>3, NowStep DEF IInv
<1>4. CASE EnterBlock
  <2>1. frame' = OpenedFrame(frame, "block", EmptyScope, frame.aliases)
    BY <1>1, <1>4, OpeningIs DEF EnterBlock, Kinds
  <2> QED
    BY <1>1, <1>2, <1>4, <2>1 DEF EnterBlock, Kinds
<1>5. CASE EnterLoop
  <2>1. frame' = OpenedFrame(frame, "loop", EmptyScope, frame.aliases)
    <3>1. frame' = [PushScope(Opening(frame, "loop"), EmptyScope)
                      EXCEPT !.loops = Append(@, Len(frame.scopes) + 1)]
      BY <1>5 DEF EnterLoop
    <3> QED
      BY <1>1, <3>1, OpeningLoopIs
  <2> QED
    BY <1>1, <1>2, <1>5, <2>1 DEF EnterLoop, Kinds
<1>6. CASE EnterTry
  <2>1. frame' = OpenedFrame(frame, "try", EmptyScope, frame.aliases)
    BY <1>1, <1>6, OpeningIs DEF EnterTry, Kinds
  <2> QED
    BY <1>1, <1>2, <1>6, <2>1 DEF EnterTry, Kinds
<1>7. ASSUME NEW n \in LambdaParams, NEW v \in Values, NEW home \in LambdaHomes,
             EnterLambdaExpr(n, v, home)
      PROVE  IInv'
  <2> DEFINE h == OpenedFrame(frame, "lambda", EmptyScope, home)
             g == SetVariableNew(h, n, v)
  <2>1. /\ n \in Names /\ v \in AnyValue /\ home \in Files
        /\ "lambda" \in Kinds /\ EmptyScope \in Scope
    BY ConstantsAssumption, AnyValues, ScopeTypes DEF Kinds
  <2>2. /\ GoodFrame(h)
        /\ h.moduleScope = frame.moduleScope /\ h.path = frame.path
        /\ h.moduleScope => h.scopes[1] = frame.scopes[1]
    BY <1>1, <2>1, OpenedGood
  <2>3. frame' = g
    BY <1>1, <1>7, <2>1, OpeningIs DEF EnterLambdaExpr, Kinds
  <2> HIDE DEF h
  <2>4. /\ GoodFrame(g)
        /\ g.moduleScope = frame.moduleScope /\ g.path = frame.path
        /\ g.moduleScope => g.scopes[1] = frame.scopes[1]
    BY <2>1, <2>2, SetVariableNewFrame
  <2> HIDE DEF g
  <2>5. Sound(Now')
    BY <1>7, <2>3, <2>4, FrameStep DEF EnterLambdaExpr
  <2> QED
    BY <1>7, <2>5, NowStep DEF EnterLambdaExpr, IInv
<1>8. CASE LeaveConstruct
  <2>1. /\ frame' = ClosedFrame(frame, OneLess(frame), frame.aliases)
        /\ OneLess(frame) \in Nat
        /\ OneLess(frame) >= Base(frame) + Len(frame.nest) - 1
        /\ frame.nest # <<>>
    BY <1>1, <1>8, ClosingIs DEF LeaveConstruct, Top
  <2> QED
    BY <1>1, <1>3, <1>8, <2>1 DEF LeaveConstruct, IInv
<1>9. CASE LeaveLambdaExpr
  <2>1. frame.nest # <<>> /\ Top.kind = "lambda"
    BY <1>9 DEF LeaveLambdaExpr, Inside, Top
  <2>2. Top.aliases \in Files
    BY <1>1, <2>1, InnermostConstruct DEF Top, Construct
  <2>3. /\ frame' = ClosedFrame(frame, OneLess(frame), Top.aliases)
        /\ OneLess(frame) \in Nat
        /\ OneLess(frame) >= Base(frame) + Len(frame.nest) - 1
    BY <1>1, <1>9, <2>1, <2>2, ClosingIs DEF LeaveLambdaExpr, Top
  <2> QED
    BY <1>3, <1>9, <2>1, <2>2, <2>3 DEF LeaveLambdaExpr, CallsLeft, IInv
<1> QED
  BY <1>4, <1>5, <1>6, <1>7, <1>8, <1>9 DEF Constructs

(* Calls that wait for their arguments.                                    *)

(* A step that only begins, advances or gives up such a call.              *)
LEMMA AwaitStep ==
  ASSUME IInv, UNCHANGED <<store, frame, moduleDead, functions, stack, mode>>,
         pending' \in Seq(GoodCalls), activeCalls' \in Int
  PROVE  IInv'
<1>1. Now' = Now
  BY DEF Now
<1> QED
  BY <1>1 DEF IInv

(* A sequence without its last element.                                    *)
LEMMA FrontOf ==
  ASSUME NEW S, NEW s \in Seq(S), s # <<>>
  PROVE  LET t == SubSeq(s, 1, Len(s) - 1)
         IN  /\ t \in Seq(S) /\ Len(t) = Len(s) - 1
             /\ DOMAIN t = 1 .. Len(s) - 1
             /\ \A i \in 1 .. Len(s) - 1 : t[i] = s[i] /\ i \in DOMAIN s
             /\ Len(s) \in DOMAIN s /\ s[Len(s)] \in S
<1> DEFINE n == Len(s) - 1
           t == SubSeq(s, 1, n)
<1>1. /\ Len(s) \in Nat /\ DOMAIN s = 1 .. Len(s)
      /\ \A i \in 1 .. Len(s) : s[i] \in S
  BY LenProperties, ElementOfSeq
<1>2. Len(s) >= 1
  BY <1>1, EmptySeq
<1>3. n \in Nat /\ \A i \in 1 .. n : i \in 1 .. Len(s)
  BY <1>1, <1>2
<1>4. Len(s) \in DOMAIN s /\ s[Len(s)] \in S
  BY <1>1, <1>2
<1> HIDE DEF n
<1>5. /\ t \in Seq(S)
      /\ Len(t) = IF 1 <= n THEN n - 1 + 1 ELSE 0
      /\ \A i \in 1 .. n - 1 + 1 : t[i] = s[1 + i - 1]
  <2>1. \A i \in 1 .. n : s[i] \in S
    BY <1>1, <1>3
  <2> QED
    BY <1>3, <2>1, SubSeqProperties, 1 \in Int, n \in Int
<1> HIDE DEF t
<1>6. DOMAIN t = 1 .. n /\ Len(t) = n
  <2>1. DOMAIN t = 1 .. Len(t)
    BY <1>5, LenProperties
  <2>2. Len(t) = n
    BY <1>3, <1>5
  <2> QED
    BY <2>1, <2>2
<1>7. \A i \in 1 .. n : t[i] = s[i]
  BY <1>3, <1>5
<1> QED
  BY <1>1, <1>3, <1>4, <1>5, <1>6, <1>7 DEF n, t

(* The innermost of them, and the others.                                  *)
LEMMA AwaitedTyped ==
  ASSUME IInv, InArgument
  PROVE  /\ Awaited \in GoodCalls /\ Awaited = pending[Len(pending)]
         /\ Len(pending) \in DOMAIN pending /\ pending # <<>>
         /\ PendingPopped \in Seq(GoodCalls)
         /\ Len(PendingPopped) = Len(pending) - 1
         /\ DOMAIN PendingPopped = 1 .. Len(pending) - 1
         /\ \A k \in 1 .. Len(pending) - 1 :
              PendingPopped[k] = pending[k] /\ k \in DOMAIN pending
<1>1. pending \in Seq(GoodCalls) /\ pending # <<>>
  BY DEF IInv, InArgument
<1> QED
  BY <1>1, FrontOf DEF Awaited, PendingPopped

(* The call a BeginCall adds.                                              *)
Begins(callee, alias, sig) ==
  [level |-> Len(stack), at |-> Len(frame.nest), callee |-> callee,
   alias |-> alias, sig |-> sig,
   lent |-> \E name \in OutArgument(sig) : Lendable(frame, name),
   copy |-> Absent]

LEMMA BeginCallIs ==
  ASSUME IInv, NEW callee \in Files, NEW alias \in BOOLEAN,
         NEW sig \in Signatures, BeginCall(callee, alias, sig)
  PROVE  /\ Begins(callee, alias, sig) \in GoodCalls
         /\ pending' = Append(pending, Begins(callee, alias, sig))
         /\ pending' \in Seq(GoodCalls) /\ Len(pending') = Len(pending) + 1
         /\ DOMAIN pending' = 1 .. Len(pending) + 1 /\ Len(pending) \in Nat
         /\ \A k \in 1 .. Len(pending) :
              pending'[k] = pending[k] /\ k \in DOMAIN pending
         /\ pending'[Len(pending) + 1] = Begins(callee, alias, sig)
<1> DEFINE c == Begins(callee, alias, sig)
           lent == \E name \in OutArgument(sig) : Lendable(frame, name)
<1>1. /\ Len(stack) \in Nat /\ Len(frame.nest) \in Nat
      /\ pending \in Seq(GoodCalls)
  <2>1. frame.nest \in Seq(Construct) /\ stack \in Seq(Activation)
    BY NowFields DEF GoodFrame, Frame, IInv
  <2> QED
    BY <2>1, LenProperties DEF IInv
<1>2. /\ c = [level |-> Len(stack), at |-> Len(frame.nest), callee |-> callee,
              alias |-> alias, sig |-> sig, lent |-> lent, copy |-> Absent]
      /\ lent \in BOOLEAN /\ (lent => OutArgument(sig) # {})
  BY DEF Begins
<1> HIDE DEF lent
<1>3. c \in GoodCalls
  BY <1>1, <1>2 DEF GoodCalls, PendingCall
<1>4. pending' = Append(pending, c)
  BY DEF BeginCall, Begins
<1> HIDE DEF c
<1>5. /\ pending' \in Seq(GoodCalls) /\ Len(pending') = Len(pending) + 1
      /\ \A k \in 1 .. Len(pending) : pending'[k] = pending[k]
      /\ pending'[Len(pending) + 1] = c
  BY <1>1, <1>3, <1>4, AppendProperties
<1>6. DOMAIN pending' = 1 .. Len(pending) + 1 /\ Len(pending) \in Nat
      /\ \A k \in 1 .. Len(pending) : k \in DOMAIN pending
  BY <1>1, <1>5, LenProperties
<1> QED
  BY <1>3, <1>4, <1>5, <1>6 DEF c

(* A copied argument is noted in the call that waits for it.               *)
LEMMA CopyArgumentIs ==
  ASSUME IInv, CopyArgument
  PROVE  \E value \in AnyValue :
           /\ pending' = [pending EXCEPT ![Len(pending)].copy = value]
           /\ pending' \in Seq(GoodCalls)
           /\ Len(pending') = Len(pending) /\ DOMAIN pending' = DOMAIN pending
           /\ \A k \in DOMAIN pending :
                pending'[k] = IF k = Len(pending)
                              THEN [pending[k] EXCEPT !.copy = value]
                              ELSE pending[k]
<1>1. PICK name \in OutArgument(Awaited.sig) :
        /\ Readable(frame, moduleDead, name)
        /\ pending' = [pending EXCEPT ![Len(pending)].copy =
                         ValueOf(frame.scopes, name)]
  BY DEF CopyArgument
<1>2. Awaited \in GoodCalls /\ Awaited = pending[Len(pending)]
      /\ Len(pending) \in DOMAIN pending
  BY AwaitedTyped DEF CopyArgument
<1>3. name \in Names
  <2>1. Awaited.sig \in Signatures
    BY <1>2 DEF GoodCalls, PendingCall
  <2> QED
    BY <2>1, ConstantsAssumption DEF OutArgument
<1>4. PICK value \in AnyValue : value = ValueOf(frame.scopes, name)
  <2>1. frame.scopes \in Seq(Scope)
    BY NowFields DEF GoodFrame, Frame
  <2> QED
    BY <1>1, <1>3, <2>1, ValueOfType DEF Readable
<1>5. pending \in Seq(GoodCalls) /\ DOMAIN pending = 1 .. Len(pending)
      /\ Len(pending) \in Nat
  BY LenProperties DEF IInv
<1> DEFINE c == [Awaited EXCEPT !.copy = value]
<1>6. c \in GoodCalls
  BY <1>2 DEF GoodCalls, PendingCall
<1>7. pending' = [pending EXCEPT ![Len(pending)] = c]
  BY <1>1, <1>2, <1>4
<1> HIDE DEF c
<1>8. /\ pending' \in Seq(GoodCalls) /\ Len(pending') = Len(pending)
      /\ \A k \in 1 .. Len(pending) :
           pending'[k] = IF k = Len(pending) THEN c ELSE pending[k]
  BY <1>2, <1>5, <1>6, <1>7, ExceptSeq
<1>9. DOMAIN pending' = DOMAIN pending
  BY <1>5, <1>8, LenProperties
<1> QED
  BY <1>1, <1>2, <1>4, <1>5, <1>8, <1>9 DEF c

(* Errors.                                                                 *)

(* The suspended activations after the innermost one is resumed.           *)
LEMMA StackPopped ==
  ASSUME IInv, stack # <<>>, stack' = SubSeq(stack, 1, Len(stack) - 1)
  PROVE  /\ stack' \in Seq(Activation)
         /\ \A i \in DOMAIN stack' : Parked(stack'[i].saved)
         /\ DOMAIN stack' = 1 .. Len(stack) - 1
         /\ Len(stack') = Len(stack) - 1
         /\ \A i \in DOMAIN stack' : stack'[i] = stack[i] /\ i \in DOMAIN stack
         /\ CallerOf \in Activation
<1>1. /\ stack \in Seq(Activation)
      /\ \A i \in DOMAIN stack : Parked(stack[i].saved)
  BY DEF IInv
<1> QED
  BY <1>1, FrontOf DEF CallerOf

(* A call ends, and its caller goes on.                                    *)
LEMMA ResumedStep ==
  ASSUME IInv, stack # <<>>, NEW ending, GoodFrame(ending),
         ending.moduleScope = frame.moduleScope, ending.path = frame.path,
         ending.moduleScope => ending.scopes[1] = frame.scopes[1],
         NEW pairs \in SUBSET (Names \X Names),
         Become(Resumed(ending, pairs)),
         functions' = FunctionsBack,
         stack' = SubSeq(stack, 1, Len(stack) - 1),
         activeCalls' = activeCalls - 1,
         pending' = pending, mode' = mode
  PROVE  IInv' /\ frame'.nest = CallerOf.saved.nest
<1> DEFINE r == Resumed(ending, pairs)
<1>1. Sound(r) /\ r.frame.nest = CallerOf.saved.nest
  BY ResumedSound
<1>2. Become(r)
  OBVIOUS
<1> HIDE DEF r
<1>3. Now' = r /\ frame' = r.frame
  BY <1>1, <1>2, Becomes DEF Sound
<1>4. functions' \in Files
  BY StackPopped DEF FunctionsBack, Activation
<1>5. /\ stack' \in Seq(Activation)
      /\ \A i \in DOMAIN stack' : Parked(stack'[i].saved)
  BY StackPopped
<1> QED
  BY <1>1, <1>3, <1>4, <1>5 DEF IInv

LEMMA ErrorsStep ==
  ASSUME IInv, Errors
  PROVE  IInv'
<1>1. GoodFrame(frame) /\ frame.aliases \in Files /\ Len(frame.scopes) \in Nat
      /\ frame.nest \in Seq(Construct)
  BY NowFields, LenProperties DEF GoodFrame, Frame
<1>2. ASSUME NEW d \in Nat, NEW aliases \in Files, frame.nest # <<>>,
             d >= Base(frame) + Len(frame.nest) - 1,
             frame' = ClosedFrame(frame, d, aliases),
             activeCalls' \in Int,
             UNCHANGED <<store, moduleDead, functions, stack, pending, mode>>
      PROVE  IInv'
  <2> DEFINE g == ClosedFrame(frame, d, aliases)
  <2>1. /\ GoodFrame(g)
        /\ g.moduleScope = frame.moduleScope /\ g.path = frame.path
        /\ g.moduleScope => g.scopes[1] = frame.scopes[1]
    BY <1>2, ClosedStep
  <2> HIDE DEF g
  <2>2. frame' = g
    BY <1>2 DEF g
  <2>3. Sound(Now')
    BY <1>2, <2>1, <2>2, FrameStep
  <2> QED
    BY <1>2, <2>3, NowStep DEF IInv
<1>3. CASE UnwindConstruct
  <2>1. frame.nest # <<>> /\ activeCalls' \in Int
        /\ UNCHANGED <<store, moduleDead, functions, stack, pending, mode>>
    BY <1>3 DEF UnwindConstruct, CallsLeft, IInv
  <2>2. CASE Top.kind = "block"
    <3>1. frame' = Popped(frame)
      BY <1>3, <2>2 DEF UnwindConstruct
    <3>2. frame' = ClosedFrame(frame, Len(frame.scopes), frame.aliases)
      BY <1>1, <2>1, <2>2, <3>1, ClosingIs DEF Top
    <3>3. Len(frame.scopes) >= Base(frame) + Len(frame.nest) - 1
      <4>1. Len(frame.scopes) >= Base(frame) + Len(frame.nest)
            /\ Base(frame) \in Nat /\ Len(frame.nest) \in Nat
        BY <1>1, <2>1, InnermostConstruct, LenProperties DEF Base
      <4> QED
        BY <1>1, <4>1
    <3> QED
      BY <1>1, <1>2, <2>1, <3>2, <3>3
  <2>3. CASE Top.kind = "loop"
    <3>1. frame' = Popped(LeaveLoopOf(frame))
      BY <1>3, <2>3 DEF UnwindConstruct
    <3>2. /\ frame' = ClosedFrame(frame, OneLess(frame), frame.aliases)
          /\ OneLess(frame) \in Nat
          /\ OneLess(frame) >= Base(frame) + Len(frame.nest) - 1
      BY <1>1, <2>1, <2>3, <3>1, ClosingIs DEF Top
    <3> QED
      BY <1>1, <1>2, <2>1, <3>2
  <2>4. CASE Top.kind = "lambda"
    <3>1. frame' = Popped(PopScope([frame EXCEPT !.aliases = Top.aliases]))
      BY <1>3, <2>4 DEF UnwindConstruct
    <3>2. Top.aliases \in Files
      BY <1>1, <2>1, InnermostConstruct DEF Top, Construct
    <3>3. /\ frame' = ClosedFrame(frame, OneLess(frame), Top.aliases)
          /\ OneLess(frame) \in Nat
          /\ OneLess(frame) >= Base(frame) + Len(frame.nest) - 1
      BY <1>1, <2>1, <2>4, <3>1, <3>2, ClosingIs DEF Top
    <3> QED
      BY <1>2, <2>1, <3>2, <3>3
  <2> QED
    BY <1>3, <2>2, <2>3, <2>4 DEF UnwindConstruct
<1>4. ASSUME frame.nest # <<>>
      PROVE  /\ Popped(UnwindTo(frame, Top))
                  = ClosedFrame(frame, Top.depth, frame.aliases)
             /\ Top.depth \in Nat
             /\ Top.depth >= Base(frame) + Len(frame.nest) - 1
  BY <1>1, <1>4, ClosingIs, InnermostConstruct DEF Top, Construct
<1>5. ASSUME NEW v \in Values, Catch(v) PROVE IInv'
  <2> DEFINE f == Popped(UnwindTo(frame, Top))
             opened == PushScope(Opening(f, "catch"), EmptyScope)
             s == [Now EXCEPT !.frame = opened]
             r == SetVariable(s, ErrName, v)
  <2>1. frame.nest # <<>>
    BY <1>5 DEF Catch, Inside
  <2>2. /\ GoodFrame(f)
        /\ f.moduleScope = frame.moduleScope /\ f.path = frame.path
        /\ f.moduleScope => f.scopes[1] = frame.scopes[1]
    BY <1>1, <1>4, <2>1, ClosedStep
  <2>3. Become(r)
    BY <1>5 DEF Catch
  <2> HIDE DEF f
  <2>4. f.aliases \in Files
    BY <2>2 DEF GoodFrame, Frame
  <2>5. /\ GoodFrame(opened)
        /\ opened.moduleScope = frame.moduleScope /\ opened.path = frame.path
        /\ opened.moduleScope => opened.scopes[1] = frame.scopes[1]
    <3>1. opened = OpenedFrame(f, "catch", EmptyScope, f.aliases)
      BY <2>2, <2>4, OpeningIs DEF Kinds
    <3> HIDE DEF opened
    <3> DEFINE o == OpenedFrame(f, "catch", EmptyScope, f.aliases)
    <3>2. /\ GoodFrame(o)
          /\ o.moduleScope = f.moduleScope /\ o.path = f.path
          /\ o.moduleScope => o.scopes[1] = f.scopes[1]
      BY <2>2, <2>4, ScopeTypes, OpenedGood DEF Kinds
    <3> HIDE DEF o
    <3> QED
      BY <2>2, <3>1, <3>2 DEF o
  <2> HIDE DEF opened
  <2>6. Sound(s)
    BY <2>5, OwnChange DEF IInv, Now
  <2> HIDE DEF s
  <2>7. Sound(r)
    BY <2>6, AnyValues, ConstantsAssumption, SetVariableSound
  <2> HIDE DEF r
  <2>8. Now' = r
    BY <2>3, <2>7, Becomes DEF Sound
  <2> QED
    BY <1>5, <2>7, <2>8, NowStep DEF Catch, IInv
<1>6. CASE PassTry
  <2>1. frame.nest # <<>>
    BY <1>6 DEF PassTry, Inside
  <2> QED
    BY <1>1, <1>2, <1>4, <1>6, <2>1 DEF PassTry, IInv
<1>7. CASE FailCall
  <2>1. PairsOnError(CallerOf) \in SUBSET (Names \X Names)
    <3>1. CallerOf \in Activation
      BY <1>7, StackPopped DEF FailCall
    <3> QED
      BY <3>1 DEF PairsOnError, Activation
  <2> QED
    BY <1>1, <1>7, <2>1, ResumedStep DEF FailCall
<1>8. CASE UnwindCall
  BY <1>8, AwaitedTyped, AwaitStep DEF UnwindCall, IInv
<1> QED
  BY <1>3, <1>5, <1>6, <1>7, <1>8 DEF Errors

(* Calls.                                                                  *)

(* The suspended activations once a call has set its caller aside.         *)
LEMMA StackPushed ==
  ASSUME IInv, NEW act \in Activation, Parked(act.saved)
  PROVE  /\ Append(stack, act) \in Seq(Activation)
         /\ \A i \in DOMAIN Append(stack, act) :
              Parked(Append(stack, act)[i].saved)
<1> DEFINE t == Append(stack, act)
<1>1. /\ stack \in Seq(Activation) /\ Len(stack) \in Nat
      /\ \A i \in 1 .. Len(stack) : Parked(stack[i].saved)
  <2>1. stack \in Seq(Activation)
    BY DEF IInv
  <2> QED
    BY <2>1, LenProperties DEF IInv
<1>2. /\ t \in Seq(Activation) /\ Len(t) = Len(stack) + 1
      /\ \A i \in 1 .. Len(stack) : t[i] = stack[i]
      /\ t[Len(stack) + 1] = act
  BY <1>1, AppendProperties
<1> HIDE DEF t
<1>3. DOMAIN t = 1 .. Len(stack) + 1
  BY <1>2, LenProperties
<1>4. ASSUME NEW i \in DOMAIN t PROVE Parked(t[i].saved)
  <2>1. CASE i \in 1 .. Len(stack)
    BY <1>1, <1>2, <2>1
  <2>2. CASE i = Len(stack) + 1
    BY <1>2, <2>2
  <2> QED
    BY <1>1, <1>3, <2>1, <2>2
<1> QED
  BY <1>2, <1>4 DEF t

(* A call starts.                                                          *)
LEMMA CalledStep ==
  ASSUME IInv, NEW r, Sound(r), Become(r), NEW saved, Parked(saved),
         NEW out \in SUBSET (Names \X Names), NEW lent \in BOOLEAN,
         stack' = Append(stack, [saved |-> saved, out |-> out, lent |-> lent,
                                 functions |-> functions]),
         functions' \in Files, pending' \in Seq(GoodCalls),
         activeCalls' \in Int, mode' = mode
  PROVE  IInv'
<1> DEFINE act == [saved |-> saved, out |-> out, lent |-> lent,
                   functions |-> functions]
<1>1. act \in Activation /\ act.saved = saved
  BY DEF Activation, Parked, GoodFrame, IInv
<1>2. stack' = Append(stack, act)
  OBVIOUS
<1> HIDE DEF act
<1>3. /\ stack' \in Seq(Activation)
      /\ \A i \in DOMAIN stack' : Parked(stack'[i].saved)
  BY <1>1, <1>2, StackPushed
<1>4. Now' = r
  BY Becomes DEF Sound
<1> QED
  BY <1>3, <1>4 DEF IInv

(* The parameters a function starts with.                                  *)
LEMMA ParametersTyped ==
  ASSUME NEW sig \in Signatures, NEW args \in [Names -> Values],
         NEW output \in AnyValue \cup {Absent}
  PROVE  ParameterScope(sig, args, output) \in Scope
<1>1. \A n \in Names : args[n] \in AnyValue
  BY AnyValues
<1>2. ASSUME NEW n \in Names
      PROVE  (IF n \in sig.in THEN args[n]
              ELSE IF \E pair \in sig.out : pair[1] = n THEN output
              ELSE Absent) \in AnyValue \cup {Absent}
  BY <1>1
<1> QED
  BY <1>2 DEF ParameterScope, Scope

(***************************************************************************)
(* The caller's frame once its variable is taken.  The innermost holder is *)
(* one of the frame's own scopes when the call is begun; by now it may be  *)
(* the module's table, which stays whole: the placeholder is a value.      *)
(***************************************************************************)
LEMMA LenderGood ==
  ASSUME IInv, NEW name \in Names
  PROVE  LET g == Lender(frame, name)
         IN  /\ GoodFrame(g) /\ Sound([Now EXCEPT !.frame = g])
             /\ g.moduleScope = frame.moduleScope /\ g.path = frame.path
             /\ g.nest = frame.nest /\ g.aliases = frame.aliases
             /\ Moved(frame, name) \in AnyValue
<1>1. /\ GoodFrame(frame) /\ Sound(Now) /\ Now.frame = frame
      /\ Now.moduleDead = moduleDead
      /\ frame.scopes \in Seq(Scope) /\ Len(frame.scopes) \in Nat
      /\ Lent \in AnyValue /\ Lent # Absent
  BY NowFields, LenProperties, ConstantsAssumption
     DEF IInv, GoodFrame, Frame, AnyValue
<1>2. CASE ~ InView(frame.scopes, name)
  <2>1. [Now EXCEPT !.frame = frame] = Now
    BY DEF Now
  <2> QED
    BY <1>1, <1>2, <2>1 DEF Lender, Moved
<1>3. CASE InView(frame.scopes, name)
  <2> DEFINE at == Innermost(frame.scopes, name)
             scope == Bind(frame.scopes[at], name, Lent)
             g == Lending(frame, name)
  <2>1. /\ at \in 1 .. Len(frame.scopes)
        /\ frame.scopes[at][name] # Absent
    BY <1>1, <1>3, InnermostHolds
  <2>2. Lender(frame, name) = g /\ Moved(frame, name) \in AnyValue
    BY <1>1, <1>3, ValueOfType DEF Lender, Moved
  <2>3. scope \in Scope /\ frame.scopes[at] \in Scope
    BY <1>1, <2>1, ElementOfSeq, ScopeTypes
  <2>4. g = [frame EXCEPT !.scopes[at] = scope]
    BY DEF Lending
  <2>5. g = Written(frame, at, scope, name, frame.dead[name])
    <3>1. frame \in Frame /\ frame.dead \in [Names -> Nat]
      BY <1>1 DEF GoodFrame, Frame
    <3>2. [frame.dead EXCEPT ![name] = frame.dead[name]] = frame.dead
      BY <3>1
    <3> HIDE DEF g, scope
    <3> QED
      BY <2>4, <3>1, <3>2 DEF Written, Frame
  <2>6. frame.dead[name] \in Nat
        /\ (frame.dead[name] = 0 \/ frame.dead[name] >= Base(frame))
    BY <1>1 DEF GoodFrame, Frame, FrameShape
  <2>7. Held(scope) = Held(frame.scopes[at])
    BY <1>1, <2>1, <2>3 DEF Held, Bind, Scope
  <2> HIDE DEF at, scope, g
  <2>8. /\ GoodFrame(g)
        /\ g.moduleScope = frame.moduleScope /\ g.path = frame.path
        /\ g.nest = frame.nest /\ g.aliases = frame.aliases
        /\ \A i \in 1 .. Len(frame.scopes) :
             g.scopes[i] = IF i = at THEN scope ELSE frame.scopes[i]
    BY <1>1, <2>1, <2>3, <2>5, <2>6, WriteFrame
  <2>9. frame.moduleScope => 1 \in 1 .. Len(frame.scopes)
    BY <1>1 DEF GoodFrame, FrameShape, Base
  <2>10. CASE frame.moduleScope /\ at = 1
    <3>1. /\ frame.path \in Modules
          /\ Whole(frame.path, [vars |-> frame.scopes[1], dead |-> moduleDead])
      BY <1>1, <2>10 DEF Sound, GoodFrame, FrameShape
    <3>2. g.scopes[1] = scope
      BY <2>8, <2>9, <2>10
    <3>3. moduleDead \in SUBSET Names
      BY NowFields DEF State
    <3>4. Whole(g.path, [vars |-> g.scopes[1], dead |-> moduleDead])
      BY <2>3, <2>7, <2>8, <2>10, <3>1, <3>2, <3>3 DEF Whole, Table
    <3>5. Sound([Now EXCEPT !.frame = g, !.moduleDead = moduleDead])
      BY <1>1, <2>8, <2>10, <3>3, <3>4, TableChange
    <3>6. \A h : [Now EXCEPT !.frame = h, !.moduleDead = moduleDead]
                  = [Now EXCEPT !.frame = h]
      <4>1. \A s \in State : \A h :
              [s EXCEPT !.frame = h, !.moduleDead = s.moduleDead]
                = [s EXCEPT !.frame = h]
        BY DEF State
      <4> QED
        BY <4>1, NowFields
    <3> QED
      BY <2>2, <2>8, <3>5, <3>6
  <2>11. CASE ~ (frame.moduleScope /\ at = 1)
    <3>1. g.moduleScope => g.scopes[1] = frame.scopes[1]
      BY <2>8, <2>9, <2>11
    <3>2. Sound([Now EXCEPT !.frame = g])
      BY <1>1, <2>8, <3>1, OwnChange
    <3> QED
      BY <2>2, <2>8, <3>2
  <2> QED
    BY <2>10, <2>11
<1> QED
  BY <1>2, <1>3

(***************************************************************************)
(* A call starts its function: the caller's frame is good once the value   *)
(* is taken, and the parameters are a scope.                               *)
(***************************************************************************)
Output == IF Awaited.lent
          THEN Moved(frame, CHOOSE n \in OutArgument(Awaited.sig) : TRUE)
          ELSE Awaited.copy

TakenFrom == IF Awaited.lent
             THEN Lender(frame, CHOOSE n \in OutArgument(Awaited.sig) : TRUE)
             ELSE frame

LEMMA StartingCall ==
  ASSUME IInv, NEW args \in [Names -> Values], CallFunction(args)
  PROVE  LET params == ParameterScope(Awaited.sig, args, Output)
             taken == TakeCallState([Now EXCEPT !.frame = TakenFrom],
                                    frame.aliases)
         IN  /\ Awaited.callee \in Files /\ Awaited.sig \in Signatures
             /\ Awaited.lent \in BOOLEAN
             /\ params \in Scope
             /\ GoodFrame(TakenFrom) /\ TakenFrom.nest = frame.nest
             /\ TakenFrom.aliases = frame.aliases
             /\ TakenFrom.moduleScope = frame.moduleScope
             /\ TakenFrom.path = frame.path
             /\ Sound([Now EXCEPT !.frame = TakenFrom])
             /\ Become(IF Awaited.callee \in Modules
                       THEN ModuleFrame(taken.now, Awaited.callee, params)
                       ELSE ScriptFrame(taken.now, params))
             /\ stack' = Append(stack,
                  [saved |-> taken.saved, out |-> Awaited.sig.out,
                   lent |-> Awaited.lent, functions |-> functions])
             /\ functions' = IF Awaited.alias THEN Awaited.callee ELSE functions
             /\ pending' = PendingPopped
             /\ activeCalls' = activeCalls /\ mode' = mode
<1> DEFINE name == CHOOSE n \in OutArgument(Awaited.sig) : TRUE
<1>1. Awaited \in GoodCalls
  BY AwaitedTyped DEF CallFunction
<1>2. /\ Awaited.callee \in Files /\ Awaited.sig \in Signatures
      /\ Awaited.lent \in BOOLEAN /\ Awaited.copy \in AnyValue \cup {Absent}
      /\ Awaited.lent => OutArgument(Awaited.sig) # {}
  BY <1>1 DEF GoodCalls, PendingCall
<1>3. Awaited.lent => name \in Names
  <2>1. OutArgument(Awaited.sig) \subseteq Names
    BY <1>2, ConstantsAssumption DEF OutArgument
  <2> QED
    BY <1>2, <2>1
<1> HIDE DEF name
<1>4. /\ GoodFrame(frame) /\ Sound(Now)
      /\ [Now EXCEPT !.frame = frame] = Now
  BY NowFields DEF IInv, Now
<1>5. /\ GoodFrame(TakenFrom) /\ TakenFrom.nest = frame.nest
      /\ TakenFrom.aliases = frame.aliases
      /\ TakenFrom.moduleScope = frame.moduleScope
      /\ TakenFrom.path = frame.path
      /\ Sound([Now EXCEPT !.frame = TakenFrom])
      /\ Output \in AnyValue \cup {Absent}
  <2>1. CASE Awaited.lent
    BY <1>3, <2>1, LenderGood DEF TakenFrom, Output, name
  <2>2. CASE ~ Awaited.lent
    BY <1>2, <1>4, <2>2 DEF TakenFrom, Output
  <2> QED
    BY <2>1, <2>2
<1>6. ParameterScope(Awaited.sig, args, Output) \in Scope
  BY <1>2, <1>5, ParametersTyped
<1> QED
  BY <1>2, <1>5, <1>6 DEF CallFunction, Output, TakenFrom

(* The activations the two kinds of call set aside.                        *)
LEMMA PushedBy ==
  ASSUME IInv, NEW args \in [Names -> Values], CallFunction(args)
  PROVE  \E act \in Activation :
           act.functions = functions /\ stack' = Append(stack, act)
<1> DEFINE s == [Now EXCEPT !.frame = TakenFrom]
           taken == TakeCallState(s, frame.aliases)
           act == [saved |-> taken.saved, out |-> Awaited.sig.out,
                   lent |-> Awaited.lent, functions |-> functions]
<1>1. /\ Sound(s) /\ Awaited.sig \in Signatures /\ Awaited.lent \in BOOLEAN
      /\ stack' = Append(stack, act)
  BY StartingCall
<1>2. frame.aliases \in Files
  BY NowFields DEF GoodFrame, Frame
<1> HIDE DEF s
<1>3. Parked(taken.saved)
  BY <1>1, <1>2, TakenHome
<1> HIDE DEF taken
<1>4. Awaited.sig.out \in SUBSET (Names \X Names)
  BY <1>1, ConstantsAssumption
<1>5. act \in Activation /\ act.functions = functions
  BY <1>1, <1>3, <1>4 DEF Activation, Parked, GoodFrame, IInv
<1> QED
  BY <1>1, <1>5

LEMMA LambdaPushed ==
  ASSUME IInv, NEW held, NEW v, NEW home \in LambdaHomes,
         CallLambda(held, v, home)
  PROVE  \E act \in Activation :
           act.functions = functions /\ stack' = Append(stack, act)
<1> DEFINE taken == TakeCallState(Now, home)
           act == [saved |-> taken.saved, out |-> {}, lent |-> FALSE,
                   functions |-> functions]
<1>1. stack' = Append(stack, act)
  BY DEF CallLambda
<1>2. home \in Files /\ Sound(Now)
  BY ConstantsAssumption DEF IInv
<1>3. Parked(taken.saved)
  BY <1>2, TakenHome
<1> HIDE DEF taken
<1>4. act \in Activation /\ act.functions = functions
  BY <1>3 DEF Activation, Parked, GoodFrame, IInv
<1> QED
  BY <1>1, <1>4

LEMMA CallsStep ==
  ASSUME IInv, Calls
  PROVE  IInv'
<1>1. /\ GoodFrame(frame) /\ frame.aliases \in Files
      /\ Sound(Now) /\ Now.frame = frame
  BY NowFields DEF GoodFrame, Frame, IInv, Now
<1>2. ASSUME NEW args \in [Names -> Values], CallFunction(args)
      PROVE  IInv'
  <2> DEFINE params == ParameterScope(Awaited.sig, args, Output)
             s == [Now EXCEPT !.frame = TakenFrom]
             taken == TakeCallState(s, frame.aliases)
             r == IF Awaited.callee \in Modules
                  THEN ModuleFrame(taken.now, Awaited.callee, params)
                  ELSE ScriptFrame(taken.now, params)
             out == Awaited.sig.out
             lent == Awaited.lent
  <2>1. /\ Become(r) /\ Sound(s) /\ params \in Scope
        /\ Awaited.callee \in Files /\ Awaited.sig \in Signatures
        /\ stack' = Append(stack, [saved |-> taken.saved, out |-> out,
                                   lent |-> lent, functions |-> functions])
        /\ functions' = IF Awaited.alias THEN Awaited.callee ELSE functions
        /\ pending' = PendingPopped
        /\ activeCalls' = activeCalls /\ mode' = mode
    BY <1>2, StartingCall
  <2>2. pending' \in Seq(GoodCalls)
    BY <1>2, <2>1, AwaitedTyped DEF CallFunction
  <2>3. lent \in BOOLEAN /\ out \in SUBSET (Names \X Names)
    BY <1>2, <2>1, StartingCall, ConstantsAssumption
  <2>4. functions' \in Files /\ activeCalls' \in Int
    BY <2>1 DEF IInv
  <2> HIDE DEF params, lent, out, s
  <2>6. /\ AllHome(taken.now)
        /\ taken.now.frame = FreshFrame(EmptyScope, frame.aliases)
        /\ Parked(taken.saved)
    BY <1>1, <2>1, TakenHome
  <2> HIDE DEF taken
  <2>7. Sound(r)
    BY <1>1, <2>1, <2>6, ModuleFrameSound, ScriptFrameSound
  <2> HIDE DEF r
  <2> QED
    BY <2>1, <2>2, <2>3, <2>4, <2>6, <2>7, CalledStep
<1>3. ASSUME NEW held \in LambdaHolds, NEW v \in Values, NEW home \in LambdaHomes,
             CallLambda(held, v, home)
      PROVE  IInv'
  <2> DEFINE taken == TakeCallState(Now, home)
             params == [n \in Names |-> IF n \in held THEN v ELSE Absent]
             r == ScriptFrame(taken.now, params)
             none == {}
             lent == FALSE
  <2>1. /\ Become(r)
        /\ stack' = Append(stack, [saved |-> taken.saved, out |-> none,
                                   lent |-> lent, functions |-> functions])
        /\ functions' = functions /\ pending' = pending
        /\ activeCalls' = activeCalls + 1
        /\ mode' = mode
    BY <1>3 DEF CallLambda
  <2>2. params \in Scope /\ home \in Files
    BY AnyValues, ConstantsAssumption DEF Scope
  <2> HIDE DEF params
  <2>3. /\ AllHome(taken.now)
        /\ taken.now.frame = FreshFrame(EmptyScope, home)
        /\ Parked(taken.saved)
    BY <1>1, <2>2, TakenHome
  <2> HIDE DEF taken
  <2>4. Sound(r)
    BY <2>2, <2>3, ScriptFrameSound
  <2> HIDE DEF r
  <2>5. functions' \in Files /\ none \in SUBSET (Names \X Names)
        /\ lent \in BOOLEAN /\ pending' \in Seq(GoodCalls)
        /\ activeCalls' \in Int
    BY <2>1 DEF IInv
  <2> HIDE DEF none, lent
  <2> QED
    BY <2>1, <2>3, <2>4, <2>5, CalledStep
<1>4. CASE CallRefused
  <2>1. Now' = Now
    BY <1>4 DEF CallRefused, Raising, Now
  <2> QED
    BY <1>1, <1>4, <2>1, NowStep DEF CallRefused, Raising, IInv
<1>5. CASE Return
  <2> DEFINE ending == EndedFrame(frame)
             pairs == CallerOf.out
  <2>1. /\ stack # <<>> /\ Become(Resumed(ending, pairs))
        /\ functions' = FunctionsBack
        /\ stack' = SubSeq(stack, 1, Len(stack) - 1)
        /\ activeCalls' = activeCalls - 1
        /\ pending' = pending /\ mode' = mode
    BY <1>5 DEF Return, EndedFrame
  <2>2. /\ GoodFrame(ending)
        /\ ending.moduleScope = frame.moduleScope /\ ending.path = frame.path
        /\ ending.moduleScope => ending.scopes[1] = frame.scopes[1]
    BY <1>1, EndedGood
  <2>3. pairs \in SUBSET (Names \X Names)
    BY <2>1, StackPopped DEF Activation
  <2> HIDE DEF ending, pairs
  <2> QED
    BY <2>1, <2>2, <2>3, ResumedStep
<1>6. ASSUME NEW callee \in Files, NEW alias \in BOOLEAN, NEW sig \in Signatures,
             BeginCall(callee, alias, sig)
      PROVE  IInv'
  <2>1. /\ UNCHANGED <<store, frame, moduleDead, functions, stack, mode>>
        /\ activeCalls' = activeCalls + 1 /\ activeCalls \in Int
    BY <1>6 DEF BeginCall, IInv
  <2>2. activeCalls' \in Int
    BY <2>1
  <2>3. pending' \in Seq(GoodCalls)
    BY <1>6, BeginCallIs
  <2> QED
    BY <2>1, <2>2, <2>3, AwaitStep
<1>7. CASE CopyArgument
  BY <1>7, CopyArgumentIs, AwaitStep DEF CopyArgument, IInv
<1>8. CASE AbandonCall
  BY <1>8, AwaitedTyped, AwaitStep DEF AbandonCall, IInv
<1> QED
  BY <1>2, <1>3, <1>4, <1>5, <1>6, <1>7, <1>8 DEF Calls

-----------------------------------------------------------------------------
LEMMA InitIInv == Init => IInv
<1> SUFFICES ASSUME Init PROVE IInv
  OBVIOUS
<1> DEFINE table(m) == [vars |-> [n \in Names |->
                                    IF n \in Declared[m] THEN Initial ELSE Absent],
                        dead |-> {}]
<1>1. ASSUME NEW m \in Modules PROVE Whole(m, table(m)) /\ table(m) \in Table
  <2> DEFINE scope == [n \in Names |->
                         IF n \in Declared[m] THEN Initial ELSE Absent]
  <2>1. scope \in Scope
    BY AnyValues DEF Scope
  <2>2. Held(scope) = Declared[m]
    <3>1. Declared[m] \subseteq Names
      BY ConstantsAssumption
    <3>2. Initial # Absent
      BY ConstantsAssumption
    <3> QED
      BY <3>1, <3>2 DEF Held
  <2>3. table(m) = [vars |-> scope, dead |-> {}]
    OBVIOUS
  <2> HIDE DEF scope
  <2>4. [vars |-> scope, dead |-> {}] \in Table
    BY <2>1 DEF Table
  <2> QED
    BY <2>2, <2>3, <2>4 DEF Whole
<1>2. store = [m \in Modules |-> table(m)]
  BY DEF Init
<1> HIDE DEF table
<1>3. store \in [Modules -> Table] /\ \A m \in Modules : Whole(m, store[m])
  BY <1>1, <1>2
<1>4. Script \in Files
  BY DEF Files
<1>5. frame = FreshFrame(EmptyScope, Script) /\ moduleDead = {}
  BY DEF Init
<1>6. GoodFrame(frame) /\ ~ frame.moduleScope
  BY <1>4, <1>5, ScopeTypes, FreshGood
<1>7. Now \in State
  BY <1>3, <1>5, <1>6 DEF Now, State, GoodFrame
<1>8. Sound(Now)
  BY <1>3, <1>5, <1>6, <1>7, NowFields DEF Sound, GoodFrame
<1>9. /\ stack \in Seq(Activation) /\ DOMAIN stack = {} /\ functions \in Files
      /\ pending \in Seq(GoodCalls) /\ activeCalls \in Int /\ mode = "run"
  BY <1>4 DEF Init
<1> QED
  BY <1>8, <1>9 DEF IInv

LEMMA NextIInv == IInv /\ [Next]_vars => IInv'
<1> SUFFICES ASSUME IInv, [Next]_vars PROVE IInv'
  OBVIOUS
<1>1. CASE Statements
  BY <1>1, StatementsStep
<1>2. CASE Constructs
  BY <1>2, ConstructsStep
<1>3. CASE Calls
  BY <1>3, CallsStep
<1>4. CASE Errors
  BY <1>4, ErrorsStep
<1>5. CASE Stop
  <2>1. Now' = Now
    BY <1>5 DEF Stop, Now
  <2>2. Sound(Now')
    BY <2>1 DEF IInv
  <2> QED
    BY <1>5, <2>2, NowStep DEF Stop, IInv
<1>6. CASE UNCHANGED vars
  <2>1. Now' = Now
    BY <1>6 DEF vars, Now
  <2>2. Sound(Now')
    BY <2>1 DEF IInv
  <2> QED
    BY <1>6, <2>2, NowStep DEF vars, IInv
<1> QED
  BY <1>1, <1>2, <1>3, <1>4, <1>5, <1>6 DEF Next

LEMMA Invariant == Spec => []IInv
BY InitIInv, NextIInv, PTL DEF Spec

(***************************************************************************)
(* A module's variables are in exactly one place, whole, whatever calls    *)
(* what, and however the calls end.                                        *)
(***************************************************************************)
THEOREM OneTableHolds == Spec => []OneTable
<1>1. IInv => OneTable
  <2> SUFFICES ASSUME IInv PROVE OneTable
    OBVIOUS
  <2>1. ASSUME NEW m \in Modules
        PROVE  /\ Held(TableOf(m).vars) \cup TableOf(m).dead = Declared[m]
               /\ Held(TableOf(m).vars) \cap TableOf(m).dead = {}
               /\ RunningIn(m) => store[m] = EmptyTable
    <3>1. IF frame.moduleScope /\ frame.path = m
          THEN /\ store[m] = EmptyTable
               /\ Whole(m, [vars |-> frame.scopes[1], dead |-> moduleDead])
          ELSE Whole(m, store[m])
      BY NowFields DEF IInv, Sound
    <3>2. Whole(m, TableOf(m)) /\ (RunningIn(m) => store[m] = EmptyTable)
      BY <3>1 DEF TableOf, RunningIn
    <3> QED
      BY <3>2 DEF Whole
  <2>2. ~ frame.moduleScope => moduleDead = {}
    BY NowFields DEF IInv, Sound
  <2>3. \A i \in DOMAIN stack :
          stack[i].saved.moduleScope => stack[i].saved.scopes[1] = EmptyScope
    BY DEF IInv, Parked
  <2> QED
    BY <2>1, <2>2, <2>3 DEF OneTable
<1> QED
  BY <1>1, Invariant, PTL

----
(* Counting the calls.                                                     *)

(* The counts the activations began with, and that they rise.             *)
Rising(entry) ==
  \A i, j \in 0 .. Len(stack) : i <= j => entry[i] <= entry[j]

(* The calls whose functions run: those that still evaluate arguments not  *)
(* counted.                                                                *)
Begun == activeCalls - Len(pending)

BegunBy(entry) ==
  /\ entry[0] = 0
  /\ \A i \in 1 .. Len(stack) :
       entry[i] = entry[i - 1] + LambdasIn(stack[i].saved) + 1
  /\ Begun = entry[Len(stack)] + LambdasIn(frame)

Counted == \E entry \in [Nat -> Nat] : BegunBy(entry) /\ Rising(entry)

LEMMA BegunInt ==
  ASSUME IInv
  PROVE  Begun \in Int /\ Len(pending) \in Nat /\ activeCalls \in Int
         /\ activeCalls = Begun + Len(pending)
<1>1. Len(pending) \in Nat /\ activeCalls \in Int
  BY LenProperties DEF IInv
<1> QED
  BY <1>1 DEF Begun

(* The lambdas open in a frame are a matter of its constructs.             *)
LEMMA SameLambdas ==
  ASSUME NEW f, NEW g, f.nest = g.nest
  PROVE  LambdasIn(f) = LambdasIn(g)
BY DEF LambdasIn, InLambda

(* The constructs of one kind, as they open and close.                     *)
OfKind(f, kind) == {i \in DOMAIN f.nest : f.nest[i].kind = kind}

LEMMA KindNat ==
  ASSUME NEW kind, NEW f, GoodFrame(f)
  PROVE  Cardinality(OfKind(f, kind)) \in Nat /\ IsFiniteSet(OfKind(f, kind))
<1>1. f.nest \in Seq(Construct) /\ Len(f.nest) \in Nat
      /\ DOMAIN f.nest = 1 .. Len(f.nest)
  BY LenProperties DEF GoodFrame, Frame
<1>2. OfKind(f, kind) \in SUBSET (1 .. Len(f.nest))
  BY <1>1 DEF OfKind
<1>3. IsFiniteSet(1 .. Len(f.nest))
  BY <1>1, FS_Interval
<1>4. IsFiniteSet(OfKind(f, kind))
  BY <1>2, <1>3, FS_Subset
<1> QED
  BY <1>4, FS_CardinalityType

LEMMA KindOpened ==
  ASSUME NEW kind, NEW f, GoodFrame(f), NEW c, NEW g,
         g.nest = Append(f.nest, c), c \in Construct
  PROVE  Cardinality(OfKind(g, kind)) =
           Cardinality(OfKind(f, kind)) + (IF c.kind = kind THEN 1 ELSE 0)
<1> DEFINE n == Len(f.nest) + 1
<1>1. /\ f.nest \in Seq(Construct) /\ Len(f.nest) \in Nat
      /\ DOMAIN f.nest = 1 .. Len(f.nest)
  BY LenProperties DEF GoodFrame, Frame
<1>2. /\ g.nest \in Seq(Construct) /\ Len(g.nest) = Len(f.nest) + 1
      /\ \A i \in 1 .. Len(f.nest) : g.nest[i] = f.nest[i]
      /\ g.nest[n] = c
  BY <1>1, AppendProperties
<1>3. DOMAIN g.nest = 1 .. n
  BY <1>2, LenProperties
<1>4. n \notin OfKind(f, kind) /\ 1 .. n = (1 .. Len(f.nest)) \cup {n}
  BY <1>1 DEF OfKind
<1>5. IsFiniteSet(OfKind(f, kind)) /\ Cardinality(OfKind(f, kind)) \in Nat
  BY KindNat
<1> HIDE DEF n
<1>6. CASE c.kind = kind
  <2>1. OfKind(g, kind) = OfKind(f, kind) \cup {n}
    BY <1>1, <1>2, <1>3, <1>4, <1>6 DEF OfKind
  <2> QED
    BY <1>4, <1>5, <1>6, <2>1, FS_AddElement
<1>7. CASE c.kind # kind
  <2>1. OfKind(g, kind) = OfKind(f, kind)
    BY <1>1, <1>2, <1>3, <1>4, <1>7 DEF OfKind
  <2> QED
    BY <1>5, <1>7, <2>1
<1> QED
  BY <1>6, <1>7

LEMMA KindClosed ==
  ASSUME NEW kind, NEW f, GoodFrame(f), f.nest # <<>>,
         NEW g, g.nest = SubSeq(f.nest, 1, Len(f.nest) - 1)
  PROVE  Cardinality(OfKind(g, kind)) = Cardinality(OfKind(f, kind))
           - (IF f.nest[Len(f.nest)].kind = kind THEN 1 ELSE 0)
<1> DEFINE last == Len(f.nest)
           n == last - 1
<1>1. /\ f.nest \in Seq(Construct) /\ last \in Nat /\ last >= 1
      /\ DOMAIN f.nest = 1 .. last
  BY LenProperties, EmptySeq DEF GoodFrame, Frame
<1>2. \A i \in 1 .. last : f.nest[i] \in Construct
  BY <1>1, ElementOfSeq
<1> HIDE DEF last
<1>3. n \in Nat /\ 1 .. last = (1 .. n) \cup {last} /\ last \notin 1 .. n
  BY <1>1
<1>4. DOMAIN g.nest = 1 .. n /\ \A i \in 1 .. n : g.nest[i] = f.nest[i]
  <2> DEFINE t == SubSeq(f.nest, 1, n)
  <2> HIDE DEF n
  <2>1. /\ t \in Seq(Construct)
        /\ Len(t) = IF 1 <= n THEN n - 1 + 1 ELSE 0
        /\ \A i \in 1 .. n - 1 + 1 : t[i] = f.nest[1 + i - 1]
    BY <1>2, <1>3, SubSeqProperties, 1 \in Int, n \in Int
  <2>2. g.nest = t
    BY DEF last, n
  <2> HIDE DEF t
  <2>3. DOMAIN t = 1 .. Len(t) /\ Len(t) = n
    BY <1>3, <2>1, LenProperties
  <2> QED
    BY <1>3, <2>1, <2>2, <2>3
<1>5. IsFiniteSet(OfKind(f, kind)) /\ Cardinality(OfKind(f, kind)) \in Nat
  BY KindNat
<1> HIDE DEF n
<1>6. CASE f.nest[last].kind = kind
  <2>1. OfKind(g, kind) = OfKind(f, kind) \ {last} /\ last \in OfKind(f, kind)
    BY <1>1, <1>3, <1>4, <1>6 DEF OfKind
  <2> QED
    BY <1>5, <1>6, <2>1, FS_RemoveElement DEF last
<1>7. CASE f.nest[last].kind # kind
  <2>1. OfKind(g, kind) = OfKind(f, kind)
    BY <1>1, <1>3, <1>4, <1>7 DEF OfKind
  <2> QED
    BY <1>5, <1>7, <2>1 DEF last
<1> QED
  BY <1>6, <1>7

(* The lambdas in particular.                                              *)
LEMMA LambdasAre ==
  \A f : LambdasIn(f) = Cardinality(OfKind(f, "lambda"))
          /\ InLambda(f) = OfKind(f, "lambda")
BY DEF LambdasIn, InLambda, OfKind

LEMMA LambdasNat ==
  ASSUME NEW f, GoodFrame(f)
  PROVE  LambdasIn(f) \in Nat /\ IsFiniteSet(InLambda(f))
BY LambdasAre, KindNat

LEMMA LambdasOpened ==
  ASSUME NEW f, GoodFrame(f), NEW c, NEW g, g.nest = Append(f.nest, c),
         c \in Construct
  PROVE  LambdasIn(g) = LambdasIn(f) + (IF c.kind = "lambda" THEN 1 ELSE 0)
BY LambdasAre, KindOpened

LEMMA LambdasClosed ==
  ASSUME NEW f, GoodFrame(f), f.nest # <<>>,
         NEW g, g.nest = SubSeq(f.nest, 1, Len(f.nest) - 1)
  PROVE  LambdasIn(g) = LambdasIn(f)
           - (IF f.nest[Len(f.nest)].kind = "lambda" THEN 1 ELSE 0)
BY LambdasAre, KindClosed

LEMMA NoLambdas ==
  ASSUME NEW f, InLambda(f) = {} \/ f.nest = <<>>
  PROVE  LambdasIn(f) = 0
<1>1. InLambda(f) = {}
  BY DEF InLambda
<1> QED
  BY <1>1, FS_EmptySet DEF LambdasIn

(* A step inside one activation.                                           *)
LEMMA CountedFrame ==
  ASSUME IInv, Counted, stack' = stack, NEW d \in Int,
         Begun' = Begun + d,
         LambdasIn(frame') = LambdasIn(frame) + d
  PROVE  Counted'
<1>1. PICK entry \in [Nat -> Nat] : BegunBy(entry) /\ Rising(entry)
  BY DEF Counted
<1>2. Len(stack) \in Nat /\ LambdasIn(frame) \in Nat
  BY NowFields, LambdasNat, LenProperties DEF IInv
<1>3. entry[Len(stack)] \in Nat
  BY <1>2
<1>4. Begun' = entry[Len(stack)] + LambdasIn(frame')
  BY <1>1, <1>2, <1>3 DEF BegunBy
<1>5. BegunBy(entry)' /\ Rising(entry)'
  BY <1>1, <1>4 DEF BegunBy, Rising
<1> QED
  BY <1>5 DEF Counted

(* A step that calls.                                                      *)
LEMMA CountedCalled ==
  ASSUME IInv, Counted, NEW act \in Activation,
         stack' = Append(stack, act), LambdasIn(act.saved) = LambdasIn(frame),
         LambdasIn(frame') = 0, Begun' = Begun + 1
  PROVE  Counted'
<1> DEFINE k == Len(stack)
           here == LambdasIn(frame)
<1>1. PICK entry \in [Nat -> Nat] : BegunBy(entry) /\ Rising(entry)
  BY DEF Counted
<1>2. stack \in Seq(Activation) /\ k \in Nat /\ here \in Nat
  BY NowFields, LambdasNat, LenProperties DEF IInv
<1>3. /\ entry[0] = 0
      /\ \A i \in 1 .. k : entry[i] = entry[i - 1] + LambdasIn(stack[i].saved) + 1
      /\ Begun = entry[k] + here
  BY <1>1 DEF BegunBy
<1>4. /\ Len(stack') = k + 1
      /\ \A i \in 1 .. k : stack'[i] = stack[i]
      /\ stack'[k + 1] = act
  BY <1>2, AppendProperties
<1> HIDE DEF k, here
<1>5. entry[k] \in Nat /\ Begun + 1 \in Nat /\ k + 1 \in Nat /\ k + 1 # 0
  <2>1. entry[k] \in Nat
    BY <1>2
  <2>2. Begun \in Nat
    <3> DEFINE e == entry[k]
    <3>1. e \in Nat /\ here \in Nat /\ Begun = e + here
      BY <1>2, <1>3, <2>1
    <3> HIDE DEF e, here
    <3> QED
      BY <3>1
  <2> QED
    BY <1>2, <2>1, <2>2
<1>6. PICK next \in [Nat -> Nat] :
        next = [entry EXCEPT ![k + 1] = Begun + 1]
  BY <1>5
<1>7. /\ next[k + 1] = Begun + 1
       /\ \A i \in Nat : i # k + 1 => next[i] = entry[i]
  BY <1>5, <1>6
<1>8. next[0] = 0
  BY <1>3, <1>5, <1>7
<1>9. ASSUME NEW i \in 1 .. k + 1
      PROVE  next[i] = next[i - 1] + LambdasIn(stack'[i].saved) + 1
  <2>1. CASE i = k + 1
    <3>1. i - 1 = k /\ k # k + 1
      BY <1>2, <2>1
    <3>2. next[i - 1] = entry[k]
      BY <1>2, <1>7, <3>1
    <3>3. LambdasIn(stack'[i].saved) = here
      BY <1>4, <2>1 DEF here
    <3> QED
      BY <1>2, <1>3, <1>5, <1>7, <2>1, <3>2, <3>3
  <2>2. CASE i # k + 1
    <3>1. i \in 1 .. k /\ i \in Nat /\ i - 1 \in Nat /\ i - 1 # k + 1
      BY <1>2, <2>2
    <3> QED
      BY <1>3, <1>4, <1>7, <2>2, <3>1
  <2> QED
    BY <2>1, <2>2
<1>10. Begun' = next[k + 1] + LambdasIn(frame')
  BY <1>5, <1>7
<1>11. BegunBy(next)'
  BY <1>4, <1>8, <1>9, <1>10 DEF BegunBy
<1>12. Rising(next)'
  <2> SUFFICES ASSUME NEW i \in 0 .. k + 1, NEW j \in 0 .. k + 1, i <= j
               PROVE  next[i] <= next[j]
    BY <1>4 DEF Rising
  <2>1. \A p, q \in 0 .. k : p <= q => entry[p] <= entry[q]
    BY <1>1 DEF Rising, k
  <2>2. i \in Nat /\ j \in Nat
    BY <1>2
  <2>3. CASE j # k + 1
    <3>1. j <= k
      BY <1>2, <2>2, <2>3
    <3>2. i <= k
      BY <1>2, <2>2, <3>1
    <3>3. i \in 0 .. k /\ j \in 0 .. k /\ i # k + 1
      BY <1>2, <2>2, <3>1, <3>2
    <3> QED
      BY <1>7, <2>1, <2>2, <2>3, <3>3
  <2>4. CASE j = k + 1 /\ i = k + 1
    BY <1>5, <1>7, <2>4
  <2>5. CASE j = k + 1 /\ i # k + 1
    <3>1. i \in 0 .. k /\ k \in 0 .. k
      BY <1>2, <2>2, <2>5
    <3> DEFINE e == entry[k]
               b == entry[i]
    <3>2. i <= k
      BY <1>2, <2>2, <2>5
    <3>3. b <= e /\ b \in Nat /\ e \in Nat
      BY <1>5, <2>1, <2>2, <3>1, <3>2
    <3>4. next[i] = b /\ next[j] = Begun + 1
      BY <1>7, <2>2, <2>5
    <3>5. Begun = e + here /\ here \in Nat
      BY <1>2, <1>3
    <3> HIDE DEF e, b, here
    <3> QED
      BY <3>3, <3>4, <3>5
  <2> QED
    BY <2>3, <2>4, <2>5
<1> QED
  BY <1>11, <1>12 DEF Counted

(* A step that goes back to a caller.                                      *)
LEMMA CountedResumed ==
  ASSUME IInv, Counted, stack # <<>>,
         stack' = SubSeq(stack, 1, Len(stack) - 1),
         LambdasIn(frame) = 0,
         LambdasIn(frame') = LambdasIn(CallerOf.saved),
         Begun' = Begun - 1
  PROVE  Counted'
<1> DEFINE n == Len(stack)
           there == LambdasIn(CallerOf.saved)
<1>1. PICK entry \in [Nat -> Nat] : BegunBy(entry) /\ Rising(entry)
  BY DEF Counted
<1>2. /\ stack \in Seq(Activation) /\ n \in Nat /\ n >= 1
  BY LenProperties, EmptySeq DEF IInv
<1>3. /\ stack' \in Seq(Activation)
      /\ DOMAIN stack' = 1 .. n - 1
      /\ \A i \in 1 .. n - 1 : stack'[i] = stack[i]
  BY StackPopped
<1>4. Parked(CallerOf.saved)
  <2>1. n \in DOMAIN stack
    BY <1>2, LenProperties
  <2> QED
    BY <2>1 DEF IInv, CallerOf
<1>5. there \in Nat
  BY <1>4, LambdasNat DEF Parked
<1>6. /\ entry[0] = 0
      /\ \A i \in 1 .. n : entry[i] = entry[i - 1] + LambdasIn(stack[i].saved) + 1
      /\ stack[n] = CallerOf
  BY <1>1 DEF BegunBy, CallerOf
<1>7. Len(stack') = n - 1
  BY StackPopped
<1> HIDE DEF n
<1>8. n \in 1 .. n /\ entry[n] \in Nat /\ entry[n - 1] \in Nat
  <2>1. n \in 1 .. n /\ n - 1 \in Nat
    BY <1>2
  <2> QED
    BY <1>2, <2>1, Zenon
<1>9. entry[n] = entry[n - 1] + there + 1
  BY <1>6, <1>8
<1>10. Begun' = entry[n - 1] + there
  <2> DEFINE e == entry[n]
             d == entry[n - 1]
  <2>1. Begun = e + LambdasIn(frame) /\ LambdasIn(frame) = 0 /\ e \in Nat
    BY <1>1, <1>8 DEF BegunBy, n
  <2>2. d \in Nat /\ there \in Nat /\ e = d + there + 1
    BY <1>5, <1>8, <1>9
  <2> HIDE DEF e, d, there
  <2>3. Begun = e
    BY <2>1
  <2>4. Begun' = d + there
    BY <2>2, <2>3
  <2> QED
    BY <2>4 DEF d, there
<1>11. \A i \in 1 .. n - 1 :
         entry[i] = entry[i - 1] + LambdasIn(stack'[i].saved) + 1
  <2>1. \A i \in 1 .. n - 1 : i \in 1 .. n
    BY <1>2
  <2> QED
    BY <1>3, <1>6, <2>1
<1>12. BegunBy(entry)'
  BY <1>6, <1>7, <1>10, <1>11 DEF BegunBy
<1>13. Rising(entry)'
  <2>1. \A i \in 0 .. n - 1 : i \in 0 .. n
    BY <1>2
  <2> QED
    BY <1>1, <1>7, <2>1 DEF Rising, n
<1> QED
  BY <1>12, <1>13 DEF Counted

(* Nothing the count is about changes.                                     *)
LEMMA CountedSame ==
  ASSUME IInv, Counted, stack' = stack, frame'.nest = frame.nest,
         Begun' = Begun
  PROVE  Counted'
<1> DEFINE d == 0
<1>1. d \in Int /\ LambdasIn(frame') = LambdasIn(frame)
  BY SameLambdas
<1>2. LambdasIn(frame) \in Nat /\ Begun \in Int
  BY NowFields, LambdasNat, BegunInt
<1>3. LambdasIn(frame') = LambdasIn(frame) + d /\ Begun' = Begun + d
  BY <1>1, <1>2
<1> HIDE DEF d
<1> QED
  BY <1>1, <1>3, CountedFrame

(* A construct opens.                                                      *)
LEMMA CountedOpened ==
  ASSUME IInv, Counted, stack' = stack, NEW c \in Construct,
         frame'.nest = Append(frame.nest, c),
         activeCalls' = IF c.kind = "lambda" THEN activeCalls + 1
                        ELSE activeCalls,
         pending' = pending
  PROVE  Counted'
<1> DEFINE d == IF c.kind = "lambda" THEN 1 ELSE 0
<1>1. d \in Int /\ LambdasIn(frame') = LambdasIn(frame) + d
  BY NowFields, LambdasOpened
<1>2. activeCalls \in Int /\ Len(pending) \in Nat
  BY BegunInt
<1>3. Begun' = Begun + d
  BY <1>2 DEF Begun
<1> HIDE DEF d
<1> QED
  BY <1>1, <1>3, CountedFrame

(* The innermost construct closes.                                         *)
LEMMA CountedClosed ==
  ASSUME IInv, Counted, stack' = stack, frame.nest # <<>>,
         frame'.nest = SubSeq(frame.nest, 1, Len(frame.nest) - 1),
         activeCalls' = CallsLeft(Top.kind), pending' = pending
  PROVE  Counted'
<1> DEFINE e == IF Top.kind = "lambda" THEN 1 ELSE 0
           d == 0 - e
<1>1. d \in Int /\ e \in Int
  OBVIOUS
<1>2. LambdasIn(frame') = LambdasIn(frame) - e
  BY NowFields, LambdasClosed DEF Top
<1>3. activeCalls \in Int /\ LambdasIn(frame) \in Nat /\ Len(pending) \in Nat
      /\ Begun \in Int
  BY NowFields, LambdasNat, BegunInt
<1>4. Begun' = Begun - e
  BY <1>3 DEF CallsLeft, Begun
<1> HIDE DEF e
<1>5. Begun' = Begun + d /\ LambdasIn(frame') = LambdasIn(frame) + d
  BY <1>1, <1>2, <1>3, <1>4
<1> HIDE DEF d
<1> QED
  BY <1>1, <1>5, CountedFrame

(* The steps on a frame leave its constructs alone, or open or close one.  *)
LEMMA NestKept ==
  ASSUME NEW f, GoodFrame(f)
  PROVE  /\ \A at, name, value : SetAt(f, at, name, value).nest = f.nest
         /\ \A name, value : SetVariableNew(f, name, value).nest = f.nest
         /\ \A depth : PopTo(f, depth).nest = f.nest
BY DEF GoodFrame, Frame, SetAt, SetVariableNew, PopTo

LEMMA NestWritten ==
  ASSUME NEW s \in State, NEW name
  PROVE  /\ Destroy(s, name).frame.nest = s.frame.nest
         /\ \A value : SetVariable(s, name, value).frame.nest = s.frame.nest
BY DEF State, Frame, Destroy, SetVariable

LEMMA StatementsCounted ==
  ASSUME IInv, Counted, Statements
  PROVE  Counted'
<1>1. Now \in State /\ GoodFrame(frame) /\ Now.frame = frame
  BY NowFields
<1>2. ASSUME NEW n \in Names, NEW v \in Values, Assign(n, v) PROVE Counted'
  <2>1. frame'.nest = frame.nest
    BY <1>1, <1>2, NestWritten DEF Assign, Become
  <2> QED
    BY <1>2, <2>1, CountedSame DEF Begun, Assign
<1>3. ASSUME NEW n \in Names, NEW v \in Values, NEW above \in BOOLEAN,
             AssignHot(n, v, above)
      PROVE  Counted'
  <2> DEFINE at == IF above THEN AboveNearestLoop(frame) ELSE NearestLoop(frame)
             placed == IF InView(frame.scopes, n) THEN frame
                       ELSE SetAt(frame, at, n, Initial)
             s == [Now EXCEPT !.frame = placed]
  <2>1. at \in Nat /\ at >= Base(frame)
    BY <1>1, LoopPlaces
  <2>2. GoodFrame(placed) /\ placed.nest = frame.nest
    <3> HIDE DEF at
    <3> QED
      BY <1>1, <2>1, AnyValues, SetAtFrame, NestKept
  <2> HIDE DEF placed
  <2>3. s \in State /\ s.frame = placed
    BY <1>1, <2>2 DEF State, GoodFrame
  <2>4. Become(SetVariable(s, n, v))
    BY <1>3 DEF AssignHot, placed
  <2> HIDE DEF s
  <2>5. frame'.nest = frame.nest
    BY <2>2, <2>3, <2>4, NestWritten DEF Become
  <2> QED
    BY <1>3, <2>5, CountedSame DEF Begun, AssignHot
<1>4. ASSUME NEW n \in Names, NEW above \in BOOLEAN, AssignHotFails(n, above)
      PROVE  Counted'
  <2>1. frame'.nest = frame.nest
    BY <1>1, <1>4, NestKept DEF AssignHotFails
  <2> QED
    BY <1>4, <2>1, CountedSame DEF Begun, AssignHotFails
<1>5. ASSUME Raising PROVE Counted'
  BY <1>5, CountedSame DEF Begun, Raising
<1>6. ASSUME NEW n \in Names, EndVariable(n) PROVE Counted'
  <2>1. CASE InView(frame.scopes, n)
    <3>1. frame'.nest = frame.nest
      BY <1>1, <1>6, <2>1, NestWritten DEF EndVariable, Become
    <3> QED
      BY <1>6, <2>1, <3>1, CountedSame DEF Begun, EndVariable
  <2>2. CASE ~ InView(frame.scopes, n)
    BY <1>5, <1>6, <2>2 DEF EndVariable
  <2> QED
    BY <2>1, <2>2
<1> QED
  BY <1>2, <1>3, <1>4, <1>5, <1>6 DEF Statements, Raise

(* What opening and closing do to the constructs of a frame.               *)
Opened(f, kind) == [kind |-> kind, depth |-> Len(f.scopes),
                    anchors |-> Len(f.loops), aliases |-> f.aliases]

LEMMA NestOpened ==
  ASSUME NEW f, GoodFrame(f), NEW kind \in Kinds
  PROVE  /\ Opened(f, kind) \in Construct
         /\ \A aliases : OpenedFrame(f, kind, EmptyScope, aliases).nest
                           = Append(f.nest, Opened(f, kind))
<1>1. Opened(f, kind) \in Construct
  BY LenProperties DEF GoodFrame, Frame, Construct, Opened
<1> QED
  BY <1>1 DEF OpenedFrame, GoodFrame, Frame, Opened

LEMMA NestClosed ==
  ASSUME NEW f, GoodFrame(f), NEW d, NEW aliases
  PROVE  ClosedFrame(f, d, aliases).nest = SubSeq(f.nest, 1, Len(f.nest) - 1)
BY DEF ClosedFrame, PopTo, GoodFrame, Frame

LEMMA ConstructsCounted ==
  ASSUME IInv, Counted, Constructs
  PROVE  Counted'
<1>1. GoodFrame(frame) /\ frame.aliases \in Files
  BY NowFields DEF GoodFrame, Frame
<1>2. ASSUME NEW kind \in Kinds, stack' = stack,
             frame'.nest = Append(frame.nest, Opened(frame, kind)),
             activeCalls' = IF kind = "lambda" THEN activeCalls + 1
                            ELSE activeCalls,
             pending' = pending
      PROVE  Counted'
  <2> DEFINE c == Opened(frame, kind)
  <2>1. c \in Construct /\ c.kind = kind
    BY <1>1, NestOpened DEF Opened
  <2>2. frame'.nest = Append(frame.nest, c)
    BY <1>2
  <2> HIDE DEF c
  <2> QED
    BY <1>2, <2>1, <2>2, CountedOpened
<1>3. CASE EnterBlock
  <2>1. frame' = OpenedFrame(frame, "block", EmptyScope, frame.aliases)
    BY <1>1, <1>3, OpeningIs DEF EnterBlock, Kinds
  <2>2. frame'.nest = Append(frame.nest, Opened(frame, "block"))
    BY <1>1, <2>1, NestOpened DEF Kinds
  <2> QED
    BY <1>2, <1>3, <2>2 DEF EnterBlock, Kinds
<1>4. CASE EnterLoop
  <2>1. frame' = [PushScope(Opening(frame, "loop"), EmptyScope)
                    EXCEPT !.loops = Append(@, Len(frame.scopes) + 1)]
    BY <1>4 DEF EnterLoop
  <2>2. frame' = OpenedFrame(frame, "loop", EmptyScope, frame.aliases)
    BY <1>1, <2>1, OpeningLoopIs
  <2>3. frame'.nest = Append(frame.nest, Opened(frame, "loop"))
    BY <1>1, <2>2, NestOpened DEF Kinds
  <2> QED
    BY <1>2, <1>4, <2>3 DEF EnterLoop, Kinds
<1>5. CASE EnterTry
  <2>1. frame' = OpenedFrame(frame, "try", EmptyScope, frame.aliases)
    BY <1>1, <1>5, OpeningIs DEF EnterTry, Kinds
  <2>2. frame'.nest = Append(frame.nest, Opened(frame, "try"))
    BY <1>1, <2>1, NestOpened DEF Kinds
  <2> QED
    BY <1>2, <1>5, <2>2 DEF EnterTry, Kinds
<1>6. ASSUME NEW n \in LambdaParams, NEW v \in Values, NEW home \in LambdaHomes,
             EnterLambdaExpr(n, v, home)
      PROVE  Counted'
  <2> DEFINE h == OpenedFrame(frame, "lambda", EmptyScope, home)
  <2>1. home \in Files /\ "lambda" \in Kinds /\ EmptyScope \in Scope
    BY ConstantsAssumption, ScopeTypes DEF Kinds
  <2>2. GoodFrame(h) /\ h.nest = Append(frame.nest, Opened(frame, "lambda"))
    <3>1. GoodFrame(h)
      BY <1>1, <2>1, OpenedGood
    <3>2. h.nest = Append(frame.nest, Opened(frame, "lambda"))
      BY <1>1, <2>1, NestOpened
    <3> QED
      BY <3>1, <3>2
  <2>3. frame' = SetVariableNew(h, n, v)
    BY <1>1, <1>6, <2>1, OpeningIs DEF EnterLambdaExpr, Kinds
  <2> HIDE DEF h
  <2>4. frame'.nest = Append(frame.nest, Opened(frame, "lambda"))
    BY <2>2, <2>3, NestKept
  <2> QED
    BY <1>2, <1>6, <2>4 DEF EnterLambdaExpr, Kinds
<1>7. CASE LeaveConstruct
  <2>1. frame.nest # <<>> /\ Top.kind # "lambda"
        /\ frame' = ClosedFrame(frame, OneLess(frame), frame.aliases)
    BY <1>1, <1>7, ClosingIs DEF LeaveConstruct, Top
  <2>2. frame'.nest = SubSeq(frame.nest, 1, Len(frame.nest) - 1)
    BY <1>1, <2>1, NestClosed
  <2>3. activeCalls' = CallsLeft(Top.kind) /\ stack' = stack
        /\ pending' = pending
    BY <1>7, <2>1 DEF LeaveConstruct, CallsLeft
  <2> QED
    BY <2>1, <2>2, <2>3, CountedClosed
<1>8. CASE LeaveLambdaExpr
  <2>1. frame.nest # <<>> /\ Top.kind = "lambda"
    BY <1>8 DEF LeaveLambdaExpr, Inside, Top
  <2>2. Top.aliases \in Files
    BY <1>1, <2>1, InnermostConstruct DEF Top, Construct
  <2>3. frame' = ClosedFrame(frame, OneLess(frame), Top.aliases)
    BY <1>1, <1>8, <2>1, <2>2, ClosingIs DEF LeaveLambdaExpr, Top
  <2>4. frame'.nest = SubSeq(frame.nest, 1, Len(frame.nest) - 1)
    BY <1>1, <2>3, NestClosed
  <2>5. activeCalls' = CallsLeft(Top.kind) /\ stack' = stack
        /\ pending' = pending
    BY <1>8, <2>1 DEF LeaveLambdaExpr
  <2> QED
    BY <2>1, <2>4, <2>5, CountedClosed
<1> QED
  BY <1>3, <1>4, <1>5, <1>6, <1>7, <1>8 DEF Constructs

(* A call ends.                                                            *)
LEMMA ReturnCounted ==
  ASSUME IInv, Counted, stack # <<>>, NEW ending, GoodFrame(ending),
         ending.moduleScope = frame.moduleScope, ending.path = frame.path,
         ending.moduleScope => ending.scopes[1] = frame.scopes[1],
         NEW pairs \in SUBSET (Names \X Names),
         Become(Resumed(ending, pairs)),
         LambdasIn(frame) = 0,
         stack' = SubSeq(stack, 1, Len(stack) - 1),
         activeCalls' = activeCalls - 1, pending' = pending
  PROVE  Counted'
<1> DEFINE r == Resumed(ending, pairs)
<1>1. r.frame.nest = CallerOf.saved.nest
  BY ResumedSound
<1>2. Become(r)
  OBVIOUS
<1> HIDE DEF r
<1>3. frame'.nest = CallerOf.saved.nest
  BY <1>1, <1>2 DEF Become
<1>4. LambdasIn(frame') = LambdasIn(CallerOf.saved)
  BY <1>3, SameLambdas
<1>5. Begun' = Begun - 1
  BY BegunInt DEF Begun
<1> QED
  BY <1>4, <1>5, CountedResumed

(* A call is counted and queued, or neither any longer.                    *)
LEMMA AwaitCounted ==
  ASSUME IInv, Counted, UNCHANGED <<frame, stack>>, NEW d \in Int,
         activeCalls' = activeCalls + d, Len(pending') = Len(pending) + d
  PROVE  Counted'
<1>1. Begun' = Begun
  BY BegunInt DEF Begun
<1> QED
  BY <1>1, CountedSame

LEMMA ErrorsCounted ==
  ASSUME IInv, Counted, Errors
  PROVE  Counted'
<1>1. /\ GoodFrame(frame) /\ frame.aliases \in Files
      /\ frame.nest \in Seq(Construct) /\ Now \in State
  BY NowFields DEF GoodFrame, Frame
<1>2. ASSUME NEW d, NEW aliases, frame.nest # <<>>,
             frame' = ClosedFrame(frame, d, aliases),
             activeCalls' = CallsLeft(Top.kind), stack' = stack,
             pending' = pending
      PROVE  Counted'
  <2>1. frame'.nest = SubSeq(frame.nest, 1, Len(frame.nest) - 1)
    BY <1>1, <1>2, NestClosed
  <2> QED
    BY <1>2, <2>1, CountedClosed
<1>3. CASE UnwindConstruct
  <2>1. frame.nest # <<>> /\ activeCalls' = CallsLeft(Top.kind) /\ stack' = stack
        /\ pending' = pending
    BY <1>3 DEF UnwindConstruct
  <2>2. Top.aliases \in Files
    BY <1>1, <2>1, InnermostConstruct DEF Top, Construct
  <2>3. CASE Top.kind = "block"
    <3>1. frame' = ClosedFrame(frame, Len(frame.scopes), frame.aliases)
      BY <1>1, <1>3, <2>1, <2>3, ClosingIs DEF UnwindConstruct, Top
    <3> QED
      BY <1>2, <2>1, <3>1
  <2>4. CASE Top.kind = "loop"
    <3>1. frame' = ClosedFrame(frame, OneLess(frame), frame.aliases)
      BY <1>1, <1>3, <2>1, <2>4, ClosingIs DEF UnwindConstruct, Top
    <3> QED
      BY <1>2, <2>1, <3>1
  <2>5. CASE Top.kind = "lambda"
    <3>1. frame' = ClosedFrame(frame, OneLess(frame), Top.aliases)
      BY <1>1, <1>3, <2>1, <2>2, <2>5, ClosingIs DEF UnwindConstruct, Top
    <3> QED
      BY <1>2, <2>1, <3>1
  <2> QED
    BY <1>3, <2>3, <2>4, <2>5 DEF UnwindConstruct
<1>4. ASSUME frame.nest # <<>>
      PROVE  Popped(UnwindTo(frame, Top))
               = ClosedFrame(frame, Top.depth, frame.aliases)
             /\ GoodFrame(Popped(UnwindTo(frame, Top)))
  <2>1. /\ Popped(UnwindTo(frame, Top))
             = ClosedFrame(frame, Top.depth, frame.aliases)
        /\ Top.depth \in Nat
        /\ Top.depth >= Base(frame) + Len(frame.nest) - 1
    BY <1>1, <1>4, ClosingIs, InnermostConstruct DEF Top, Construct
  <2> QED
    BY <1>1, <1>4, <2>1, ClosedStep
<1>5. ASSUME NEW v \in Values, Catch(v) PROVE Counted'
  <2> DEFINE f == Popped(UnwindTo(frame, Top))
             opened == PushScope(Opening(f, "catch"), EmptyScope)
             s == [Now EXCEPT !.frame = opened]
             c == Opened(f, "catch")
  <2>1. frame.nest # <<>> /\ Top.kind = "try"
    BY <1>5 DEF Catch, Inside, Top
  <2>2. GoodFrame(f) /\ f.nest = SubSeq(frame.nest, 1, Len(frame.nest) - 1)
    BY <1>1, <1>4, <2>1, NestClosed
  <2>3. Become(SetVariable(s, ErrName, v))
    BY <1>5 DEF Catch
  <2> HIDE DEF f
  <2>4. f.aliases \in Files
    BY <2>2 DEF GoodFrame, Frame
  <2>5. opened = OpenedFrame(f, "catch", EmptyScope, f.aliases)
    BY <2>2, <2>4, OpeningIs DEF Kinds
  <2>6. GoodFrame(OpenedFrame(f, "catch", EmptyScope, f.aliases))
    BY <2>2, <2>4, ScopeTypes, OpenedGood DEF Kinds
  <2>7. GoodFrame(opened) /\ opened.nest = Append(f.nest, c) /\ c \in Construct
    BY <2>2, <2>5, <2>6, NestOpened DEF Kinds
  <2>8. c.kind = "catch"
    BY DEF Opened
  <2> HIDE DEF opened, c
  <2>9. s \in State /\ s.frame = opened
    BY <1>1, <2>7 DEF State, GoodFrame
  <2> HIDE DEF s
  <2>10. frame'.nest = Append(f.nest, c)
    <3>1. frame' = SetVariable(s, ErrName, v).frame
      BY <2>3 DEF Become
    <3>2. SetVariable(s, ErrName, v).frame.nest = s.frame.nest
      BY <2>9, NestWritten
    <3> QED
      BY <2>7, <2>9, <3>1, <3>2
  <2>11. LambdasIn(f) = LambdasIn(frame)
    <3>1. LambdasIn(f) = LambdasIn(frame) - (IF Top.kind = "lambda" THEN 1 ELSE 0)
      BY <1>1, <2>1, <2>2, LambdasClosed DEF Top
    <3>2. LambdasIn(frame) \in Nat
      BY <1>1, LambdasNat
    <3> QED
      BY <2>1, <3>1, <3>2
  <2>12. LambdasIn(frame') = LambdasIn(f) + 0
    BY <2>2, <2>7, <2>8, <2>10, LambdasOpened
  <2>13. stack' = stack /\ Begun' = Begun /\ Begun \in Int
    BY <1>5, BegunInt DEF Catch, Begun
  <2> DEFINE zero == 0
  <2>14. /\ zero \in Int /\ Begun' = Begun + zero
         /\ LambdasIn(frame') = LambdasIn(frame) + zero
    BY <2>11, <2>12, <2>13
  <2> HIDE DEF zero
  <2> QED
    BY <2>13, <2>14, CountedFrame
<1>6. CASE PassTry
  <2>1. frame.nest # <<>> /\ Top.kind # "lambda"
    BY <1>6 DEF PassTry, Inside, Top
  <2>2. activeCalls' = CallsLeft(Top.kind) /\ stack' = stack
        /\ pending' = pending
    BY <1>6, <2>1 DEF PassTry, CallsLeft
  <2>3. frame' = ClosedFrame(frame, Top.depth, frame.aliases)
    BY <1>4, <1>6, <2>1 DEF PassTry
  <2> QED
    BY <1>2, <2>1, <2>2, <2>3
<1>7. CASE FailCall
  <2> DEFINE pairs == PairsOnError(CallerOf)
  <2>1. /\ stack # <<>> /\ Become(Resumed(frame, pairs)) /\ frame.nest = <<>>
        /\ stack' = SubSeq(stack, 1, Len(stack) - 1)
        /\ activeCalls' = activeCalls - 1 /\ pending' = pending
    BY <1>7 DEF FailCall
  <2>2. pairs \in SUBSET (Names \X Names)
    BY <2>1, StackPopped DEF PairsOnError, Activation
  <2> HIDE DEF pairs
  <2>3. LambdasIn(frame) = 0
    BY <2>1, NoLambdas
  <2> QED
    BY <1>1, <2>1, <2>2, <2>3, ReturnCounted
<1>8. CASE UnwindCall
  <2> DEFINE d == 0 - 1
  <2>1. /\ d \in Int /\ UNCHANGED <<frame, stack>>
        /\ activeCalls' = activeCalls + d /\ Len(pending') = Len(pending) + d
    BY <1>8, AwaitedTyped, BegunInt DEF UnwindCall
  <2> HIDE DEF d
  <2> QED
    BY <2>1, AwaitCounted
<1> QED
  BY <1>3, <1>5, <1>6, <1>7, <1>8 DEF Errors

(* A call starts.                                                          *)
LEMMA CallCounted ==
  ASSUME IInv, Counted, NEW r, r.frame.nest = <<>>, Become(r),
         NEW saved, Parked(saved), saved.nest = frame.nest,
         NEW out \in SUBSET (Names \X Names), NEW lent \in BOOLEAN,
         stack' = Append(stack, [saved |-> saved, out |-> out, lent |-> lent,
                                 functions |-> functions]),
         Begun' = Begun + 1
  PROVE  Counted'
<1> DEFINE act == [saved |-> saved, out |-> out, lent |-> lent,
                   functions |-> functions]
<1>1. act \in Activation /\ act.saved = saved
  BY DEF Activation, Parked, GoodFrame, IInv
<1>2. stack' = Append(stack, act)
  OBVIOUS
<1> HIDE DEF act
<1>3. frame'.nest = <<>>
  BY DEF Become
<1>4. LambdasIn(frame') = 0 /\ LambdasIn(act.saved) = LambdasIn(frame)
  BY <1>1, <1>3, NoLambdas, SameLambdas
<1> QED
  BY <1>1, <1>2, <1>4, CountedCalled

LEMMA CallsCounted ==
  ASSUME IInv, Counted, Calls
  PROVE  Counted'
<1>1. /\ GoodFrame(frame) /\ frame.aliases \in Files
      /\ Sound(Now) /\ Now.frame = frame
  BY NowFields DEF GoodFrame, Frame, IInv, Now
<1>2. ASSUME NEW args \in [Names -> Values], CallFunction(args)
      PROVE  Counted'
  <2> DEFINE params == ParameterScope(Awaited.sig, args, Output)
             s == [Now EXCEPT !.frame = TakenFrom]
             taken == TakeCallState(s, frame.aliases)
             r == IF Awaited.callee \in Modules
                  THEN ModuleFrame(taken.now, Awaited.callee, params)
                  ELSE ScriptFrame(taken.now, params)
             out == Awaited.sig.out
             lent == Awaited.lent
  <2>1. /\ Become(r) /\ Sound(s) /\ params \in Scope
        /\ Awaited.callee \in Files /\ Awaited.sig \in Signatures
        /\ stack' = Append(stack, [saved |-> taken.saved, out |-> out,
                                   lent |-> lent, functions |-> functions])
        /\ pending' = PendingPopped /\ activeCalls' = activeCalls
        /\ TakenFrom.nest = frame.nest
    BY <1>2, StartingCall
  <2>2. Begun' = Begun + 1
    BY <1>2, <2>1, AwaitedTyped, BegunInt DEF CallFunction, Begun
  <2>3. lent \in BOOLEAN /\ out \in SUBSET (Names \X Names)
    BY <1>2, <2>1, StartingCall, ConstantsAssumption
  <2>4. s.frame = TakenFrom
    BY DEF Now
  <2> HIDE DEF params, lent, out, s
  <2>6. /\ AllHome(taken.now)
        /\ taken.now.frame = FreshFrame(EmptyScope, frame.aliases)
        /\ Parked(taken.saved) /\ taken.saved.nest = frame.nest
    BY <1>1, <2>1, <2>4, TakenHome
  <2> HIDE DEF taken
  <2>7. r.frame.nest = <<>>
    BY <1>1, <2>1, <2>6, ModuleFrameSound, ScriptFrameSound
  <2> HIDE DEF r
  <2> QED
    BY <2>1, <2>2, <2>3, <2>6, <2>7, CallCounted
<1>3. ASSUME NEW held \in LambdaHolds, NEW v \in Values, NEW home \in LambdaHomes,
             CallLambda(held, v, home)
      PROVE  Counted'
  <2> DEFINE taken == TakeCallState(Now, home)
             params == [n \in Names |-> IF n \in held THEN v ELSE Absent]
             r == ScriptFrame(taken.now, params)
             none == {}
             lent == FALSE
  <2>1. /\ Become(r)
        /\ stack' = Append(stack, [saved |-> taken.saved, out |-> none,
                                   lent |-> lent, functions |-> functions])
        /\ Begun' = Begun + 1
    BY <1>3, BegunInt DEF CallLambda, Begun
  <2>2. params \in Scope /\ home \in Files
    BY AnyValues, ConstantsAssumption DEF Scope
  <2> HIDE DEF params
  <2>3. /\ AllHome(taken.now)
        /\ taken.now.frame = FreshFrame(EmptyScope, home)
        /\ Parked(taken.saved) /\ taken.saved.nest = frame.nest
    BY <1>1, <2>2, TakenHome
  <2> HIDE DEF taken
  <2>4. r.frame.nest = <<>>
    BY <2>2, <2>3, ScriptFrameSound
  <2> HIDE DEF r
  <2>5. none \in SUBSET (Names \X Names) /\ lent \in BOOLEAN
    OBVIOUS
  <2> HIDE DEF none, lent
  <2> QED
    BY <2>1, <2>3, <2>4, <2>5, CallCounted
<1>4. CASE CallRefused
  BY <1>4, CountedSame DEF Begun, CallRefused, Raising
<1>5. CASE Return
  <2> DEFINE ending == EndedFrame(frame)
             pairs == CallerOf.out
  <2>1. /\ stack # <<>> /\ Become(Resumed(ending, pairs))
        /\ stack' = SubSeq(stack, 1, Len(stack) - 1)
        /\ activeCalls' = activeCalls - 1 /\ pending' = pending
    BY <1>5 DEF Return, EndedFrame
  <2>2. /\ GoodFrame(ending)
        /\ ending.moduleScope = frame.moduleScope /\ ending.path = frame.path
        /\ ending.moduleScope => ending.scopes[1] = frame.scopes[1]
    BY <1>1, EndedGood
  <2>3. pairs \in SUBSET (Names \X Names)
    BY <2>1, StackPopped DEF Activation
  <2> HIDE DEF ending, pairs
  <2>4. InLambda(frame) = {}
    BY <1>5 DEF Return, InLambda
  <2>5. LambdasIn(frame) = 0
    BY <2>4, NoLambdas
  <2> QED
    BY <2>1, <2>2, <2>3, <2>5, ReturnCounted
<1>6. ASSUME NEW callee \in Files, NEW alias \in BOOLEAN, NEW sig \in Signatures,
             BeginCall(callee, alias, sig)
      PROVE  Counted'
  BY <1>6, BeginCallIs, AwaitCounted, 1 \in Int DEF BeginCall
<1>7. CASE CopyArgument
  <2>1. Begun' = Begun
    BY <1>7, CopyArgumentIs DEF CopyArgument, Begun
  <2> QED
    BY <1>7, <2>1, CountedSame DEF CopyArgument
<1>8. CASE AbandonCall
  <2> DEFINE d == 0 - 1
  <2>1. /\ d \in Int /\ UNCHANGED <<frame, stack>>
        /\ activeCalls' = activeCalls + d /\ Len(pending') = Len(pending) + d
    BY <1>8, AwaitedTyped, BegunInt DEF AbandonCall
  <2> HIDE DEF d
  <2> QED
    BY <2>1, AwaitCounted
<1> QED
  BY <1>2, <1>3, <1>4, <1>5, <1>6, <1>7, <1>8 DEF Calls

-----------------------------------------------------------------------------
(* No call is active before the first statement.                           *)
LEMMA InitCounted == Init => Counted
<1> SUFFICES ASSUME Init PROVE Counted
  OBVIOUS
<1> DEFINE entry == [i \in Nat |-> 0]
<1>1. entry \in [Nat -> Nat] /\ entry[0] = 0
  OBVIOUS
<1>2. Len(stack) = 0 /\ 1 .. Len(stack) = {}
  BY DEF Init
<1>3. LambdasIn(frame) = 0 /\ Begun = 0
  <2>1. frame.nest = <<>> /\ Len(pending) = 0 /\ activeCalls = 0
    BY DEF Init, FreshFrame
  <2> QED
    BY <2>1, NoLambdas DEF Begun
<1>4. Begun = entry[Len(stack)] + LambdasIn(frame)
  BY <1>1, <1>2, <1>3
<1>5. BegunBy(entry)
  BY <1>1, <1>2, <1>4 DEF BegunBy
<1>6. Rising(entry)
  <2>1. \A i \in 0 .. Len(stack) : entry[i] = 0
    BY <1>2
  <2> QED
    BY <2>1 DEF Rising
<1> QED
  BY <1>1, <1>5, <1>6 DEF Counted

LEMMA NextCounted == IInv /\ Counted /\ [Next]_vars => Counted'
<1> SUFFICES ASSUME IInv, Counted, [Next]_vars PROVE Counted'
  OBVIOUS
<1>1. CASE Stop
  BY <1>1, CountedSame DEF Begun, Stop
<1>2. CASE UNCHANGED vars
  BY <1>2, CountedSame DEF Begun, vars
<1> QED
  BY <1>1, <1>2, StatementsCounted, ConstructsCounted, CallsCounted,
     ErrorsCounted DEF Next

LEMMA CountedAlways == Spec => []Counted
BY InitCounted, NextCounted, Invariant, PTL DEF Spec

(***************************************************************************)
(* A call is abandoned before the activation it is written in is left, and *)
(* one of a bare name is of the functions installed in that activation.    *)
(***************************************************************************)
FunctionsAt(level) ==
  IF level = Len(stack) THEN functions ELSE stack[level + 1].functions

Placed(call) ==
  /\ call.level <= Len(stack)
  /\ ~ call.alias => call.callee = FunctionsAt(call.level)

Levels == \A k \in DOMAIN pending : Placed(pending[k])

LEMMA InitLevels == Init => Levels
BY DEF Init, Levels

LEMMA PendingTypes ==
  ASSUME IInv
  PROVE  /\ DOMAIN pending = 1 .. Len(pending) /\ Len(pending) \in Nat
         /\ \A k \in DOMAIN pending :
              pending[k] \in GoodCalls /\ pending[k].level \in Nat
BY ElementOfSeq, LenProperties DEF IInv, GoodCalls, PendingCall

(* A call sets its caller aside, with the functions that were installed.   *)
LEMMA PlacedCalled ==
  ASSUME IInv, Levels, NEW act \in Activation, act.functions = functions,
         stack' = Append(stack, act), NEW call \in GoodCalls, Placed(call)
  PROVE  Placed(call)'
<1> DEFINE n == Len(stack)
           at == call.level
<1>1. /\ n \in Nat /\ at \in Nat /\ at <= n
      /\ ~ call.alias => call.callee = FunctionsAt(at)
  BY LenProperties DEF IInv, GoodCalls, PendingCall, Placed
<1>2. /\ Len(stack') = n + 1 /\ stack'[n + 1] = act
      /\ \A i \in 1 .. n : stack'[i] = stack[i]
  BY AppendProperties DEF IInv
<1> HIDE DEF n
<1>3. at <= n + 1 /\ at # n + 1
  BY <1>1
<1>4. stack'[at + 1].functions = FunctionsAt(at)
  <2>1. CASE at = n
    BY <1>2, <2>1 DEF FunctionsAt, n
  <2>2. CASE at # n
    <3>1. at + 1 \in 1 .. n
      BY <1>1, <2>2
    <3> QED
      BY <1>2, <2>2, <3>1 DEF FunctionsAt, n
  <2> QED
    BY <2>1, <2>2
<1> QED
  BY <1>1, <1>2, <1>3, <1>4 DEF Placed, FunctionsAt

LEMMA NextLevels == IInv /\ Levels /\ [Next]_vars => Levels'
<1> SUFFICES ASSUME IInv, Levels, [Next]_vars PROVE Levels'
  OBVIOUS
<1>1. Len(stack) \in Nat
  BY LenProperties DEF IInv
<1>2. ASSUME pending' = pending, UNCHANGED <<functions, stack>> PROVE Levels'
  BY <1>2 DEF Levels, Placed, FunctionsAt
<1>3. ASSUME UNCHANGED <<functions, stack>>, InArgument,
             pending' = PendingPopped
      PROVE  Levels'
  BY <1>3, AwaitedTyped DEF Levels, Placed, FunctionsAt
<1>4. ASSUME NEW callee \in Files, NEW alias \in BOOLEAN, NEW sig \in Signatures,
             BeginCall(callee, alias, sig)
      PROVE  Levels'
  <2>1. UNCHANGED <<functions, stack>> /\ (~ alias => callee = functions)
    BY <1>4 DEF BeginCall
  <2>2. Placed(Begins(callee, alias, sig))
    BY <1>1, <2>1 DEF Begins, Placed, FunctionsAt
  <2>3. \A k \in DOMAIN pending' :
          k \in 1 .. Len(pending) \/ k = Len(pending) + 1
    BY <1>4, BeginCallIs
  <2>4. \A k \in DOMAIN pending' : Placed(pending'[k])
    BY <1>4, <2>2, <2>3, BeginCallIs DEF Levels
  <2> QED
    BY <2>1, <2>4 DEF Levels, Placed, FunctionsAt
<1>5. CASE CopyArgument
  <2>1. UNCHANGED <<functions, stack>>
    BY <1>5 DEF CopyArgument
  <2>2. PICK value \in AnyValue :
          /\ DOMAIN pending' = DOMAIN pending
          /\ \A k \in DOMAIN pending :
               pending'[k] = IF k = Len(pending)
                             THEN [pending[k] EXCEPT !.copy = value]
                             ELSE pending[k]
    BY <1>5, CopyArgumentIs
  <2>3. \A k \in DOMAIN pending : pending[k] \in PendingCall
    BY PendingTypes DEF GoodCalls
  <2>4. \A k \in DOMAIN pending :
          /\ pending'[k].level = pending[k].level
          /\ pending'[k].alias = pending[k].alias
          /\ pending'[k].callee = pending[k].callee
    BY <2>2, <2>3 DEF PendingCall
  <2> QED
    BY <2>1, <2>2, <2>4 DEF Levels, Placed, FunctionsAt
<1>6. ASSUME NEW args \in [Names -> Values], CallFunction(args) PROVE Levels'
  <2>1. PICK act \in Activation :
          act.functions = functions /\ stack' = Append(stack, act)
    BY <1>6, PushedBy
  <2>2. InArgument /\ pending' = PendingPopped
    BY <1>6 DEF CallFunction
  <2>3. \A k \in DOMAIN pending' :
          pending'[k] = pending[k] /\ k \in DOMAIN pending
    BY <2>2, AwaitedTyped
  <2>4. \A k \in DOMAIN pending : Placed(pending[k])'
          \/ pending'[k] # pending[k]
    <3> SUFFICES ASSUME NEW k \in DOMAIN pending, pending'[k] = pending[k]
                 PROVE  Placed(pending[k])'
      OBVIOUS
    <3>1. PICK call \in GoodCalls : call = pending[k]
      BY PendingTypes
    <3>2. Placed(call)'
      BY <2>1, <3>1, PlacedCalled DEF Levels
    <3> QED
      BY <3>1, <3>2 DEF Placed, FunctionsAt
  <2> QED
    BY <2>3, <2>4 DEF Levels
<1>7. ASSUME NEW held \in LambdaHolds, NEW v \in Values, NEW home \in LambdaHomes,
             CallLambda(held, v, home)
      PROVE  Levels'
  <2>1. PICK act \in Activation :
          act.functions = functions /\ stack' = Append(stack, act)
    BY <1>7, LambdaPushed
  <2>2. pending' = pending
    BY <1>7 DEF CallLambda
  <2>3. ASSUME NEW k \in DOMAIN pending PROVE Placed(pending[k])'
    <3>1. PICK call \in GoodCalls : call = pending[k]
      BY PendingTypes
    <3>2. Placed(call)'
      BY <2>1, <3>1, PlacedCalled DEF Levels
    <3> QED
      BY <2>2, <3>1, <3>2 DEF Placed, FunctionsAt
  <2> QED
    BY <2>2, <2>3 DEF Levels
<1>8. ASSUME stack # <<>>, NoneAwaited, pending' = pending,
             functions' = FunctionsBack,
             stack' = SubSeq(stack, 1, Len(stack) - 1)
      PROVE  Levels'
  <2> DEFINE n == Len(stack)
  <2>1. /\ Len(stack') = n - 1 /\ functions' = stack[n].functions
        /\ \A i \in 1 .. n - 1 : stack'[i] = stack[i]
    BY <1>8, StackPopped DEF FunctionsBack, CallerOf
  <2> HIDE DEF n
  <2>2. ASSUME NEW k \in DOMAIN pending PROVE Placed(pending[k])'
    <3> DEFINE at == pending[k].level
    <3>1. /\ at \in Nat /\ at < n /\ n \in Nat
          /\ ~ pending[k].alias => pending[k].callee = stack[at + 1].functions
      BY <1>1, <1>8, PendingTypes
         DEF NoneAwaited, Levels, Placed, FunctionsAt, n
    <3>2. at <= n - 1
      BY <3>1
    <3>3. at # n - 1 => at + 1 \in 1 .. n - 1
      BY <3>1
    <3>4. FunctionsAt(at)' = stack[at + 1].functions
      BY <1>8, <2>1, <3>1, <3>3 DEF FunctionsAt
    <3> QED
      BY <1>8, <2>1, <3>1, <3>2, <3>4 DEF Placed
  <2> QED
    BY <1>8, <2>2 DEF Levels
<1>9. CASE Statements
  BY <1>2, <1>9 DEF Statements, Assign, AssignHot, AssignHotFails, EndVariable,
     Raise, Raising
<1>10. CASE Constructs
  BY <1>2, <1>10 DEF Constructs, EnterBlock, EnterLoop, EnterTry,
     EnterLambdaExpr, LeaveConstruct, LeaveLambdaExpr
<1>11. CASE Calls
  <2>1. CASE AbandonCall
    BY <1>3, <2>1 DEF AbandonCall
  <2>2. CASE CallRefused
    BY <1>2, <2>2 DEF CallRefused, Raising
  <2>3. CASE Return
    BY <1>8, <2>3 DEF Return
  <2> QED
    BY <1>4, <1>5, <1>6, <1>7, <1>11, <2>1, <2>2, <2>3 DEF Calls
<1>12. CASE Errors
  <2>1. CASE UnwindCall
    BY <1>3, <2>1 DEF UnwindCall
  <2>2. CASE FailCall
    BY <1>8, <2>2 DEF FailCall
  <2>3. CASE UnwindConstruct \/ PassTry \/ \E v \in Values : Catch(v)
    BY <1>2, <2>3 DEF UnwindConstruct, PassTry, Catch
  <2> QED
    BY <1>12, <2>1, <2>2, <2>3 DEF Errors
<1>13. CASE Stop
  BY <1>2, <1>13 DEF Stop
<1>14. CASE UNCHANGED vars
  BY <1>2, <1>14 DEF vars
<1> QED
  BY <1>9, <1>10, <1>11, <1>12, <1>13, <1>14 DEF Next

LEMMA LevelsAlways == Spec => []Levels
BY InitLevels, NextLevels, Invariant, PTL DEF Spec

(***************************************************************************)
(* active_calls is the number of calls that are active, those whose        *)
(* arguments are still being evaluated included, however the calls before  *)
(* them ended (enter_call, eval_lambda_call, and the calls' ends): it      *)
(* never drifts towards MAX_ACTIVE_CALLS.                                  *)
(***************************************************************************)
THEOREM CallsBalancedHolds == Spec => []CallsBalanced
<1>1. IInv /\ Counted /\ Levels => CallsBalanced
  <2> SUFFICES ASSUME IInv, Counted, Levels PROVE CallsBalanced
    OBVIOUS
  <2> DEFINE n == Len(stack)
             here == LambdasIn(frame)
             waiting == Len(pending)
  <2>1. PICK all \in [Nat -> Nat] : BegunBy(all) /\ Rising(all)
    BY DEF Counted
  <2>2. n \in Nat /\ here \in Nat /\ waiting \in Nat
    BY NowFields, LambdasNat, LenProperties DEF IInv
  <2>3. /\ all[0] = 0
        /\ \A i \in 1 .. n :
             all[i] = all[i - 1] + LambdasIn(stack[i].saved) + 1
        /\ activeCalls = all[n] + here + waiting
        /\ \A i \in 0 .. n : i <= n => all[i] <= all[n]
    <3>1. n \in 0 .. n /\ all[n] \in Nat
      BY <2>2
    <3>2. Begun = all[n] + here
      BY <2>1 DEF BegunBy
    <3>3. activeCalls = all[n] + here + waiting
      BY <3>2, BegunInt
    <3> QED
      BY <2>1, <3>1, <3>3 DEF BegunBy, Rising
  <2> DEFINE entry == [i \in 0 .. n |-> all[i]]
  <2>4. ASSUME NEW i \in 0 .. n PROVE all[i] \in 0 .. activeCalls
    <3> DEFINE last == all[n]
               one == all[i]
    <3>1. i \in Nat /\ i <= n
      BY <2>2
    <3>2. one \in Nat /\ last \in Nat /\ one <= last /\ activeCalls = last + here + waiting
      BY <2>2, <2>3, <3>1
    <3> HIDE DEF one, last, here, waiting
    <3>3. one \in 0 .. activeCalls
      BY <2>2, <3>2
    <3> QED
      BY <3>3 DEF one
  <2>5. entry \in [0 .. n -> 0 .. activeCalls]
    BY <2>4
  <2>6. /\ 0 \in 0 .. n /\ n \in 0 .. n
        /\ \A i \in 1 .. n : i \in 0 .. n /\ i - 1 \in 0 .. n
    BY <2>2
  <2>7. /\ entry[0] = 0
        /\ \A i \in 1 .. n :
             entry[i] = entry[i - 1] + LambdasIn(stack[i].saved) + 1
        /\ activeCalls = entry[n] + here + waiting
    BY <2>3, <2>6
  <2>8. CountedBy(entry)
    <3> HIDE DEF entry
    <3> QED
      BY <2>7 DEF CountedBy
  <2> HIDE DEF entry
  <2> QED
    BY <2>5, <2>8 DEF CallsBalanced, Levels, Placed
<1> QED
  BY <1>1, Invariant, CountedAlways, LevelsAlways, PTL

(***************************************************************************)
(* Every variable keeps its type; active_calls, a usize that is decreased  *)
(* with `-= 1`, does not go below zero.                                    *)
(***************************************************************************)
THEOREM TypeCorrect == Spec => []TypeOK
<1>1. IInv /\ Counted => TypeOK
  <2> SUFFICES ASSUME IInv, Counted PROVE TypeOK
    OBVIOUS
  <2>1. PICK entry \in [Nat -> Nat] : BegunBy(entry) /\ Rising(entry)
    BY DEF Counted
  <2>2. /\ LambdasIn(frame) \in Nat /\ Len(stack) \in Nat
        /\ pending \in Seq(PendingCall)
    <3>1. GoodCalls \subseteq PendingCall
      BY DEF GoodCalls
    <3> QED
      BY <3>1, NowFields, LambdasNat, LenProperties DEF IInv
  <2> DEFINE e == entry[Len(stack)]
             here == LambdasIn(frame)
             waiting == Len(pending)
  <2>3. /\ e \in Nat /\ here \in Nat /\ waiting \in Nat
        /\ activeCalls = (e + here) + waiting
    BY <2>1, <2>2, BegunInt DEF BegunBy
  <2> HIDE DEF e, here, waiting
  <2>4. activeCalls \in Nat
    BY <2>3
  <2>5. /\ store \in [Modules -> Table] /\ frame \in Frame
        /\ moduleDead \in SUBSET Names
    BY NowFields DEF State
  <2> QED
    BY <2>2, <2>4, <2>5 DEF TypeOK, IInv
<1> QED
  BY <1>1, Invariant, CountedAlways, PTL

=============================================================================
