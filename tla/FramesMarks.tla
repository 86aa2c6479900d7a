---------------------------- MODULE FramesMarks ----------------------------
(***************************************************************************)
(* Where the things a frame remembers point: the marks of its loops, the   *)
(* depths its constructs return to, the places of its ended names          *)
(* (MarksInside, NoStrayScope), and whose functions and aliases are        *)
(* installed while it runs (ModuleCodeAtHome).                             *)
(*                                                                         *)
(* None of these looks at what the scopes hold, so the steps of the        *)
(* program come down to a few moves: write, open a construct, close one,   *)
(* catch an error, call, go back.  That every step is one of them is       *)
(* proved once (EveryStepMoves); each invariant is then proved by moves.   *)
(***************************************************************************)
EXTENDS FramesProofs

(* The frame is the same but for what its scopes hold and what has ended.  *)
Kept(f, g) ==
  /\ g.moduleScope = f.moduleScope /\ g.path = f.path
  /\ g.aliases = f.aliases /\ g.nest = f.nest /\ g.loops = f.loops
  /\ Len(g.scopes) = Len(f.scopes)
  /\ \A n \in Names :
       \/ g.dead[n] \in {0, f.dead[n]}
       \/ g.dead[n] \in Base(f) .. Len(f.scopes)

(* What closing the innermost construct leaves, down to a depth.           *)
AliasesAfter == IF Top.kind = "lambda" THEN Top.aliases ELSE frame.aliases

ClosedTo(d) == ClosedFrame(frame, d, AliasesAfter)

OpensIn(f, kind, aliases) ==
  /\ kind # "lambda" => aliases = f.aliases
  /\ Kept(OpenedFrame(f, kind, EmptyScope, aliases), frame')

Writes ==
  /\ Kept(frame, frame')
  /\ mode' = "run" => mode = "run"
  /\ UNCHANGED <<functions, stack>>

Opens ==
  /\ mode = "run"
  /\ \E kind \in Kinds, aliases \in Files : OpensIn(frame, kind, aliases)
  /\ UNCHANGED <<functions, stack>>

Closes ==
  /\ frame.nest # <<>>
  /\ \E d \in Nat :
       /\ d >= Base(frame) + Len(frame.nest) - 1
       /\ mode = "run" => d = OneLess(frame)
       /\ frame' = ClosedTo(d)
  /\ UNCHANGED <<functions, stack, mode>>

Catches ==
  /\ frame.nest # <<>>
  /\ OpensIn(ClosedTo(Top.depth), "catch", ClosedTo(Top.depth).aliases)
  /\ UNCHANGED <<functions, stack>>

CallsAway ==
  /\ mode = "run"
  /\ \E act \in Activation :
       /\ Kept(frame, act.saved)
       /\ act.functions = functions
       /\ stack' = Append(stack, act)
  /\ frame'.nest = <<>> /\ frame'.loops = <<>>
  /\ frame'.dead = [n \in Names |-> 0]
  /\ Len(frame'.scopes) = Base(frame')
  /\ frame'.moduleScope => frame'.aliases = frame'.path /\ functions' = frame'.path

GoesBack ==
  /\ stack # <<>>
  /\ Kept(CallerOf.saved, frame')
  /\ functions' = CallerOf.functions
  /\ stack' = SubSeq(stack, 1, Len(stack) - 1)
  /\ mode' = mode

-----------------------------------------------------------------------------
(* What the writers of scopes keep.                                        *)

LEMMA ExceptLen ==
  ASSUME NEW S, NEW s \in Seq(S), NEW at, NEW v
  PROVE  Len([s EXCEPT ![at] = v]) = Len(s)
<1> DEFINE T == S \cup {v}
<1>1. s \in Seq(T) /\ v \in T
  <2>1. \A i \in 1 .. Len(s) : s[i] \in T
    BY ElementOfSeq
  <2> QED
    BY <2>1
<1> HIDE DEF T
<1>2. CASE at \in 1 .. Len(s)
  BY <1>1, <1>2, ExceptSeq
<1>3. CASE at \notin 1 .. Len(s)
  <2>1. s \in [1 .. Len(s) -> S]
    BY LenProperties
  <2>2. [s EXCEPT ![at] = v] = s
    BY <1>3, <2>1
  <2> QED
    BY <2>2
<1> QED
  BY <1>2, <1>3

LEMMA KeptSame == \A f : Kept(f, f)
BY DEF Kept

LEMMA KeptTwice ==
  ASSUME NEW f, NEW g, NEW h, Kept(f, g), Kept(g, h)
  PROVE  Kept(f, h)
<1>1. Base(g) = Base(f) /\ Len(g.scopes) = Len(f.scopes)
  BY DEF Kept, Base
<1> QED
  BY <1>1 DEF Kept

(* One scope has another value, and one name another place.                *)
LEMMA KeptWrite ==
  ASSUME NEW f \in Frame, NEW at, NEW scope, NEW name \in Names, NEW place,
         place \in {0, f.dead[name]} \/ place \in Base(f) .. Len(f.scopes)
  PROVE  Kept(f, [f EXCEPT !.scopes[at] = scope, !.dead[name] = place])
<1> DEFINE g == [f EXCEPT !.scopes[at] = scope, !.dead[name] = place]
           scopes == [f.scopes EXCEPT ![at] = scope]
           dead == [f.dead EXCEPT ![name] = place]
<1>1. /\ g.moduleScope = f.moduleScope /\ g.path = f.path
      /\ g.aliases = f.aliases /\ g.nest = f.nest /\ g.loops = f.loops
      /\ g.scopes = scopes /\ g.dead = dead
  BY DEF Frame
<1>2. Len(scopes) = Len(f.scopes)
  <2>1. f.scopes \in Seq(Scope)
    BY DEF Frame
  <2> QED
    BY <2>1, ExceptLen
<1>3. ASSUME NEW n \in Names
      PROVE  \/ dead[n] \in {0, f.dead[n]}
             \/ dead[n] \in Base(f) .. Len(f.scopes)
  <2>1. f.dead \in [Names -> Nat]
    BY DEF Frame
  <2>2. dead[n] = IF n = name THEN place ELSE f.dead[n]
    BY <2>1
  <2> HIDE DEF dead
  <2> QED
    BY <2>2
<1> HIDE DEF g, scopes, dead
<1>4. Kept(f, g)
  BY <1>1, <1>2, <1>3 DEF Kept
<1> QED
  BY <1>4 DEF g

LEMMA KeptScope ==
  ASSUME NEW f \in Frame, NEW at, NEW scope
  PROVE  Kept(f, [f EXCEPT !.scopes[at] = scope])
<1> DEFINE g == [f EXCEPT !.scopes[at] = scope]
           scopes == [f.scopes EXCEPT ![at] = scope]
<1>1. /\ g.moduleScope = f.moduleScope /\ g.path = f.path
      /\ g.aliases = f.aliases /\ g.nest = f.nest /\ g.loops = f.loops
      /\ g.scopes = scopes /\ g.dead = f.dead
  BY DEF Frame
<1>2. Len(scopes) = Len(f.scopes)
  <2>1. f.scopes \in Seq(Scope)
    BY DEF Frame
  <2> QED
    BY <2>1, ExceptLen
<1> HIDE DEF g, scopes
<1>3. Kept(f, g)
  BY <1>1, <1>2 DEF Kept
<1> QED
  BY <1>3 DEF g

LEMMA KeptSetAt ==
  ASSUME NEW f \in Frame, NEW at, NEW name, NEW value
  PROVE  Kept(f, SetAt(f, at, name, value))
<1>1. SetAt(f, at, name, value)
        = [f EXCEPT !.scopes[at] = Bind(f.scopes[at], name, value)]
  BY DEF SetAt, Frame
<1> QED
  BY <1>1, KeptScope

LEMMA KeptNew ==
  ASSUME NEW f \in Frame, NEW name \in Names, NEW value
  PROVE  Kept(f, SetVariableNew(f, name, value))
<1> DEFINE at == Len(f.scopes)
           scope == Bind(f.scopes[at], name, value)
<1>1. SetVariableNew(f, name, value)
        = [f EXCEPT !.scopes[at] = scope, !.dead[name] = 0]
  BY DEF SetVariableNew, Frame
<1> DEFINE place == 0
<1>2. place \in {0, f.dead[name]}
  OBVIOUS
<1> HIDE DEF at, scope, place
<1>3. Kept(f, [f EXCEPT !.scopes[at] = scope, !.dead[name] = place])
  BY <1>2, KeptWrite
<1> QED
  BY <1>1, <1>3 DEF place

LEMMA KeptAssigned ==
  ASSUME NEW s \in State, NEW name \in Names, NEW value
  PROVE  Kept(s.frame, SetVariable(s, name, value).frame)
<1> DEFINE f == s.frame
           at == Place(f, s.moduleDead, name)
           scope == Bind(f.scopes[at], name, value)
<1>1. SetVariable(s, name, value).frame
        = [f EXCEPT !.scopes[at] = scope, !.dead[name] = 0]
  BY DEF SetVariable, State, Frame
<1>2. f \in Frame
  BY DEF State
<1> DEFINE place == 0
<1>3. place \in {0, f.dead[name]}
  OBVIOUS
<1> HIDE DEF f, at, scope, place
<1>4. Kept(f, [f EXCEPT !.scopes[at] = scope, !.dead[name] = place])
  BY <1>2, <1>3, KeptWrite
<1> QED
  BY <1>1, <1>4 DEF f, place

LEMMA KeptDestroyed ==
  ASSUME NEW s \in State, NEW name \in Names, InView(s.frame.scopes, name)
  PROVE  Kept(s.frame, Destroy(s, name).frame)
<1> DEFINE f == s.frame
           at == Innermost(f.scopes, name)
           scope == Unbind(f.scopes[at], name)
<1>1. /\ f \in Frame /\ f.scopes \in Seq(Scope) /\ Base(f) \in Nat
      /\ Len(f.scopes) \in Nat
  BY LenProperties DEF State, Frame, Base
<1>2. /\ at \in 1 .. Len(f.scopes)
      /\ \A j \in Holders(f.scopes, name) : j <= at
  BY <1>1, InnermostHolds
<1>3. CASE OwnHolders(f, name) # {}
  <2>1. PICK j \in Holders(f.scopes, name) : j >= Base(f)
    BY <1>3 DEF OwnHolders
  <2>2. j \in Nat /\ j <= at
    BY <1>1, <1>2, LenProperties DEF Holders
  <2>3. Destroy(s, name).frame = [f EXCEPT !.scopes[at] = scope, !.dead[name] = at]
    BY <1>3 DEF Destroy, State, Frame
  <2> HIDE DEF at, scope, f
  <2>4. at \in Base(f) .. Len(f.scopes)
    BY <1>1, <1>2, <2>1, <2>2
  <2>5. Kept(f, [f EXCEPT !.scopes[at] = scope, !.dead[name] = at])
    BY <1>1, <2>4, KeptWrite
  <2> QED
    BY <2>3, <2>5 DEF f
<1>4. CASE OwnHolders(f, name) = {}
  <2>1. Destroy(s, name).frame = [f EXCEPT !.scopes[at] = scope]
    BY <1>4 DEF Destroy, State, Frame
  <2> HIDE DEF at, scope, f
  <2>2. Kept(f, [f EXCEPT !.scopes[at] = scope])
    BY <1>1, KeptScope
  <2> QED
    BY <2>1, <2>2 DEF f
<1> QED
  BY <1>3, <1>4

LEMMA KeptCheckedIn ==
  ASSUME NEW s \in State
  PROVE  Kept(s.frame, CheckIn(s).frame)
<1>1. CASE ~ s.frame.moduleScope
  BY <1>1, KeptSame DEF CheckIn
<1>2. CASE s.frame.moduleScope
  <2>1. CheckIn(s).frame = [s.frame EXCEPT !.scopes[1] = EmptyScope]
    BY <1>2 DEF CheckIn
  <2>2. s.frame \in Frame
    BY DEF State
  <2>3. Kept(s.frame, [s.frame EXCEPT !.scopes[1] = EmptyScope])
    BY <2>2, KeptScope
  <2> QED
    BY <2>1, <2>3
<1> QED
  BY <1>1, <1>2

LEMMA KeptCheckedOut ==
  ASSUME NEW s \in State
  PROVE  Kept(s.frame, CheckOut(s).frame)
<1>1. CASE ~ s.frame.moduleScope
  BY <1>1, KeptSame DEF CheckOut
<1>2. CASE s.frame.moduleScope
  <2>1. CheckOut(s).frame
          = [s.frame EXCEPT !.scopes[1] = s.store[s.frame.path].vars]
    BY <1>2 DEF CheckOut
  <2>2. s.frame \in Frame
    BY DEF State
  <2> DEFINE held == s.store[s.frame.path].vars
  <2> HIDE DEF held
  <2>3. Kept(s.frame, [s.frame EXCEPT !.scopes[1] = held])
    BY <2>2, KeptScope
  <2> QED
    BY <2>1, <2>3 DEF held
<1> QED
  BY <1>1, <1>2

-----------------------------------------------------------------------------
(* Every step is a move.                                                   *)

LEMMA StatementsMove ==
  ASSUME IInv, Statements
  PROVE  Writes
<1>1. Now \in State /\ GoodFrame(frame) /\ Now.frame = frame /\ frame \in Frame
  BY NowFields DEF GoodFrame
<1>2. ASSUME NEW n \in Names, NEW v \in Values, Assign(n, v) PROVE Writes
  <2>1. Kept(Now.frame, SetVariable(Now, n, v).frame)
    BY <1>1, KeptAssigned
  <2> QED
    BY <1>1, <1>2, <2>1 DEF Assign, Become, Writes
<1>3. ASSUME NEW n \in Names, NEW v \in Values, NEW above \in BOOLEAN,
             AssignHot(n, v, above)
      PROVE  Writes
  <2> DEFINE at == IF above THEN AboveNearestLoop(frame) ELSE NearestLoop(frame)
             placed == IF InView(frame.scopes, n) THEN frame
                       ELSE SetAt(frame, at, n, Initial)
             s == [Now EXCEPT !.frame = placed]
  <2>1. at \in Nat /\ at >= Base(frame)
    BY <1>1, LoopPlaces
  <2>2. GoodFrame(placed) /\ Kept(frame, placed)
    <3> HIDE DEF at
    <3> QED
      BY <1>1, <2>1, AnyValues, SetAtFrame, KeptSetAt, KeptSame
  <2>3. /\ Become(SetVariable(s, n, v))
        /\ mode' = mode /\ UNCHANGED <<functions, stack>>
    BY <1>3 DEF AssignHot
  <2> HIDE DEF placed
  <2>4. s \in State /\ s.frame = placed
    BY <1>1, <2>2 DEF State, GoodFrame
  <2> HIDE DEF s
  <2>5. Kept(placed, SetVariable(s, n, v).frame)
    BY <2>4, KeptAssigned
  <2>6. Kept(frame, frame')
    BY <2>2, <2>3, <2>5, KeptTwice DEF Become
  <2> QED
    BY <2>3, <2>6 DEF Writes
<1>4. ASSUME NEW n \in Names, NEW above \in BOOLEAN, AssignHotFails(n, above)
      PROVE  Writes
  <2> DEFINE at == IF above THEN AboveNearestLoop(frame) ELSE NearestLoop(frame)
  <2>1. /\ frame' = SetAt(frame, at, n, Initial)
        /\ mode' = "error" /\ UNCHANGED <<functions, stack>>
    BY <1>4 DEF AssignHotFails
  <2> HIDE DEF at
  <2>2. Kept(frame, frame')
    BY <1>1, <2>1, KeptSetAt
  <2> QED
    BY <2>1, <2>2 DEF Writes
<1>5. ASSUME Raising PROVE Writes
  BY <1>5, KeptSame DEF Raising, Writes
<1>6. ASSUME NEW n \in Names, EndVariable(n) PROVE Writes
  <2>1. CASE InView(frame.scopes, n)
    <3>1. Kept(Now.frame, Destroy(Now, n).frame)
      BY <1>1, <2>1, KeptDestroyed
    <3> QED
      BY <1>1, <1>6, <2>1, <3>1 DEF EndVariable, Become, Writes
  <2>2. CASE ~ InView(frame.scopes, n)
    BY <1>5, <1>6, <2>2 DEF EndVariable
  <2> QED
    BY <2>1, <2>2
<1> QED
  BY <1>2, <1>3, <1>4, <1>5, <1>6 DEF Statements, Raise

LEMMA ConstructsMove ==
  ASSUME IInv, Constructs
  PROVE  Opens \/ Closes
<1>1. GoodFrame(frame) /\ frame.aliases \in Files
  BY NowFields DEF GoodFrame, Frame
<1>2. ASSUME NEW kind \in Kinds, kind # "lambda", mode = "run",
             frame' = OpenedFrame(frame, kind, EmptyScope, frame.aliases),
             UNCHANGED <<functions, stack>>
      PROVE  Opens
  <2>1. OpensIn(frame, kind, frame.aliases)
    BY <1>2, KeptSame DEF OpensIn
  <2> QED
    BY <1>1, <1>2, <2>1 DEF Opens
<1>3. CASE EnterBlock
  <2>1. frame' = OpenedFrame(frame, "block", EmptyScope, frame.aliases)
    BY <1>1, <1>3, OpeningIs DEF EnterBlock, Kinds
  <2> QED
    BY <1>2, <1>3, <2>1 DEF EnterBlock, Kinds
<1>4. CASE EnterLoop
  <2>1. frame' = [PushScope(Opening(frame, "loop"), EmptyScope)
                    EXCEPT !.loops = Append(@, Len(frame.scopes) + 1)]
    BY <1>4 DEF EnterLoop
  <2>2. frame' = OpenedFrame(frame, "loop", EmptyScope, frame.aliases)
    BY <1>1, <2>1, OpeningLoopIs
  <2> QED
    BY <1>2, <1>4, <2>2 DEF EnterLoop, InStatement, Kinds
<1>5. CASE EnterTry
  <2>1. frame' = OpenedFrame(frame, "try", EmptyScope, frame.aliases)
    BY <1>1, <1>5, OpeningIs DEF EnterTry, Kinds
  <2> QED
    BY <1>2, <1>5, <2>1 DEF EnterTry, InStatement, Kinds
<1>6. ASSUME NEW n \in LambdaParams, NEW v \in Values, NEW home \in LambdaHomes,
             EnterLambdaExpr(n, v, home)
      PROVE  Opens
  <2> DEFINE h == OpenedFrame(frame, "lambda", EmptyScope, home)
  <2>1. /\ home \in Files /\ n \in Names
        /\ "lambda" \in Kinds /\ EmptyScope \in Scope
    BY ConstantsAssumption, ScopeTypes DEF Kinds
  <2>2. GoodFrame(h)
    BY <1>1, <2>1, OpenedGood
  <2>3. frame' = SetVariableNew(h, n, v)
    BY <1>1, <1>6, <2>1, OpeningIs DEF EnterLambdaExpr, Kinds
  <2> HIDE DEF h
  <2>4. Kept(h, frame')
    BY <2>1, <2>2, <2>3, KeptNew DEF GoodFrame
  <2>5. OpensIn(frame, "lambda", home)
    BY <2>4 DEF OpensIn, h
  <2> QED
    BY <1>6, <2>1, <2>5 DEF EnterLambdaExpr, Opens
<1>7. ASSUME frame.nest # <<>>, frame' = ClosedTo(OneLess(frame)),
             UNCHANGED <<functions, stack, mode>>
      PROVE  Closes
  <2>1. OneLess(frame) \in Nat
        /\ OneLess(frame) >= Base(frame) + Len(frame.nest) - 1
    BY <1>1, <1>7, ClosingIs
  <2> QED
    BY <1>7, <2>1 DEF Closes
<1>8. CASE LeaveConstruct
  <2>1. /\ frame.nest # <<>> /\ Top.kind # "lambda"
        /\ frame' = ClosedFrame(frame, OneLess(frame), frame.aliases)
    BY <1>1, <1>8, ClosingIs DEF LeaveConstruct, Top
  <2> QED
    BY <1>7, <1>8, <2>1 DEF LeaveConstruct, ClosedTo, AliasesAfter
<1>9. CASE LeaveLambdaExpr
  <2>1. frame.nest # <<>> /\ Top.kind = "lambda"
    BY <1>9 DEF LeaveLambdaExpr, Inside, Top
  <2>2. Top.aliases \in Files
    BY <1>1, <2>1, InnermostConstruct DEF Top, Construct
  <2>3. frame' = ClosedFrame(frame, OneLess(frame), Top.aliases)
    BY <1>1, <1>9, <2>1, <2>2, ClosingIs DEF LeaveLambdaExpr, Top
  <2> QED
    BY <1>7, <1>9, <2>1, <2>3 DEF LeaveLambdaExpr, ClosedTo, AliasesAfter
<1> QED
  BY <1>3, <1>4, <1>5, <1>6, <1>8, <1>9 DEF Constructs

(* A call comes back: the caller's frame, with the module's table and what *)
(* it was promised written in.                                             *)
LEMMA ResumedKept ==
  ASSUME IInv, stack # <<>>, NEW ending, GoodFrame(ending),
         ending.moduleScope = frame.moduleScope, ending.path = frame.path,
         ending.moduleScope => ending.scopes[1] = frame.scopes[1],
         NEW pairs \in SUBSET (Names \X Names)
  PROVE  Kept(CallerOf.saved, Resumed(ending, pairs).frame)
<1> DEFINE act == CallerOf
           s == [Now EXCEPT !.frame = ending]
           in == CheckIn(s)
           waiting == [in EXCEPT !.frame = act.saved]
           back == CheckOut(waiting)
<1>1. Parked(act.saved)
  <2>1. Len(stack) \in DOMAIN stack
    <3>1. stack \in Seq(Activation)
      BY DEF IInv
    <3> QED
      BY <3>1, LenProperties, EmptySeq
  <2> QED
    BY <2>1 DEF IInv, CallerOf
<1>2. Sound(s)
  <2>1. Sound(Now) /\ Now.frame = frame
    BY DEF IInv, Now
  <2> QED
    BY <2>1, OwnChange
<1>3. AllHome(in)
  <2> HIDE DEF s
  <2> QED
    BY <1>2, CheckInHome
<1> HIDE DEF in, act
<1>4. /\ waiting \in State /\ waiting.frame = act.saved
      /\ waiting.store = in.store /\ waiting.moduleDead = in.moduleDead
  BY <1>1, <1>3 DEF AllHome, State, Parked, GoodFrame
<1> HIDE DEF waiting
<1>5. AllHome(waiting)
  BY <1>1, <1>3, <1>4 DEF AllHome, Parked, GoodFrame
<1>6. back \in State /\ Kept(act.saved, back.frame)
  <2>1. Sound(back)
    BY <1>5, CheckOutSound
  <2>2. Kept(waiting.frame, back.frame)
    BY <1>4, KeptCheckedOut
  <2> QED
    BY <1>4, <2>1, <2>2 DEF Sound
<1> HIDE DEF back
<1>7. CASE pairs = {}
  <2>1. Resumed(ending, pairs) = back
    BY <1>7 DEF Resumed, back, waiting, in, act
  <2> QED
    BY <1>6, <2>1 DEF act
<1>8. CASE pairs # {}
  <2> DEFINE pair == CHOOSE p \in pairs : TRUE
             value == TakeVariable(ending, pair[1], Unit)
  <2>1. Resumed(ending, pairs) = SetVariable(back, pair[2], value)
    BY <1>8 DEF Resumed, back, waiting, in, act
  <2>2. pair \in Names \X Names
    BY <1>8
  <2> HIDE DEF pair
  <2>3. pair[2] \in Names
    BY <2>2
  <2> HIDE DEF value
  <2>4. Kept(back.frame, SetVariable(back, pair[2], value).frame)
    BY <1>6, <2>3, KeptAssigned
  <2> QED
    BY <1>6, <2>1, <2>4, KeptTwice DEF act
<1> QED
  BY <1>7, <1>8

LEMMA ErrorsMove ==
  ASSUME IInv, Errors
  PROVE  Closes \/ Catches \/ GoesBack \/ Writes
<1>1. /\ GoodFrame(frame) /\ frame.aliases \in Files
      /\ frame.nest \in Seq(Construct) /\ Now \in State
      /\ Len(frame.scopes) \in Nat
  BY NowFields, LenProperties DEF GoodFrame, Frame
<1>2. ASSUME NEW d \in Nat, d >= Base(frame) + Len(frame.nest) - 1,
             frame.nest # <<>>, mode = "error", frame' = ClosedTo(d),
             UNCHANGED <<functions, stack, mode>>
      PROVE  Closes
  BY <1>2 DEF Closes
<1>3. CASE UnwindConstruct
  <2>1. /\ frame.nest # <<>> /\ mode = "error"
        /\ UNCHANGED <<functions, stack, mode>>
    BY <1>3 DEF UnwindConstruct
  <2>2. /\ Top.aliases \in Files
        /\ Len(frame.scopes) >= Base(frame) + Len(frame.nest) - 1
        /\ OneLess(frame) \in Nat
        /\ OneLess(frame) >= Base(frame) + Len(frame.nest) - 1
    <3>1. Top.aliases \in Files /\ Len(frame.scopes) >= Base(frame) + Len(frame.nest)
      BY <1>1, <2>1, InnermostConstruct DEF Top, Construct
    <3>2. Base(frame) \in Nat /\ Len(frame.nest) \in Nat
      BY <1>1, LenProperties DEF Base
    <3>3. /\ OneLess(frame) \in Nat
          /\ OneLess(frame) >= Base(frame) + Len(frame.nest) - 1
      BY <1>1, <2>1, ClosingIs
    <3> QED
      BY <1>1, <3>1, <3>2, <3>3
  <2>3. CASE Top.kind = "block"
    <3>1. frame' = ClosedFrame(frame, Len(frame.scopes), frame.aliases)
      BY <1>1, <1>3, <2>1, <2>3, ClosingIs DEF UnwindConstruct, Top
    <3>2. frame' = ClosedTo(Len(frame.scopes))
      BY <2>3, <3>1 DEF ClosedTo, AliasesAfter
    <3> QED
      BY <1>1, <1>2, <2>1, <2>2, <3>2
  <2>4. CASE Top.kind = "loop"
    <3>1. frame' = ClosedFrame(frame, OneLess(frame), frame.aliases)
      BY <1>1, <1>3, <2>1, <2>4, ClosingIs DEF UnwindConstruct, Top
    <3>2. frame' = ClosedTo(OneLess(frame))
      BY <2>4, <3>1 DEF ClosedTo, AliasesAfter
    <3> QED
      BY <1>2, <2>1, <2>2, <3>2
  <2>5. CASE Top.kind = "lambda"
    <3>1. frame' = ClosedFrame(frame, OneLess(frame), Top.aliases)
      BY <1>1, <1>3, <2>1, <2>2, <2>5, ClosingIs DEF UnwindConstruct, Top
    <3>2. frame' = ClosedTo(OneLess(frame))
      BY <2>5, <3>1 DEF ClosedTo, AliasesAfter
    <3> QED
      BY <1>2, <2>1, <2>2, <3>2
  <2> QED
    BY <1>3, <2>3, <2>4, <2>5 DEF UnwindConstruct
<1>4. ASSUME frame.nest # <<>>, Top.kind # "lambda"
      PROVE  /\ Popped(UnwindTo(frame, Top)) = ClosedTo(Top.depth)
             /\ GoodFrame(ClosedTo(Top.depth))
             /\ Top.depth \in Nat
             /\ Top.depth >= Base(frame) + Len(frame.nest) - 1
  <2>1. /\ Popped(UnwindTo(frame, Top))
             = ClosedFrame(frame, Top.depth, frame.aliases)
        /\ Top.depth \in Nat
        /\ Top.depth >= Base(frame) + Len(frame.nest) - 1
    BY <1>1, <1>4, ClosingIs, InnermostConstruct DEF Top, Construct
  <2>2. GoodFrame(ClosedFrame(frame, Top.depth, frame.aliases))
    BY <1>1, <1>4, <2>1, ClosedStep
  <2> QED
    BY <1>4, <2>1, <2>2 DEF ClosedTo, AliasesAfter
<1>5. ASSUME NEW v \in Values, Catch(v) PROVE Catches
  <2> DEFINE f == Popped(UnwindTo(frame, Top))
             opened == PushScope(Opening(f, "catch"), EmptyScope)
             s == [Now EXCEPT !.frame = opened]
  <2>1. /\ frame.nest # <<>> /\ Top.kind = "try"
        /\ UNCHANGED <<functions, stack>>
    BY <1>5 DEF Catch, Inside, Top
  <2>2. f = ClosedTo(Top.depth) /\ GoodFrame(f)
    BY <1>4, <2>1
  <2>3. Become(SetVariable(s, ErrName, v))
    BY <1>5 DEF Catch
  <2> HIDE DEF f
  <2>4. f.aliases \in Files
    BY <2>2 DEF GoodFrame, Frame
  <2>5. opened = OpenedFrame(f, "catch", EmptyScope, f.aliases)
    BY <2>2, <2>4, OpeningIs DEF Kinds
  <2>6. GoodFrame(opened)
    <3>1. GoodFrame(OpenedFrame(f, "catch", EmptyScope, f.aliases))
      BY <2>2, <2>4, ScopeTypes, OpenedGood DEF Kinds
    <3> QED
      BY <2>5, <3>1
  <2> HIDE DEF opened
  <2>7. s \in State /\ s.frame = opened
    BY <1>1, <2>6 DEF State, GoodFrame
  <2> HIDE DEF s
  <2>8. Kept(opened, SetVariable(s, ErrName, v).frame)
    BY <2>7, KeptAssigned, ConstantsAssumption
  <2>9. OpensIn(f, "catch", f.aliases)
    BY <2>3, <2>5, <2>8 DEF OpensIn, Become
  <2> QED
    BY <2>1, <2>2, <2>9 DEF Catches
<1>6. CASE PassTry
  <2>1. frame.nest # <<>> /\ Top.kind # "lambda"
    BY <1>6 DEF PassTry, Inside, Top
  <2> QED
    BY <1>2, <1>4, <1>6, <2>1 DEF PassTry
<1>7. CASE FailCall
  <2> DEFINE pairs == PairsOnError(CallerOf)
  <2>1. /\ stack # <<>> /\ Become(Resumed(frame, pairs))
        /\ stack' = SubSeq(stack, 1, Len(stack) - 1)
        /\ functions' = CallerOf.functions /\ mode' = mode
    BY <1>7 DEF FailCall, FunctionsBack
  <2>2. pairs \in SUBSET (Names \X Names)
    BY <2>1, StackPopped DEF PairsOnError, Activation
  <2> HIDE DEF pairs
  <2>3. Kept(CallerOf.saved, Resumed(frame, pairs).frame)
    BY <1>1, <2>1, <2>2, ResumedKept
  <2> QED
    BY <2>1, <2>3 DEF GoesBack, Become
<1>8. CASE UnwindCall
  BY <1>8, KeptSame DEF UnwindCall, Writes
<1> QED
  BY <1>3, <1>5, <1>6, <1>7, <1>8 DEF Errors

(* The frame a call starts with.                                           *)
LEMMA CalleeFrame ==
  ASSUME NEW s \in State, NEW aliases \in Files,
         s.frame = FreshFrame(EmptyScope, aliases),
         NEW callee \in Files, NEW params
  PROVE  LET r == IF callee \in Modules THEN ModuleFrame(s, callee, params)
                  ELSE ScriptFrame(s, params)
             g == r.frame
         IN  /\ g.nest = <<>> /\ g.loops = <<>>
             /\ g.dead = [n \in Names |-> 0]
             /\ Len(g.scopes) = Base(g)
             /\ g.moduleScope => g.aliases = callee /\ g.path = callee
<1>1. CASE callee \in Modules
  <2> DEFINE g == ModuleFrame(s, callee, params).frame
  <2>1. g = [FreshFrame(EmptyScope, aliases) EXCEPT
               !.scopes = <<s.store[callee].vars, params>>,
               !.moduleScope = TRUE, !.path = callee, !.aliases = callee]
    BY DEF ModuleFrame
  <2>2. /\ g.nest = <<>> /\ g.loops = <<>> /\ g.dead = [n \in Names |-> 0]
        /\ g.scopes = <<s.store[callee].vars, params>>
        /\ g.moduleScope = TRUE /\ g.aliases = callee /\ g.path = callee
    BY <2>1 DEF FreshFrame
  <2> HIDE DEF g
  <2>3. Len(g.scopes) = 2 /\ Base(g) = 2
    BY <2>2 DEF Base
  <2> QED
    BY <1>1, <2>2, <2>3 DEF g
<1>2. CASE callee \notin Modules
  <2> DEFINE g == ScriptFrame(s, params).frame
  <2>1. g = [FreshFrame(EmptyScope, aliases) EXCEPT !.scopes = <<params>>]
    BY DEF ScriptFrame, State
  <2>2. /\ g.nest = <<>> /\ g.loops = <<>> /\ g.dead = [n \in Names |-> 0]
        /\ g.scopes = <<params>> /\ g.moduleScope = FALSE
    BY <2>1 DEF FreshFrame
  <2> HIDE DEF g
  <2>3. Len(g.scopes) = 1 /\ Base(g) = 1
    BY <2>2 DEF Base
  <2> QED
    BY <1>2, <2>2, <2>3 DEF g
<1> QED
  BY <1>1, <1>2

(* What take_call_state sets aside is the caller's frame.                  *)
LEMMA TakenKept ==
  ASSUME NEW s \in State, NEW aliases
  PROVE  Kept(s.frame, TakeCallState(s, aliases).saved)
<1>1. TakeCallState(s, aliases).saved = CheckIn(s).frame
  BY DEF TakeCallState
<1> QED
  BY <1>1, KeptCheckedIn

LEMMA CallMoves ==
  ASSUME IInv, mode = "run", NEW saved, Parked(saved), Kept(frame, saved),
         NEW out \in SUBSET (Names \X Names), NEW lent \in BOOLEAN,
         stack' = Append(stack, [saved |-> saved, out |-> out, lent |-> lent,
                                 functions |-> functions]),
         frame'.nest = <<>>, frame'.loops = <<>>,
         frame'.dead = [n \in Names |-> 0],
         Len(frame'.scopes) = Base(frame'),
         frame'.moduleScope => frame'.aliases = frame'.path
                               /\ functions' = frame'.path
  PROVE  CallsAway
<1> DEFINE act == [saved |-> saved, out |-> out, lent |-> lent,
                   functions |-> functions]
<1>1. act \in Activation /\ act.saved = saved /\ act.functions = functions
  BY DEF Activation, Parked, GoodFrame, IInv
<1>2. stack' = Append(stack, act)
  OBVIOUS
<1> HIDE DEF act
<1> QED
  BY <1>1, <1>2 DEF CallsAway

(* The value a call takes is moved out of its variable, in its place.      *)
LEMMA TakenFromKept ==
  ASSUME IInv, InArgument
  PROVE  Kept(frame, TakenFrom)
<1> DEFINE n == CHOOSE n \in OutArgument(Awaited.sig) : TRUE
           at == Innermost(frame.scopes, n)
<1>1. GoodFrame(frame)
  BY NowFields
<1>2. Lending(frame, n) = SetAt(frame, at, n, Lent)
  BY DEF Lending, SetAt
<1>3. TakenFrom = frame \/ TakenFrom = Lending(frame, n)
  BY DEF TakenFrom, Lender
<1> HIDE DEF n, at
<1>4. Kept(frame, Lending(frame, n))
  BY <1>1, <1>2, KeptSetAt DEF GoodFrame
<1> QED
  BY <1>3, <1>4, KeptSame

LEMMA CallsMove ==
  ASSUME IInv, Levels, Calls
  PROVE  CallsAway \/ GoesBack \/ Writes
<1>1. /\ GoodFrame(frame) /\ frame.aliases \in Files
      /\ Sound(Now) /\ Now.frame = frame /\ Now \in State
  BY NowFields DEF GoodFrame, Frame, IInv, Now
<1>2. ASSUME NEW args \in [Names -> Values], CallFunction(args)
      PROVE  CallsAway
  <2> DEFINE params == ParameterScope(Awaited.sig, args, Output)
             s == [Now EXCEPT !.frame = TakenFrom]
             taken == TakeCallState(s, frame.aliases)
             callee == Awaited.callee
             r == IF callee \in Modules
                  THEN ModuleFrame(taken.now, callee, params)
                  ELSE ScriptFrame(taken.now, params)
             out == Awaited.sig.out
             lent == Awaited.lent
  <2>1. /\ Become(r) /\ Sound(s) /\ callee \in Files /\ lent \in BOOLEAN
        /\ Awaited.sig \in Signatures
        /\ stack' = Append(stack, [saved |-> taken.saved, out |-> out,
                                   lent |-> lent, functions |-> functions])
    BY <1>2, StartingCall
  <2>2. functions' = callee
    <3>1. /\ functions' = IF Awaited.alias THEN callee ELSE functions
          /\ InArgument
      BY <1>2, StartingCall DEF CallFunction
    <3>2. ~ Awaited.alias => callee = functions
      BY <3>1, AwaitedTyped
         DEF Levels, Placed, FunctionsAt, Awaited, InArgument
    <3> QED
      BY <3>1, <3>2
  <2>3. mode = "run" /\ out \in SUBSET (Names \X Names)
    BY <1>2, <2>1, ConstantsAssumption DEF CallFunction
  <2>4. Kept(frame, TakenFrom)
    BY <1>2, TakenFromKept DEF CallFunction
  <2>5. s \in State /\ s.frame = TakenFrom
    BY <1>1, <2>1 DEF Sound, State
  <2> HIDE DEF params, lent, out, s, callee
  <2>6. /\ taken.now.frame = FreshFrame(EmptyScope, frame.aliases)
        /\ AllHome(taken.now) /\ Parked(taken.saved)
    BY <1>1, <2>1, TakenHome
  <2>7. Kept(frame, taken.saved)
    BY <2>4, <2>5, TakenKept, KeptTwice
  <2> HIDE DEF taken
  <2>8. /\ r.frame.nest = <<>> /\ r.frame.loops = <<>>
        /\ r.frame.dead = [n \in Names |-> 0]
        /\ Len(r.frame.scopes) = Base(r.frame)
        /\ r.frame.moduleScope => r.frame.aliases = callee /\ r.frame.path = callee
    BY <1>1, <2>1, <2>6, CalleeFrame DEF AllHome
  <2> HIDE DEF r
  <2>9. frame' = r.frame
    BY <2>1 DEF Become
  <2> QED
    BY <2>1, <2>2, <2>3, <2>6, <2>7, <2>8, <2>9, CallMoves
<1>3. ASSUME NEW held \in LambdaHolds, NEW v \in Values, NEW home \in LambdaHomes,
             CallLambda(held, v, home)
      PROVE  CallsAway
  <2> DEFINE taken == TakeCallState(Now, home)
             params == [n \in Names |-> IF n \in held THEN v ELSE Absent]
             r == ScriptFrame(taken.now, params)
             none == {}
             lent == FALSE
  <2>1. /\ Become(r) /\ mode = "run"
        /\ stack' = Append(stack, [saved |-> taken.saved, out |-> none,
                                   lent |-> lent, functions |-> functions])
    BY <1>3 DEF CallLambda
  <2>2. home \in Files /\ Script \in Files /\ Script \notin Modules
    BY ConstantsAssumption DEF Files
  <2> HIDE DEF params
  <2>3. /\ AllHome(taken.now)
        /\ taken.now.frame = FreshFrame(EmptyScope, home)
        /\ Parked(taken.saved)
    BY <1>1, <2>2, TakenHome
  <2>4. Kept(frame, taken.saved)
    BY <1>1, TakenKept
  <2> HIDE DEF taken
  <2>5. /\ r.frame.nest = <<>> /\ r.frame.loops = <<>>
        /\ r.frame.dead = [n \in Names |-> 0]
        /\ Len(r.frame.scopes) = Base(r.frame)
    BY <2>2, <2>3, CalleeFrame DEF AllHome
  <2>6. ~ r.frame.moduleScope
    <3>1. r.frame = [FreshFrame(EmptyScope, home) EXCEPT !.scopes = <<params>>]
      BY <2>3 DEF ScriptFrame, AllHome, State
    <3> QED
      BY <3>1 DEF FreshFrame
  <2> HIDE DEF r
  <2>7. none \in SUBSET (Names \X Names) /\ lent \in BOOLEAN
    OBVIOUS
  <2> HIDE DEF none, lent
  <2>8. frame' = r.frame
    BY <2>1 DEF Become
  <2> QED
    BY <2>1, <2>3, <2>4, <2>5, <2>6, <2>7, <2>8, CallMoves
<1>4. CASE CallRefused
  BY <1>4, KeptSame DEF CallRefused, Raising, Writes
<1>5. CASE Return
  <2> DEFINE ending == EndedFrame(frame)
             pairs == CallerOf.out
  <2>1. /\ stack # <<>> /\ Become(Resumed(ending, pairs))
        /\ stack' = SubSeq(stack, 1, Len(stack) - 1)
        /\ functions' = CallerOf.functions /\ mode' = mode
    BY <1>5 DEF Return, EndedFrame, FunctionsBack
  <2>2. /\ GoodFrame(ending)
        /\ ending.moduleScope = frame.moduleScope /\ ending.path = frame.path
        /\ ending.moduleScope => ending.scopes[1] = frame.scopes[1]
    BY <1>1, EndedGood
  <2>3. pairs \in SUBSET (Names \X Names)
    BY <2>1, StackPopped DEF Activation
  <2> HIDE DEF ending, pairs
  <2>4. Kept(CallerOf.saved, Resumed(ending, pairs).frame)
    BY <2>1, <2>2, <2>3, ResumedKept
  <2> QED
    BY <2>1, <2>4 DEF GoesBack, Become
<1>6. ASSUME UNCHANGED <<frame, functions, stack, mode>> PROVE Writes
  BY <1>6, KeptSame DEF Writes
<1>7. ASSUME NEW callee \in Files, NEW alias \in BOOLEAN, NEW sig \in Signatures,
             BeginCall(callee, alias, sig)
      PROVE  Writes
  BY <1>6, <1>7 DEF BeginCall
<1>8. CASE CopyArgument \/ AbandonCall
  BY <1>6, <1>8 DEF CopyArgument, AbandonCall
<1> QED
  BY <1>2, <1>3, <1>4, <1>5, <1>7, <1>8 DEF Calls

(* Every step of the program writes, opens, closes, catches, calls or goes *)
(* back.                                                                   *)
LEMMA EveryStepMoves ==
  IInv /\ Levels /\ [Next]_vars =>
    Writes \/ Opens \/ Closes \/ Catches \/ CallsAway \/ GoesBack
<1>1. Stop \/ UNCHANGED vars => Writes
  BY KeptSame DEF Stop, vars, Writes
<1> QED
  BY <1>1, StatementsMove, ConstructsMove, CallsMove, ErrorsMove DEF Next

-----------------------------------------------------------------------------
(* What opening and closing a construct change, field by field.            *)

LEMMA OpenedParts ==
  ASSUME NEW f, GoodFrame(f), NEW kind \in Kinds, NEW aliases
  PROVE  LET g == OpenedFrame(f, kind, EmptyScope, aliases)
         IN  /\ g.moduleScope = f.moduleScope /\ g.path = f.path
             /\ Base(g) = Base(f)
             /\ g.aliases = aliases
             /\ g.nest = Append(f.nest, Opened(f, kind))
             /\ Len(g.nest) = Len(f.nest) + 1
             /\ DOMAIN g.nest = 1 .. Len(f.nest) + 1
             /\ \A i \in 1 .. Len(f.nest) : g.nest[i] = f.nest[i]
             /\ g.nest[Len(f.nest) + 1] = Opened(f, kind)
             /\ g.loops = IF kind = "loop"
                          THEN Append(f.loops, Len(f.scopes) + 1) ELSE f.loops
             /\ Len(g.scopes) = Len(f.scopes) + 1
             /\ g.dead = f.dead
<1> DEFINE g == OpenedFrame(f, kind, EmptyScope, aliases)
           c == Opened(f, kind)
           nest == Append(f.nest, c)
           scopes == Append(f.scopes, EmptyScope)
<1>1. /\ f \in Frame /\ f.nest \in Seq(Construct) /\ f.scopes \in Seq(Scope)
      /\ c \in Construct /\ EmptyScope \in Scope
  BY NestOpened, ScopeTypes DEF GoodFrame, Frame
<1>2. /\ g.moduleScope = f.moduleScope /\ g.path = f.path
      /\ g.aliases = aliases /\ g.nest = nest /\ g.scopes = scopes
      /\ g.loops = IF kind = "loop"
                   THEN Append(f.loops, Len(f.scopes) + 1) ELSE f.loops
      /\ g.dead = f.dead
  BY <1>1 DEF OpenedFrame, Frame, Opened
<1> HIDE DEF g, c
<1>3. /\ nest \in Seq(Construct) /\ Len(nest) = Len(f.nest) + 1
      /\ \A i \in 1 .. Len(f.nest) : nest[i] = f.nest[i]
      /\ nest[Len(f.nest) + 1] = c
  BY <1>1, AppendProperties
<1>4. Len(scopes) = Len(f.scopes) + 1
  BY <1>1, AppendProperties
<1>5. DOMAIN nest = 1 .. Len(f.nest) + 1
  BY <1>3, LenProperties
<1> HIDE DEF nest, scopes
<1>6. Base(g) = Base(f)
  BY <1>2 DEF Base
<1> QED
  BY <1>2, <1>3, <1>4, <1>5, <1>6 DEF g, c, nest

LEMMA ClosedParts ==
  ASSUME NEW f, GoodFrame(f), f.nest # <<>>, NEW d \in Nat,
         d >= Base(f) + Len(f.nest) - 1, NEW aliases
  PROVE  LET g == ClosedFrame(f, d, aliases)
             c == f.nest[Len(f.nest)]
         IN  /\ g.moduleScope = f.moduleScope /\ g.path = f.path
             /\ Base(g) = Base(f)
             /\ g.aliases = aliases
             /\ g.nest = SubSeq(f.nest, 1, Len(f.nest) - 1)
             /\ Len(g.nest) = Len(f.nest) - 1
             /\ DOMAIN g.nest = 1 .. Len(f.nest) - 1
             /\ \A i \in 1 .. Len(f.nest) - 1 : g.nest[i] = f.nest[i]
             /\ Len(g.loops) = c.anchors
             /\ DOMAIN g.loops = 1 .. c.anchors
             /\ \A j \in 1 .. c.anchors :
                  g.loops[j] = f.loops[j] /\ j \in DOMAIN f.loops
             /\ Len(g.scopes) = IF Len(f.scopes) <= d THEN Len(f.scopes) ELSE d
             /\ \A n \in Names :
                  \/ g.dead[n] = 0
                  \/ /\ g.dead[n] = f.dead[n]
                     /\ f.dead[n] <= Len(f.scopes) => f.dead[n] <= Len(g.scopes)
<1> DEFINE h == PopTo(f, d)
           last == Len(f.nest)
           n == last - 1
           marks == f.nest[last].anchors
           nest == SubSeq(f.nest, 1, n)
           loops == SubSeq(f.loops, 1, marks)
           g == ClosedFrame(f, d, aliases)
<1>1. /\ f \in Frame /\ f.nest \in Seq(Construct) /\ f.scopes \in Seq(Scope)
      /\ f.loops \in Seq(Nat) /\ f.dead \in [Names -> Nat]
      /\ Base(f) \in Nat /\ Base(f) >= 1
  BY DEF GoodFrame, Frame, Base
<1>2. /\ Len(f.scopes) \in Nat /\ Len(f.loops) \in Nat
      /\ last \in Nat /\ last >= 1 /\ n \in Nat /\ d >= 1
      /\ DOMAIN f.loops = 1 .. Len(f.loops)
  BY <1>1, LenProperties, EmptySeq
<1>3. /\ f.nest[last] \in Construct /\ marks \in Nat
      /\ Len(f.loops) = marks + (IF f.nest[last].kind = "loop" THEN 1 ELSE 0)
  BY InnermostConstruct DEF Construct
<1>4. /\ h \in Frame
      /\ h.moduleScope = f.moduleScope /\ h.path = f.path
  BY <1>1, <1>2, PopToFrame DEF GoodFrame, FrameShape
<1>5. /\ Len(h.scopes) = IF Len(f.scopes) <= d THEN Len(f.scopes) ELSE d
      /\ \A k \in Names :
           \/ h.dead[k] = 0
           \/ /\ h.dead[k] = f.dead[k]
              /\ f.dead[k] <= Len(f.scopes) => f.dead[k] <= Len(h.scopes)
  <2>1. CASE Len(f.scopes) <= d
    <3>1. h = f
      BY <2>1 DEF PopTo
    <3> QED
      BY <2>1, <3>1
  <2>2. CASE ~ (Len(f.scopes) <= d)
    <3> DEFINE scopes == SubSeq(f.scopes, 1, d)
               dead == [k \in Names |-> IF f.dead[k] <= d THEN f.dead[k] ELSE 0]
    <3>1. h.scopes = scopes /\ h.dead = dead
      BY <1>1, <2>2 DEF PopTo, Frame
    <3>2. \A i \in 1 .. d : f.scopes[i] \in Scope
      <4>1. \A i \in 1 .. d : i \in 1 .. Len(f.scopes)
        BY <1>2, <2>2
      <4> QED
        BY <1>1, <4>1, ElementOfSeq
    <3>3. Len(scopes) = IF 1 <= d THEN d - 1 + 1 ELSE 0
      BY <3>2, SubSeqProperties, 1 \in Int, d \in Int
    <3>4. Len(scopes) = d
      BY <1>2, <3>3
    <3> HIDE DEF scopes, h
    <3> QED
      BY <1>1, <2>2, <3>1, <3>4
  <2> QED
    BY <2>1, <2>2
<1>6. /\ g.nest = nest /\ g.loops = loops /\ g.aliases = aliases
      /\ g.scopes = h.scopes /\ g.dead = h.dead
      /\ g.moduleScope = f.moduleScope /\ g.path = f.path
  BY <1>4 DEF ClosedFrame, Frame
<1> HIDE DEF g, h
<1>7. Len(nest) = n /\ DOMAIN nest = 1 .. n /\ \A i \in 1 .. n : nest[i] = f.nest[i]
  <2>1. \A i \in 1 .. last : f.nest[i] \in Construct
    BY <1>1, ElementOfSeq
  <2>2. \A i \in 1 .. n : f.nest[i] \in Construct
    <3>1. \A i \in 1 .. n : i \in 1 .. last
      BY <1>2
    <3> QED
      BY <2>1, <3>1
  <2> HIDE DEF n
  <2>3. /\ nest \in Seq(Construct)
        /\ Len(nest) = IF 1 <= n THEN n - 1 + 1 ELSE 0
        /\ \A i \in 1 .. n - 1 + 1 : nest[i] = f.nest[1 + i - 1]
    BY <1>2, <2>2, SubSeqProperties, 1 \in Int, n \in Int
  <2> HIDE DEF nest
  <2>4. DOMAIN nest = 1 .. Len(nest)
    BY <2>3, LenProperties
  <2> QED
    BY <1>2, <2>3, <2>4
<1> HIDE DEF n, last, marks
<1>8. \A j \in 1 .. marks : j \in DOMAIN f.loops
  <2>1. marks <= Len(f.loops)
    BY <1>2, <1>3
  <2> QED
    BY <1>2, <1>3, <2>1
<1>9. Len(loops) = marks /\ DOMAIN loops = 1 .. marks
      /\ \A j \in 1 .. marks : loops[j] = f.loops[j]
  <2>1. \A j \in 1 .. marks : f.loops[j] \in Nat
    BY <1>1, <1>2, <1>8, ElementOfSeq
  <2>2. /\ loops \in Seq(Nat)
        /\ Len(loops) = IF 1 <= marks THEN marks - 1 + 1 ELSE 0
        /\ \A i \in 1 .. marks - 1 + 1 : loops[i] = f.loops[1 + i - 1]
    BY <1>3, <2>1, SubSeqProperties, 1 \in Int, marks \in Int
  <2> HIDE DEF loops
  <2>3. DOMAIN loops = 1 .. Len(loops)
    BY <2>2, LenProperties
  <2> QED
    BY <1>3, <2>2, <2>3
<1> HIDE DEF nest, loops
<1>10. Base(g) = Base(f)
  BY <1>6 DEF Base
<1> QED
  BY <1>5, <1>6, <1>7, <1>8, <1>9, <1>10 DEF g, nest, n, last, marks

-----------------------------------------------------------------------------
(* Module code at home.                                                    *)

(* The aliases in force outside construct i: those the construct noted, or *)
(* those in force now.                                                     *)
AliasesAt(f, i) == IF i \in DOMAIN f.nest THEN f.nest[i].aliases ELSE f.aliases

NoLambdaBefore(f, i) == \A j \in 1 .. i - 1 : f.nest[j].kind # "lambda"

(***************************************************************************)
(* A module frame has the module's functions, and the module's aliases     *)
(* wherever no lambda has replaced them: a lambda that ends gives back     *)
(* those it noted, so what each construct noted is part of the invariant.  *)
(***************************************************************************)
AtHome(f, installed) ==
  f.moduleScope =>
    /\ installed = f.path
    /\ \A i \in 1 .. Len(f.nest) + 1 :
         NoLambdaBefore(f, i) => AliasesAt(f, i) = f.path

HomeInv ==
  /\ AtHome(frame, functions)
  /\ \A i \in DOMAIN stack : AtHome(stack[i].saved, stack[i].functions)

LEMMA HomeKept ==
  ASSUME NEW f, NEW g, Kept(f, g), NEW installed, AtHome(f, installed)
  PROVE  AtHome(g, installed)
BY DEF Kept, AtHome, AliasesAt, NoLambdaBefore

LEMMA HomeOpened ==
  ASSUME NEW f, GoodFrame(f), NEW kind \in Kinds, NEW aliases,
         kind # "lambda" => aliases = f.aliases,
         NEW installed, AtHome(f, installed)
  PROVE  AtHome(OpenedFrame(f, kind, EmptyScope, aliases), installed)
<1> DEFINE g == OpenedFrame(f, kind, EmptyScope, aliases)
           n == Len(f.nest)
<1>1. /\ g.moduleScope = f.moduleScope /\ g.path = f.path
      /\ g.aliases = aliases
      /\ Len(g.nest) = n + 1 /\ DOMAIN g.nest = 1 .. n + 1
      /\ \A i \in 1 .. n : g.nest[i] = f.nest[i]
      /\ g.nest[n + 1] = Opened(f, kind)
  BY OpenedParts
<1>2. n \in Nat /\ DOMAIN f.nest = 1 .. n
  BY LenProperties DEF GoodFrame, Frame
<1>3. g.nest[n + 1].kind = kind /\ g.nest[n + 1].aliases = f.aliases
  BY <1>1 DEF Opened
<1> HIDE DEF g, n
<1>4. ASSUME f.moduleScope, NEW i \in 1 .. n + 2, NoLambdaBefore(g, i)
      PROVE  AliasesAt(g, i) = f.path
  <2>1. \A k \in 1 .. n + 1 : NoLambdaBefore(f, k) => AliasesAt(f, k) = f.path
    BY <1>4 DEF AtHome, n
  <2>2. \A k \in 1 .. n + 1 : k <= i => NoLambdaBefore(f, k)
    BY <1>1, <1>2, <1>4 DEF NoLambdaBefore
  <2>3. CASE i \in 1 .. n
    BY <1>1, <1>2, <2>1, <2>2, <2>3 DEF AliasesAt
  <2>4. CASE i = n + 1
    <3>1. AliasesAt(f, n + 1) = f.aliases
      BY <1>2 DEF AliasesAt
    <3>2. AliasesAt(f, n + 1) = f.path
      BY <1>2, <2>1, <2>2, <2>4
    <3> QED
      BY <1>1, <1>2, <1>3, <2>4, <3>1, <3>2 DEF AliasesAt
  <2>5. CASE i = n + 2
    <3>1. n + 1 \in 1 .. i - 1
      BY <1>2, <2>5
    <3>2. kind # "lambda"
      BY <1>3, <1>4, <3>1 DEF NoLambdaBefore
    <3>3. AliasesAt(f, n + 1) = f.aliases
      BY <1>2 DEF AliasesAt
    <3>4. AliasesAt(f, n + 1) = f.path
      BY <1>2, <2>1, <2>2, <2>5
    <3>5. AliasesAt(g, i) = g.aliases
      BY <1>1, <1>2, <2>5 DEF AliasesAt
    <3> QED
      BY <1>1, <3>2, <3>3, <3>4, <3>5
  <2> QED
    BY <1>2, <2>3, <2>4, <2>5
<1>5. Len(g.nest) + 1 = n + 2
  BY <1>1, <1>2
<1>6. AtHome(g, installed)
  BY <1>1, <1>4, <1>5 DEF AtHome
<1> QED
  BY <1>6 DEF g

LEMMA HomeClosed ==
  ASSUME NEW f, GoodFrame(f), f.nest # <<>>, NEW d \in Nat,
         d >= Base(f) + Len(f.nest) - 1, NEW installed, AtHome(f, installed)
  PROVE  LET c == f.nest[Len(f.nest)]
             aliases == IF c.kind = "lambda" THEN c.aliases ELSE f.aliases
         IN  AtHome(ClosedFrame(f, d, aliases), installed)
<1> DEFINE c == f.nest[Len(f.nest)]
           aliases == IF c.kind = "lambda" THEN c.aliases ELSE f.aliases
           g == ClosedFrame(f, d, aliases)
           n == Len(f.nest)
<1>1. /\ g.moduleScope = f.moduleScope /\ g.path = f.path
      /\ g.aliases = aliases
      /\ Len(g.nest) = n - 1 /\ DOMAIN g.nest = 1 .. n - 1
      /\ \A i \in 1 .. n - 1 : g.nest[i] = f.nest[i]
  <2> HIDE DEF aliases
  <2> QED
    BY ClosedParts
<1>2. n \in Nat /\ n >= 1 /\ DOMAIN f.nest = 1 .. n
  BY LenProperties, EmptySeq DEF GoodFrame, Frame
<1>3. c = f.nest[n]
  OBVIOUS
<1> HIDE DEF g, n, c
<1>4. ASSUME f.moduleScope, NEW i \in 1 .. n, NoLambdaBefore(g, i)
      PROVE  AliasesAt(g, i) = f.path
  <2>1. \A k \in 1 .. n + 1 : NoLambdaBefore(f, k) => AliasesAt(f, k) = f.path
    BY <1>4 DEF AtHome, n
  <2>2. \A j \in 1 .. i - 1 : f.nest[j].kind # "lambda"
    <3>1. \A j \in 1 .. i - 1 : j \in 1 .. n - 1
      BY <1>2
    <3> QED
      BY <1>1, <1>4, <3>1 DEF NoLambdaBefore
  <2>3. AliasesAt(f, i) = f.path
    BY <1>2, <2>1, <2>2 DEF NoLambdaBefore
  <2>4. CASE i # n
    <3>1. i \in 1 .. n - 1 /\ i \in 1 .. n
      BY <1>2, <2>4
    <3> QED
      BY <1>1, <1>2, <2>3, <3>1 DEF AliasesAt
  <2>5. CASE i = n /\ c.kind = "lambda"
    <3>1. AliasesAt(g, i) = c.aliases
      BY <1>1, <1>2, <2>5 DEF AliasesAt
    <3>2. AliasesAt(f, i) = c.aliases
      BY <1>2, <1>3, <2>5 DEF AliasesAt
    <3> QED
      BY <2>3, <3>1, <3>2
  <2>6. CASE i = n /\ c.kind # "lambda"
    <3>1. AliasesAt(g, i) = f.aliases
      BY <1>1, <1>2, <2>6 DEF AliasesAt
    <3>2. \A j \in 1 .. n : j \in 1 .. i - 1 \/ j = n
      BY <1>2, <2>6
    <3>3. NoLambdaBefore(f, n + 1)
      <4>1. n + 1 - 1 = n
        BY <1>2
      <4> QED
        BY <1>3, <2>2, <2>6, <3>2, <4>1 DEF NoLambdaBefore
    <3>4. n + 1 \in 1 .. n + 1 /\ AliasesAt(f, n + 1) = f.aliases
      BY <1>2 DEF AliasesAt
    <3> QED
      BY <2>1, <3>1, <3>3, <3>4
  <2> QED
    BY <2>4, <2>5, <2>6
<1>5. Len(g.nest) + 1 = n
  BY <1>1, <1>2
<1>6. AtHome(g, installed)
  BY <1>1, <1>4, <1>5 DEF AtHome
<1> QED
  BY <1>6 DEF g, c

(* The activations after one is set aside.                                 *)
LEMMA AppendedElements ==
  ASSUME NEW S, NEW s \in Seq(S), NEW e \in S, NEW i \in DOMAIN Append(s, e)
  PROVE  Append(s, e)[i] = e \/ (i \in DOMAIN s /\ Append(s, e)[i] = s[i])
<1> DEFINE t == Append(s, e)
<1>1. /\ t \in Seq(S) /\ Len(t) = Len(s) + 1
      /\ \A k \in 1 .. Len(s) : t[k] = s[k]
      /\ t[Len(s) + 1] = e
  BY AppendProperties
<1>2. DOMAIN t = 1 .. Len(s) + 1 /\ DOMAIN s = 1 .. Len(s) /\ Len(s) \in Nat
  BY <1>1, LenProperties
<1> HIDE DEF t
<1>3. i \in DOMAIN t
  BY DEF t
<1>4. i \in 1 .. Len(s) \/ i = Len(s) + 1
  BY <1>2, <1>3
<1> QED
  BY <1>1, <1>2, <1>4 DEF t

LEMMA HomeNext ==
  ASSUME IInv, Levels, HomeInv, [Next]_vars
  PROVE  HomeInv'
<1>1. GoodFrame(frame) /\ Now \in State
  BY NowFields
<1>2. CASE Writes
  BY <1>2, HomeKept DEF Writes, HomeInv
<1>3. CASE Opens
  <2>1. PICK kind \in Kinds, aliases \in Files : OpensIn(frame, kind, aliases)
    BY <1>3 DEF Opens
  <2>2. AtHome(OpenedFrame(frame, kind, EmptyScope, aliases), functions)
    BY <1>1, <2>1, HomeOpened DEF OpensIn, HomeInv
  <2>3. AtHome(frame', functions)
    BY <2>1, <2>2, HomeKept DEF OpensIn
  <2> QED
    BY <1>3, <2>3 DEF Opens, HomeInv
<1>4. ASSUME frame.nest # <<>>, NEW d \in Nat,
             d >= Base(frame) + Len(frame.nest) - 1
      PROVE  AtHome(ClosedTo(d), functions) /\ GoodFrame(ClosedTo(d))
  <2>1. AtHome(ClosedTo(d), functions)
    BY <1>1, <1>4, HomeClosed DEF HomeInv, ClosedTo, AliasesAfter, Top
  <2>2. AliasesAfter \in Files
    BY <1>1, <1>4, InnermostConstruct
       DEF GoodFrame, Frame, Construct, AliasesAfter, Top
  <2>3. GoodFrame(ClosedTo(d))
    BY <1>4, <2>2, ClosedStep DEF ClosedTo
  <2> QED
    BY <2>1, <2>3
<1>5. CASE Closes
  <2>1. PICK d \in Nat : /\ d >= Base(frame) + Len(frame.nest) - 1
                         /\ frame' = ClosedTo(d)
    BY <1>5 DEF Closes
  <2> QED
    BY <1>4, <1>5, <2>1 DEF Closes, HomeInv
<1>6. CASE Catches
  <2> DEFINE f == ClosedTo(Top.depth)
  <2>1. Top.depth \in Nat /\ Top.depth >= Base(frame) + Len(frame.nest) - 1
    BY <1>1, <1>6, InnermostConstruct DEF Catches, Top, Construct
  <2>2. AtHome(f, functions) /\ GoodFrame(f) /\ OpensIn(f, "catch", f.aliases)
    BY <1>4, <1>6, <2>1 DEF Catches
  <2> HIDE DEF f
  <2>3. AtHome(OpenedFrame(f, "catch", EmptyScope, f.aliases), functions)
    BY <2>2, HomeOpened DEF Kinds
  <2>4. AtHome(frame', functions)
    BY <2>2, <2>3, HomeKept DEF OpensIn
  <2> QED
    BY <1>6, <2>4 DEF Catches, HomeInv
<1>7. CASE CallsAway
  <2>1. PICK act \in Activation : /\ Kept(frame, act.saved)
                                  /\ act.functions = functions
                                  /\ stack' = Append(stack, act)
    BY <1>7 DEF CallsAway
  <2>2. AtHome(act.saved, act.functions)
    BY <2>1, HomeKept DEF HomeInv
  <2>3. AtHome(frame', functions')
    <3>1. frame'.nest = <<>> /\ (frame'.moduleScope =>
             frame'.aliases = frame'.path /\ functions' = frame'.path)
      BY <1>7 DEF CallsAway
    <3>2. \A i : i \notin DOMAIN frame'.nest
      BY <3>1
    <3> QED
      BY <3>1, <3>2 DEF AtHome, AliasesAt
  <2>4. \A i \in DOMAIN stack' :
          stack'[i] = act \/ (i \in DOMAIN stack /\ stack'[i] = stack[i])
    BY <2>1, AppendedElements DEF IInv
  <2> QED
    BY <2>2, <2>3, <2>4 DEF HomeInv
<1>8. CASE GoesBack
  <2>1. \A i \in DOMAIN stack' : stack'[i] = stack[i] /\ i \in DOMAIN stack
    BY <1>8, StackPopped DEF GoesBack
  <2>2. Len(stack) \in DOMAIN stack
    BY <1>8, LenProperties, EmptySeq DEF GoesBack, IInv
  <2>3. AtHome(CallerOf.saved, CallerOf.functions)
    BY <2>2 DEF HomeInv, CallerOf
  <2>4. AtHome(frame', functions')
    BY <1>8, <2>3, HomeKept DEF GoesBack
  <2> QED
    BY <2>1, <2>4 DEF HomeInv
<1> QED
  BY <1>2, <1>3, <1>5, <1>6, <1>7, <1>8, EveryStepMoves

LEMMA HomeInit == Init => HomeInv
<1> SUFFICES ASSUME Init PROVE HomeInv
  OBVIOUS
<1>1. ~ frame.moduleScope /\ DOMAIN stack = {}
  BY DEF Init, FreshFrame
<1> QED
  BY <1>1 DEF HomeInv, AtHome

(***************************************************************************)
(* Code that runs against a module's table, outside every lambda, has that *)
(* module's functions and aliases installed (BUG-01), after any sequence   *)
(* of calls, returns and errors (take_call_state, restore_call_state).     *)
(***************************************************************************)
THEOREM ModuleCodeAtHomeHolds == Spec => []ModuleCodeAtHome
<1>1. IInv /\ HomeInv => ModuleCodeAtHome
  <2> SUFFICES ASSUME IInv, HomeInv, frame.moduleScope, LambdasIn(frame) = 0
               PROVE  functions = frame.path /\ frame.aliases = frame.path
    BY DEF ModuleCodeAtHome
  <2> DEFINE n == Len(frame.nest) + 1
  <2>1. /\ n \in Nat /\ n \in 1 .. n /\ DOMAIN frame.nest = 1 .. n - 1
        /\ n \notin DOMAIN frame.nest
    BY NowFields, LenProperties DEF GoodFrame, Frame
  <2>2. InLambda(frame) = {}
    BY NowFields, LambdasNat, FS_EmptySet DEF LambdasIn
  <2>3. AtHome(frame, functions)
    BY DEF HomeInv
  <2>4. NoLambdaBefore(frame, n)
    <3> HIDE DEF n
    <3> QED
      BY <2>1, <2>2 DEF NoLambdaBefore, InLambda
  <2>5. functions = frame.path /\ AliasesAt(frame, n) = frame.path
    BY <2>1, <2>3, <2>4 DEF AtHome
  <2> HIDE DEF n
  <2> QED
    BY <2>1, <2>5 DEF AliasesAt
<1>2. IInv /\ Levels /\ HomeInv /\ [Next]_vars => HomeInv'
  BY HomeNext
<1> QED
  BY <1>1, <1>2, HomeInit, LevelsAlways, Invariant, PTL DEF Spec

-----------------------------------------------------------------------------
(* The marks of a frame.                                                   *)

(***************************************************************************)
(* Construct i began when the frame had i - 1 scopes besides its own, and  *)
(* the marks of the loops around it point below it: so closing down to it  *)
(* leaves every mark and every remembered depth inside what is left.       *)
(***************************************************************************)
Marked(f) ==
  /\ \A i \in DOMAIN f.nest :
       /\ f.nest[i].depth = Base(f) + i - 1
       /\ f.nest[i].anchors <= Len(f.loops)
       /\ \A k \in DOMAIN f.nest : i <= k => f.nest[i].anchors <= f.nest[k].anchors
       /\ \A j \in DOMAIN f.loops :
            j <= f.nest[i].anchors => f.loops[j] <= Base(f) + i - 1
  /\ \A j \in DOMAIN f.loops :
       /\ f.loops[j] >= Base(f) + 1
       /\ f.loops[j] <= Base(f) + Len(f.nest)
       /\ \A k \in DOMAIN f.loops : j < k => f.loops[j] < f.loops[k]
  /\ Len(f.loops) = Cardinality(OfKind(f, "loop"))
  /\ \A n \in Names : f.dead[n] <= Len(f.scopes)

MarkInv ==
  /\ Marked(frame)
  /\ \A i \in DOMAIN stack : Marked(stack[i].saved)
  /\ NoStrayScope

LEMMA MarkedKept ==
  ASSUME NEW f, GoodFrame(f), NEW g, Kept(f, g), Marked(f)
  PROVE  Marked(g) /\ (ScopesMatch(f) => ScopesMatch(g))
<1>1. /\ g.nest = f.nest /\ g.loops = f.loops /\ Base(g) = Base(f)
      /\ Len(g.scopes) = Len(f.scopes)
  BY DEF Kept, Base
<1>2. OfKind(g, "loop") = OfKind(f, "loop")
  BY <1>1 DEF OfKind
<1>3. ASSUME NEW n \in Names PROVE g.dead[n] <= Len(g.scopes)
  <2>1. /\ f.dead[n] \in Nat /\ Len(f.scopes) \in Nat /\ Base(f) \in Nat
        /\ f.dead[n] <= Len(f.scopes)
    BY LenProperties DEF GoodFrame, Frame, Base, Marked
  <2>2. \/ g.dead[n] \in {0, f.dead[n]}
        \/ g.dead[n] \in Base(f) .. Len(f.scopes)
    BY DEF Kept
  <2> QED
    BY <1>1, <2>1, <2>2
<1> QED
  BY <1>1, <1>2, <1>3 DEF Marked, ScopesMatch

LEMMA MarkedOpened ==
  ASSUME NEW f, GoodFrame(f), Marked(f), ScopesMatch(f),
         NEW kind \in Kinds, NEW aliases
  PROVE  /\ Marked(OpenedFrame(f, kind, EmptyScope, aliases))
         /\ ScopesMatch(OpenedFrame(f, kind, EmptyScope, aliases))
<1> DEFINE g == OpenedFrame(f, kind, EmptyScope, aliases)
           n == Len(f.nest)
           m == Len(f.loops)
           b == Base(f)
           top == Len(f.scopes)
           c == Opened(f, kind)
<1>1. /\ Base(g) = b /\ g.nest = Append(f.nest, c)
      /\ Len(g.nest) = n + 1 /\ DOMAIN g.nest = 1 .. n + 1
      /\ \A i \in 1 .. n : g.nest[i] = f.nest[i]
      /\ g.nest[n + 1] = c
      /\ g.loops = IF kind = "loop" THEN Append(f.loops, top + 1) ELSE f.loops
      /\ Len(g.scopes) = top + 1
      /\ g.dead = f.dead
  <2> HIDE DEF c
  <2> QED
    BY OpenedParts DEF c
<1>2. /\ f.loops \in Seq(Nat) /\ DOMAIN f.loops = 1 .. m /\ m \in Nat
      /\ DOMAIN f.nest = 1 .. n /\ n \in Nat
      /\ b \in Nat /\ b >= 1 /\ top \in Nat
      /\ f.dead \in [Names -> Nat]
  BY LenProperties DEF GoodFrame, Frame, Base
<1>3. top = b + n
  BY DEF ScopesMatch
<1>4. c \in Construct /\ c.kind = kind /\ c.depth = top /\ c.anchors = m
  BY NestOpened DEF Opened
<1>5. \A j \in 1 .. m : f.loops[j] \in Nat
  BY <1>2, ElementOfSeq
<1>6. /\ \A i \in 1 .. n :
           /\ f.nest[i].depth = b + i - 1
           /\ f.nest[i].anchors <= m
           /\ f.nest[i].anchors \in Nat
           /\ \A k \in 1 .. n : i <= k => f.nest[i].anchors <= f.nest[k].anchors
           /\ \A j \in 1 .. m : j <= f.nest[i].anchors => f.loops[j] <= b + i - 1
      /\ \A j \in 1 .. m :
           /\ f.loops[j] >= b + 1 /\ f.loops[j] <= b + n
           /\ \A k \in 1 .. m : j < k => f.loops[j] < f.loops[k]
  <2>1. \A i \in 1 .. n : f.nest[i] \in Construct
    BY <1>2, ElementOfSeq DEF GoodFrame, Frame
  <2> QED
    BY <1>2, <2>1 DEF Marked, Construct
<1>7. Cardinality(OfKind(g, "loop"))
        = Cardinality(OfKind(f, "loop")) + (IF kind = "loop" THEN 1 ELSE 0)
  BY <1>1, <1>4, KindOpened
<1>8. Cardinality(OfKind(f, "loop")) = m
  BY DEF Marked
<1> DEFINE q == IF kind = "loop" THEN m + 1 ELSE m
<1>9. /\ Len(g.loops) = q /\ DOMAIN g.loops = 1 .. q /\ q \in Nat /\ m <= q
      /\ \A j \in 1 .. q : j \in 1 .. m \/ j = m + 1
      /\ \A j \in 1 .. m : g.loops[j] = f.loops[j]
      /\ \A j \in 1 .. q : j = m + 1 => g.loops[j] = top + 1
  <2>1. CASE kind = "loop"
    <3> DEFINE t == Append(f.loops, top + 1)
    <3>1. /\ t \in Seq(Nat) /\ Len(t) = m + 1
          /\ \A j \in 1 .. m : t[j] = f.loops[j]
          /\ t[m + 1] = top + 1
      BY <1>2, AppendProperties
    <3>2. DOMAIN t = 1 .. m + 1
      BY <3>1, LenProperties
    <3> HIDE DEF t, m
    <3> QED
      BY <1>1, <1>2, <2>1, <3>1, <3>2 DEF t
  <2>2. CASE kind # "loop"
    <3> HIDE DEF m
    <3> QED
      BY <1>1, <1>2, <2>2 DEF m
  <2> QED
    BY <2>1, <2>2
<1> HIDE DEF g, n, m, b, top, c, q
<1>10. ASSUME NEW i \in DOMAIN g.nest
       PROVE  /\ g.nest[i].depth = b + i - 1
              /\ g.nest[i].anchors <= q
              /\ \A k \in DOMAIN g.nest :
                   i <= k => g.nest[i].anchors <= g.nest[k].anchors
              /\ \A j \in DOMAIN g.loops :
                   j <= g.nest[i].anchors => g.loops[j] <= b + i - 1
  <2>1. CASE i \in 1 .. n
    <3>1. g.nest[i] = f.nest[i] /\ f.nest[i].anchors \in Nat /\ f.nest[i].anchors <= m
      BY <1>1, <1>6, <2>1
    <3>2. g.nest[i].anchors <= q
      BY <1>2, <1>9, <3>1
    <3>3. ASSUME NEW k \in DOMAIN g.nest, i <= k
          PROVE  g.nest[i].anchors <= g.nest[k].anchors
      <4>1. CASE k \in 1 .. n
        BY <1>1, <1>6, <2>1, <3>3, <4>1
      <4>2. CASE k = n + 1
        BY <1>1, <1>4, <3>1, <4>2
      <4> QED
        BY <1>1, <1>2, <3>3, <4>1, <4>2
    <3>4. ASSUME NEW j \in DOMAIN g.loops, j <= g.nest[i].anchors
          PROVE  g.loops[j] <= b + i - 1
      <4>1. j \in 1 .. m
        BY <1>2, <1>9, <3>1, <3>4
      <4> QED
        BY <1>6, <1>9, <2>1, <3>1, <3>4, <4>1
    <3> QED
      BY <1>6, <2>1, <3>1, <3>2, <3>3, <3>4
  <2>2. CASE i = n + 1
    <3>1. g.nest[i].depth = b + i - 1 /\ g.nest[i].anchors = m
      BY <1>1, <1>2, <1>3, <1>4, <2>2
    <3>2. ASSUME NEW k \in DOMAIN g.nest, i <= k
          PROVE  g.nest[i].anchors <= g.nest[k].anchors
      <4>1. k = i
        BY <1>1, <1>2, <2>2, <3>2
      <4> QED
        BY <1>2, <3>1, <4>1
    <3>3. ASSUME NEW j \in DOMAIN g.loops, j <= g.nest[i].anchors
          PROVE  g.loops[j] <= b + i - 1
      <4>1. j \in 1 .. m
        BY <1>2, <1>9, <3>1, <3>3
      <4>2. g.loops[j] = f.loops[j] /\ f.loops[j] <= b + n
        BY <1>6, <1>9, <4>1
      <4>3. b + i - 1 = b + n
        BY <1>2, <2>2
      <4> QED
        BY <4>2, <4>3
    <3>4. g.nest[i].anchors <= q
      BY <1>2, <1>9, <3>1
    <3> QED
      BY <3>1, <3>2, <3>3, <3>4
  <2>3. i \in 1 .. n \/ i = n + 1
    BY <1>1, <1>2
  <2> QED
    BY <2>1, <2>2, <2>3
<1>11. ASSUME NEW j \in DOMAIN g.loops
       PROVE  /\ g.loops[j] >= b + 1 /\ g.loops[j] <= b + n + 1
              /\ \A k \in DOMAIN g.loops : j < k => g.loops[j] < g.loops[k]
  <2>1. CASE j \in 1 .. m
    <3>1. /\ g.loops[j] = f.loops[j] /\ f.loops[j] \in Nat
          /\ f.loops[j] >= b + 1 /\ f.loops[j] <= b + n
      BY <1>5, <1>6, <1>9, <2>1
    <3>2. ASSUME NEW k \in DOMAIN g.loops, j < k
          PROVE  g.loops[j] < g.loops[k]
      <4>1. CASE k \in 1 .. m
        BY <1>6, <1>9, <2>1, <3>2, <4>1
      <4>2. CASE k = m + 1
        <5>1. g.loops[k] = b + n + 1
          BY <1>3, <1>9, <3>2, <4>2
        <5> QED
          BY <1>2, <3>1, <5>1
      <4> QED
        BY <1>9, <3>2, <4>1, <4>2
    <3> QED
      BY <1>2, <3>1, <3>2
  <2>2. CASE j = m + 1
    <3>1. g.loops[j] = b + n + 1
      BY <1>3, <1>9, <2>2
    <3>2. \A k \in DOMAIN g.loops : k <= m + 1
      BY <1>2, <1>9
    <3>3. \A k \in DOMAIN g.loops : ~ (j < k)
      BY <1>2, <1>9, <2>2, <3>2
    <3> QED
      BY <1>2, <3>1, <3>3
  <2> QED
    BY <1>9, <2>1, <2>2
<1>12. Len(g.loops) = Cardinality(OfKind(g, "loop"))
  BY <1>7, <1>8, <1>9 DEF q
<1>13. ASSUME NEW k \in Names PROVE g.dead[k] <= Len(g.scopes)
  <2>1. f.dead[k] \in Nat /\ f.dead[k] <= top
    BY <1>2 DEF Marked, top
  <2> QED
    BY <1>1, <1>2, <2>1
<1>14. ScopesMatch(g)
  BY <1>1, <1>2, <1>3 DEF ScopesMatch
<1>15. Len(g.nest) = n + 1 /\ Base(g) = b /\ b + Len(g.nest) = b + n + 1
  BY <1>1, <1>2
<1>16. Marked(g)
  BY <1>9, <1>10, <1>11, <1>12, <1>13, <1>15 DEF Marked
<1> QED
  BY <1>14, <1>16 DEF g

LEMMA MarkedClosed ==
  ASSUME NEW f, GoodFrame(f), f.nest # <<>>, Marked(f), NEW d \in Nat,
         d >= Base(f) + Len(f.nest) - 1, NEW aliases
  PROVE  LET g == ClosedFrame(f, d, aliases)
         IN  /\ Marked(g)
             /\ d = Base(f) + Len(f.nest) - 1 => ScopesMatch(g)
<1> DEFINE g == ClosedFrame(f, d, aliases)
           n == Len(f.nest)
           b == Base(f)
           top == Len(f.scopes)
           marks == f.nest[n].anchors
<1>1. /\ Base(g) = b /\ g.nest = SubSeq(f.nest, 1, n - 1)
      /\ Len(g.nest) = n - 1 /\ DOMAIN g.nest = 1 .. n - 1
      /\ \A i \in 1 .. n - 1 : g.nest[i] = f.nest[i]
      /\ Len(g.loops) = marks /\ DOMAIN g.loops = 1 .. marks
      /\ \A j \in 1 .. marks : g.loops[j] = f.loops[j] /\ j \in DOMAIN f.loops
      /\ Len(g.scopes) = IF top <= d THEN top ELSE d
      /\ \A k \in Names :
           \/ g.dead[k] = 0
           \/ /\ g.dead[k] = f.dead[k]
              /\ f.dead[k] <= top => f.dead[k] <= Len(g.scopes)
  BY ClosedParts
<1>2. /\ DOMAIN f.nest = 1 .. n /\ n \in Nat /\ n >= 1
      /\ b \in Nat /\ b >= 1 /\ top \in Nat
  BY LenProperties, EmptySeq DEF GoodFrame, Frame, Base
<1>3. /\ marks \in Nat
      /\ Len(f.loops) = marks + (IF f.nest[n].kind = "loop" THEN 1 ELSE 0)
      /\ top >= b + n
  BY InnermostConstruct DEF Construct
<1>4. Cardinality(OfKind(g, "loop"))
        = Cardinality(OfKind(f, "loop"))
            - (IF f.nest[n].kind = "loop" THEN 1 ELSE 0)
  BY <1>1, KindClosed
<1>5. Len(g.loops) = Cardinality(OfKind(g, "loop"))
  <2>1. Len(f.loops) = Cardinality(OfKind(f, "loop"))
    BY DEF Marked
  <2> HIDE DEF g, n, marks
  <2> QED
    BY <1>1, <1>3, <1>4, <2>1
<1> HIDE DEF g, n, b, top, marks
<1>6. \A i \in 1 .. n - 1 : i \in DOMAIN f.nest /\ i <= n
  BY <1>2
<1>7. n \in DOMAIN f.nest
  BY <1>2
<1>8. ASSUME NEW i \in DOMAIN g.nest
      PROVE  /\ g.nest[i].depth = b + i - 1
             /\ g.nest[i].anchors <= marks
             /\ \A k \in DOMAIN g.nest :
                  i <= k => g.nest[i].anchors <= g.nest[k].anchors
             /\ \A j \in DOMAIN g.loops :
                  j <= g.nest[i].anchors => g.loops[j] <= b + i - 1
  <2>1. i \in 1 .. n - 1 /\ i \in DOMAIN f.nest /\ i <= n /\ g.nest[i] = f.nest[i]
    BY <1>1, <1>6, <1>8
  <2>2. f.nest[i].depth = b + i - 1 /\ f.nest[i].anchors <= marks
    BY <1>7, <2>1 DEF Marked, b, marks
  <2>3. \A k \in DOMAIN g.nest : i <= k => g.nest[i].anchors <= g.nest[k].anchors
    BY <1>1, <1>6, <2>1 DEF Marked
  <2>4. \A j \in DOMAIN g.loops :
          j <= g.nest[i].anchors => g.loops[j] <= b + i - 1
    BY <1>1, <2>1 DEF Marked, b
  <2> QED
    BY <2>1, <2>2, <2>3, <2>4
<1>9. ASSUME NEW j \in DOMAIN g.loops
      PROVE  /\ g.loops[j] >= b + 1 /\ g.loops[j] <= b + (n - 1)
             /\ \A k \in DOMAIN g.loops : j < k => g.loops[j] < g.loops[k]
  <2>1. /\ j \in 1 .. marks /\ j \in DOMAIN f.loops /\ g.loops[j] = f.loops[j]
        /\ j <= f.nest[n].anchors
    BY <1>1, <1>3, <1>9 DEF marks
  <2>2. f.loops[j] <= b + n - 1 /\ f.loops[j] >= b + 1
    BY <1>7, <2>1 DEF Marked, b
  <2>3. b + n - 1 = b + (n - 1)
    BY <1>2
  <2>4. \A k \in DOMAIN g.loops : j < k => g.loops[j] < g.loops[k]
    BY <1>1, <2>1 DEF Marked
  <2> QED
    BY <2>1, <2>2, <2>3, <2>4
<1>10. ASSUME NEW k \in Names PROVE g.dead[k] <= Len(g.scopes)
  <2>1. f.dead[k] <= top
    BY DEF Marked, top
  <2>2. Len(g.scopes) \in Nat
    BY <1>1, <1>2
  <2> QED
    BY <1>1, <2>1, <2>2
<1>11. Marked(g)
  BY <1>1, <1>5, <1>8, <1>9, <1>10 DEF Marked
<1>12. ASSUME d = b + n - 1 PROVE ScopesMatch(g)
  <2>1. d < top
    BY <1>2, <1>3, <1>12
  <2>2. Len(g.scopes) = d
    BY <1>1, <1>2, <2>1
  <2>3. d = Base(g) + Len(g.nest)
    BY <1>1, <1>2, <1>12
  <2> QED
    BY <2>2, <2>3 DEF ScopesMatch
<1> QED
  BY <1>11, <1>12 DEF g, b, n

LEMMA MarkNext ==
  ASSUME IInv, Levels, MarkInv, [Next]_vars
  PROVE  MarkInv'
<1>1. GoodFrame(frame) /\ Now \in State
  BY NowFields
<1>2. CASE Writes
  <2>1. Marked(frame') /\ (ScopesMatch(frame) => ScopesMatch(frame'))
    BY <1>1, <1>2, MarkedKept DEF Writes, MarkInv
  <2> QED
    BY <1>2, <2>1 DEF Writes, MarkInv, NoStrayScope
<1>3. ASSUME NEW f, GoodFrame(f), Marked(f), ScopesMatch(f),
             NEW kind \in Kinds, NEW aliases \in Files, OpensIn(f, kind, aliases)
      PROVE  Marked(frame') /\ ScopesMatch(frame')
  <2> DEFINE g == OpenedFrame(f, kind, EmptyScope, aliases)
  <2>1. Marked(g) /\ ScopesMatch(g) /\ GoodFrame(g)
    BY <1>3, MarkedOpened, OpenedGood, ScopeTypes
  <2>2. Kept(g, frame')
    BY <1>3 DEF OpensIn
  <2> HIDE DEF g
  <2> QED
    BY <2>1, <2>2, MarkedKept
<1>4. CASE Opens
  <2>1. ScopesMatch(frame)
    BY <1>4 DEF Opens, MarkInv, NoStrayScope
  <2>2. PICK kind \in Kinds, aliases \in Files : OpensIn(frame, kind, aliases)
    BY <1>4 DEF Opens
  <2>3. Marked(frame') /\ ScopesMatch(frame')
    BY <1>1, <1>3, <2>1, <2>2 DEF MarkInv
  <2> QED
    BY <1>4, <2>3 DEF Opens, MarkInv, NoStrayScope
<1>5. ASSUME frame.nest # <<>>
      PROVE  AliasesAfter \in Files
  BY <1>1, <1>5, InnermostConstruct
     DEF GoodFrame, Frame, Construct, AliasesAfter, Top
<1>6. CASE Closes
  <2>1. PICK d \in Nat : /\ d >= Base(frame) + Len(frame.nest) - 1
                         /\ mode = "run" => d = OneLess(frame)
                         /\ frame' = ClosedTo(d)
    BY <1>6 DEF Closes
  <2>2. frame.nest # <<>>
    BY <1>6 DEF Closes
  <2>3. /\ Marked(frame')
        /\ d = Base(frame) + Len(frame.nest) - 1 => ScopesMatch(frame')
    BY <1>1, <2>1, <2>2, MarkedClosed DEF MarkInv, ClosedTo
  <2>4. mode = "run" => d = Base(frame) + Len(frame.nest) - 1
    <3>1. /\ Len(frame.scopes) \in Nat /\ Base(frame) \in Nat /\ Base(frame) >= 1
          /\ Len(frame.nest) \in Nat /\ Len(frame.nest) >= 1
      BY <1>1, <2>2, LenProperties, EmptySeq DEF GoodFrame, Frame, Base
    <3>2. mode = "run" => Len(frame.scopes) = Base(frame) + Len(frame.nest)
      BY DEF MarkInv, NoStrayScope, ScopesMatch
    <3> QED
      BY <2>1, <3>1, <3>2 DEF OneLess
  <2> QED
    BY <1>6, <2>3, <2>4 DEF Closes, MarkInv, NoStrayScope
<1>7. CASE Catches
  <2> DEFINE f == ClosedTo(Top.depth)
  <2>1. frame.nest # <<>>
    BY <1>7 DEF Catches
  <2>2. /\ Top.depth \in Nat
        /\ Top.depth >= Base(frame) + Len(frame.nest) - 1
    BY <1>1, <2>1, InnermostConstruct DEF Top, Construct
  <2>3. Top.depth = Base(frame) + Len(frame.nest) - 1
    <3>1. Len(frame.nest) \in DOMAIN frame.nest
      BY <1>1, <2>1, LenProperties, EmptySeq DEF GoodFrame, Frame
    <3> QED
      BY <3>1 DEF MarkInv, Marked, Top
  <2>4. Marked(f) /\ ScopesMatch(f)
    BY <1>1, <2>1, <2>2, <2>3, MarkedClosed DEF MarkInv, ClosedTo
  <2>5. GoodFrame(f)
    BY <1>5, <2>1, <2>2, ClosedStep DEF ClosedTo
  <2>6. OpensIn(f, "catch", f.aliases)
    BY <1>7 DEF Catches
  <2> HIDE DEF f
  <2>7. f.aliases \in Files /\ "catch" \in Kinds
    BY <2>5 DEF GoodFrame, Frame, Kinds
  <2>8. Marked(frame') /\ ScopesMatch(frame')
    BY <1>3, <2>4, <2>5, <2>6, <2>7
  <2> QED
    BY <1>7, <2>8 DEF Catches, MarkInv, NoStrayScope
<1>8. CASE CallsAway
  <2>1. PICK act \in Activation : /\ Kept(frame, act.saved)
                                  /\ stack' = Append(stack, act)
    BY <1>8 DEF CallsAway
  <2>2. ScopesMatch(frame)
    BY <1>8 DEF CallsAway, MarkInv, NoStrayScope
  <2>3. Marked(act.saved) /\ ScopesMatch(act.saved)
    BY <1>1, <2>1, <2>2, MarkedKept DEF MarkInv
  <2>4. Marked(frame') /\ ScopesMatch(frame')
    <3>1. /\ frame'.nest = <<>> /\ frame'.loops = <<>>
          /\ frame'.dead = [n \in Names |-> 0]
          /\ Len(frame'.scopes) = Base(frame')
      BY <1>8 DEF CallsAway
    <3>2. /\ OfKind(frame', "loop") = {} /\ Len(frame'.loops) = 0
          /\ Len(frame'.nest) = 0 /\ DOMAIN frame'.nest = {}
          /\ DOMAIN frame'.loops = {} /\ Base(frame') \in Nat
      BY <3>1 DEF OfKind, Base
    <3>3. Cardinality(OfKind(frame', "loop")) = 0
      BY <3>2, FS_EmptySet
    <3>4. \A n \in Names : frame'.dead[n] <= Len(frame'.scopes)
      BY <3>1, <3>2
    <3>5. ScopesMatch(frame')
      BY <3>1, <3>2 DEF ScopesMatch
    <3> QED
      BY <3>2, <3>3, <3>4, <3>5 DEF Marked
  <2>5. \A i \in DOMAIN stack' :
          stack'[i] = act \/ (i \in DOMAIN stack /\ stack'[i] = stack[i])
    BY <2>1, AppendedElements DEF IInv
  <2> QED
    BY <2>3, <2>4, <2>5 DEF MarkInv, NoStrayScope
<1>9. CASE GoesBack
  <2>1. \A i \in DOMAIN stack' : stack'[i] = stack[i] /\ i \in DOMAIN stack
    BY <1>9, StackPopped DEF GoesBack
  <2>2. Len(stack) \in DOMAIN stack
    BY <1>9, LenProperties, EmptySeq DEF GoesBack, IInv
  <2>3. /\ Marked(CallerOf.saved) /\ ScopesMatch(CallerOf.saved)
        /\ GoodFrame(CallerOf.saved)
    BY <2>2 DEF MarkInv, NoStrayScope, CallerOf, IInv, Parked
  <2>4. Marked(frame') /\ ScopesMatch(frame')
    BY <1>9, <2>3, MarkedKept DEF GoesBack
  <2> QED
    BY <2>1, <2>4 DEF MarkInv, NoStrayScope
<1> QED
  BY <1>2, <1>4, <1>6, <1>7, <1>8, <1>9, EveryStepMoves

LEMMA MarkInit == Init => MarkInv
<1> SUFFICES ASSUME Init PROVE MarkInv
  OBVIOUS
<1>1. /\ frame.nest = <<>> /\ frame.loops = <<>> /\ DOMAIN stack = {}
      /\ frame.dead = [n \in Names |-> 0] /\ frame.moduleScope = FALSE
      /\ frame.scopes = <<EmptyScope>>
  BY DEF Init, FreshFrame
<1>2. /\ OfKind(frame, "loop") = {} /\ Len(frame.loops) = 0
      /\ Len(frame.nest) = 0 /\ DOMAIN frame.nest = {}
      /\ DOMAIN frame.loops = {} /\ Base(frame) = 1 /\ Len(frame.scopes) = 1
  BY <1>1 DEF OfKind, Base
<1>3. Cardinality(OfKind(frame, "loop")) = 0
  BY <1>2, FS_EmptySet
<1>4. \A n \in Names : frame.dead[n] <= Len(frame.scopes)
  <2> TAKE n \in Names
  <2>1. frame.dead[n] = 0
    <3> DEFINE zero == [m \in Names |-> 0]
    <3>1. zero[n] = 0
      OBVIOUS
    <3>2. frame.dead = zero
      BY <1>1
    <3> QED
      BY <3>1, <3>2
  <2> QED
    BY <2>1, <1>2
<1>5. ScopesMatch(frame)
  BY <1>2 DEF ScopesMatch
<1>6. Marked(frame)
  BY <1>2, <1>3, <1>4 DEF Marked
<1> QED
  BY <1>1, <1>5, <1>6 DEF MarkInv, NoStrayScope

LEMMA MarkAlways == Spec => []MarkInv
<1>1. IInv /\ Levels /\ MarkInv /\ [Next]_vars => MarkInv'
  BY MarkNext
<1> QED
  BY <1>1, MarkInit, LevelsAlways, Invariant, PTL DEF Spec

(* The marks of a good frame are inside its scopes.                        *)
LEMMA MarkedFrameMarks ==
  ASSUME NEW f, GoodFrame(f), Marked(f)
  PROVE  FrameMarks(f)
<1> DEFINE n == Len(f.nest)
           b == Base(f)
           top == Len(f.scopes)
<1>1. /\ f.loops \in Seq(Nat) /\ DOMAIN f.nest = 1 .. n /\ n \in Nat
      /\ b \in Nat /\ b >= 1 /\ top \in Nat /\ f.dead \in [Names -> Nat]
  BY LenProperties DEF GoodFrame, Frame, Base
<1>2. top >= b + n
  BY DEF GoodFrame, FrameShape
<1>3. \A j \in DOMAIN f.loops : f.loops[j] \in Nat
  BY <1>1, LenProperties, ElementOfSeq
<1> HIDE DEF n, b, top
<1>4. top >= b
  BY <1>1, <1>2
<1>5. ASSUME NEW j \in DOMAIN f.loops
      PROVE  /\ f.loops[j] \in b + 1 .. top
             /\ \A k \in DOMAIN f.loops : j < k => f.loops[j] < f.loops[k]
  <2>1. /\ f.loops[j] >= b + 1 /\ f.loops[j] <= b + n
        /\ \A k \in DOMAIN f.loops : j < k => f.loops[j] < f.loops[k]
    BY DEF Marked, b, n
  <2>2. f.loops[j] \in b + 1 .. top
    BY <1>1, <1>2, <1>3, <2>1
  <2> QED
    BY <2>1, <2>2
<1>6. ASSUME NEW i \in DOMAIN f.nest
      PROVE  f.nest[i].depth \in b .. top /\ f.nest[i].anchors <= Len(f.loops)
  <2>1. f.nest[i].depth = b + i - 1 /\ f.nest[i].anchors <= Len(f.loops)
    BY DEF Marked, b
  <2>2. b + i - 1 \in b .. top
    BY <1>1, <1>2
  <2> QED
    BY <2>1, <2>2
<1>7. ASSUME NEW k \in Names PROVE f.dead[k] \in {0} \cup b .. top
  <2>1. f.dead[k] \in Nat /\ f.dead[k] <= top /\ (f.dead[k] = 0 \/ f.dead[k] >= b)
    BY <1>1 DEF Marked, GoodFrame, FrameShape, b, top
  <2> QED
    BY <1>1, <2>1
<1>8. Len(f.loops) = Cardinality({i \in DOMAIN f.nest : f.nest[i].kind = "loop"})
  BY DEF Marked, OfKind
<1> QED
  BY <1>4, <1>5, <1>6, <1>7, <1>8 DEF FrameMarks, b, top

(***************************************************************************)
(* What a frame remembers about its scopes points into them, also after an *)
(* error (push_loop_scope, execute_try, destroy_variable, and what         *)
(* unwind_scopes_to and pop_loop_scope leave).                             *)
(***************************************************************************)
THEOREM MarksInsideHolds == Spec => []MarksInside
<1>1. IInv /\ MarkInv => MarksInside
  BY NowFields, MarkedFrameMarks DEF IInv, MarkInv, MarksInside, Parked
<1> QED
  BY <1>1, MarkAlways, Invariant, PTL

(***************************************************************************)
(* While code runs, a frame has its own scope and one for each construct   *)
(* it is inside of: execute_try takes away what failed blocks left open.   *)
(***************************************************************************)
THEOREM NoStrayScopeHolds == Spec => []NoStrayScope
<1>1. MarkInv => NoStrayScope
  BY DEF MarkInv
<1> QED
  BY <1>1, MarkAlways, PTL
=============================================================================
