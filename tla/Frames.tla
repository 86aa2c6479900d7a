------------------------------- MODULE Frames -------------------------------
(***************************************************************************)
(* Activations of the tree-walking interpreter: how a call sets the        *)
(* caller's scopes aside and gives them back, how the one table of a       *)
(* module's variables moves between the store of loaded modules and the    *)
(* frame that runs against it, how an output argument is lent to its       *)
(* parameter, and how an error unwinds all of that.  A call of a function  *)
(* is counted, and what it lends is decided, before its arguments are      *)
(* evaluated; they may call, fail, assign and end variables before the     *)
(* lent value is taken.                                                    *)
(*                                                                         *)
(* Source: crates/zymbol-interpreter/src/lib.rs (take_call_state,          *)
(* restore_call_state, check_in_module_scope, check_out_module_scope,      *)
(* execute_block, execute_try, unwind_scopes_to), functions_lambda.rs      *)
(* (eval_lambda_call, eval_traditional_function_call), loops.rs and        *)
(* match_stmt.rs (eval_match_arm).                                         *)
(*                                                                         *)
(* Left to other modules: the tail-call loop (TailCalls), `:>` and the     *)
(* control flow that crosses it (TryFinally).  Left out: constants, and    *)
(* the pools of recycled maps.                                             *)
(***************************************************************************)
EXTENDS Scopes, FiniteSets, Functions

CONSTANTS
  Modules,     \* the loaded modules
  Script,      \* the main file, which is not a loaded module
  Imports,     \* the modules each file has an alias for
  Declared,    \* the names each module declares
  Values,      \* the values a program computes
  Initial,     \* the value a module gives each of its variables
  Unit,        \* ##_
  Lent,        \* the Value::Unit left in the place of a lent variable
  Signatures,  \* the calls the program makes: [in |-> names, out |-> pairs]
  LambdaParams,\* the parameter of an expression lambda
  LambdaHomes, \* the files that make lambdas; one may be called from anywhere
  LambdaHolds, \* what a block lambda holds: captures and parameter
  ErrName,     \* _err
  MaxCalls,    \* MAX_ACTIVE_CALLS
  MaxNest,     \* bound: constructs open at once in one activation
  MaxOpen,     \* bound: constructs open at once in all, a call being worth two
  ArgumentsEnd \* whether an argument may end the variable its call lends

Files == Modules \cup {Script}

ASSUME ConstantsAssumption ==
  /\ Script \notin Modules
  /\ Imports \in [Files -> SUBSET Modules]
  /\ Declared \in [Modules -> SUBSET Names]
  /\ Initial \in Values
  /\ Unit \notin Values /\ Lent \notin Values /\ Absent \notin Values
  /\ Lent # Unit /\ Absent # Unit /\ Absent # Lent
  /\ \A sig \in Signatures :
       /\ sig.in \subseteq Names
       /\ sig.out \subseteq Names \X Names
       /\ \A p, q \in sig.out : p = q
       /\ \A pair \in sig.out : pair[1] \notin sig.in
  /\ LambdaParams \subseteq Names /\ LambdaHolds \subseteq SUBSET Names
  /\ LambdaHomes \subseteq Files
  /\ ErrName \in Names
  /\ MaxCalls \in Nat /\ MaxNest \in Nat /\ MaxOpen \in Nat
  /\ ArgumentsEnd \in BOOLEAN

VARIABLES
  store,       \* loaded_modules: all_variables and dead_variables of each
  frame,       \* the running frame
  moduleDead,  \* module_dead
  functions,   \* the file whose function table is installed
  stack,       \* the suspended activations, outermost first
  pending,     \* the calls whose arguments are being evaluated, innermost last
  activeCalls, \* active_calls
  mode         \* "run", "error" while an error travels, "stopped"

vars ==
  <<store, frame, moduleDead, functions, stack, pending, activeCalls, mode>>

AnyValue == Values \cup {Unit, Lent}
Scope    == [Names -> AnyValue \cup {Absent}]
Table    == [vars : Scope, dead : SUBSET Names]
Kinds    == {"block", "loop", "try", "catch", "lambda"}

Construct == [kind : Kinds, depth : Nat, anchors : Nat, aliases : Files]

Frame == [scopes : Seq(Scope), moduleScope : BOOLEAN, path : Files,
          aliases : Files, loops : Seq(Nat),
          dead : [Names -> Nat],
          nest : Seq(Construct)]

Activation == [saved : Frame, out : SUBSET (Names \X Names), lent : BOOLEAN,
               functions : Files]

(* A call whose arguments are evaluated: the activation and the construct  *)
(* it is written in, what it calls, whether its output argument is lent    *)
(* and, if it is not, the copy once it was read.                           *)
PendingCall == [level : Nat, at : Nat, callee : Files, alias : BOOLEAN,
                sig : Signatures, lent : BOOLEAN,
                copy : AnyValue \cup {Absent}]

EmptyTable == [vars |-> EmptyScope, dead |-> {}]

FreshFrame(scope, aliases) ==
  [scopes |-> <<scope>>, moduleScope |-> FALSE, path |-> Script,
   aliases |-> aliases, loops |-> <<>>, dead |-> [n \in Names |-> 0],
   nest |-> <<>>]

Init ==
  /\ store = [m \in Modules |->
                [vars |-> [n \in Names |->
                   IF n \in Declared[m] THEN Initial ELSE Absent],
                 dead |-> {}]]
  /\ frame = FreshFrame(EmptyScope, Script)
  /\ moduleDead = {}
  /\ functions = Script
  /\ stack = <<>>
  /\ pending = <<>>
  /\ activeCalls = 0
  /\ mode = "run"

-----------------------------------------------------------------------------
(* The interpreter's state as one value, for handlers made of many steps.  *)

Now == [store |-> store, frame |-> frame, moduleDead |-> moduleDead]

Become(s) ==
  /\ store' = s.store
  /\ frame' = s.frame
  /\ moduleDead' = s.moduleDead

(* Mutation of CheckIn: the call takes the table along with the scopes.    *)
CheckInNothing(s) == s

(***************************************************************************)
(* check_in_module_scope: the running frame's module table goes back to    *)
(* the store, and an empty scope takes its place.                          *)
(***************************************************************************)
CheckIn(s) ==
  IF ~ s.frame.moduleScope THEN s
  ELSE [store      |-> [s.store EXCEPT ![s.frame.path] =
                          [vars |-> s.frame.scopes[1], dead |-> s.moduleDead]],
        frame      |-> [s.frame EXCEPT !.scopes[1] = EmptyScope],
        moduleDead |-> {}]

(* Mutation of CheckOut: the table is copied out and a second one stays.   *)
CheckOutCopy(s) ==
  IF ~ s.frame.moduleScope THEN s
  ELSE [s EXCEPT !.frame.scopes[1] = s.store[s.frame.path].vars,
                 !.moduleDead = s.store[s.frame.path].dead]

(***************************************************************************)
(* check_out_module_scope: the module's table leaves the store and becomes *)
(* the running frame's outermost scope.                                    *)
(***************************************************************************)
CheckOut(s) ==
  IF ~ s.frame.moduleScope THEN s
  ELSE [store      |-> [s.store EXCEPT ![s.frame.path] = EmptyTable],
        frame      |-> [s.frame EXCEPT !.scopes[1] =
                          s.store[s.frame.path].vars],
        moduleDead |-> s.store[s.frame.path].dead]

(* An error raised by the running statement starts to travel.              *)
Raising ==
  /\ mode' = "error"
  /\ UNCHANGED <<store, frame, moduleDead, functions, stack, pending,
                 activeCalls>>

-----------------------------------------------------------------------------
(* Statements.                                                             *)

Inside(kind) == frame.nest # <<>> /\ frame.nest[Len(frame.nest)].kind = kind

(* The innermost call whose arguments are evaluated; the running code is   *)
(* one of them when it stands where that call is written.                  *)
Awaited == pending[Len(pending)]

InArgument ==
  /\ pending # <<>>
  /\ Awaited.level = Len(stack)
  /\ Awaited.at = Len(frame.nest)

(* The bound of what is open at once.                                      *)
Room(weight) ==
  FoldFunction(+, Len(frame.nest) + 2 * activeCalls + weight,
               [i \in DOMAIN stack |-> Len(stack[i].saved.nest)]) <= MaxOpen

(* No statement of the running activation is inside of a call.             *)
NoneAwaited == \A k \in DOMAIN pending : pending[k].level < Len(stack)

(* An argument and the body of an expression lambda are expressions: a     *)
(* statement runs in them only inside the block of a `??` arm.             *)
InStatement == mode = "run" /\ ~ Inside("lambda") /\ ~ InArgument

(* execute_assignment of a name that is not a constant.                    *)
Assign(name, value) ==
  /\ InStatement
  /\ Become(SetVariable(Now, name, value))
  /\ UNCHANGED <<functions, stack, pending, activeCalls, mode>>

(***************************************************************************)
(* The same with a hot target, `x°` or `°x`: a name not in view is first   *)
(* given its neutral value in the scope of the nearest loop, or above it.  *)
(***************************************************************************)
AssignHot(name, value, above) ==
  LET at == IF above THEN AboveNearestLoop(frame) ELSE NearestLoop(frame)
      placed == IF InView(frame.scopes, name) THEN frame
                ELSE SetAt(frame, at, name, Initial)
  IN  /\ InStatement
      /\ Become(SetVariable([Now EXCEPT !.frame = placed], name, value))
      /\ UNCHANGED <<functions, stack, pending, activeCalls, mode>>

(* The value of a hot assignment fails: what was first placed stays.       *)
AssignHotFails(name, above) ==
  /\ InStatement
  /\ ~ InView(frame.scopes, name)
  /\ frame' = SetAt(frame, IF above THEN AboveNearestLoop(frame)
                           ELSE NearestLoop(frame), name, Initial)
  /\ mode' = "error"
  /\ UNCHANGED <<store, moduleDead, functions, stack, pending, activeCalls>>

OutArgument(sig) == {pair[2] : pair \in sig.out}

(* A call that waits for its arguments has decided to lend this variable.  *)
Promised(name) ==
  \E k \in DOMAIN pending :
    /\ pending[k].level = Len(stack)
    /\ pending[k].lent
    /\ name \in OutArgument(pending[k].sig)
    /\ InView(frame.scopes, name)
    /\ Innermost(frame.scopes, name) <= Base(frame) + pending[k].at

(***************************************************************************)
(* `\ name` of a name in view; of an ended one it is an error.  Nothing in  *)
(* the code stops the block of a `??` arm in an argument from ending the   *)
(* variable that the same call has decided to lend.                        *)
(***************************************************************************)
EndVariable(name) ==
  /\ InStatement
  /\ ArgumentsEnd \/ ~ InView(frame.scopes, name) \/ ~ Promised(name)
  /\ IF InView(frame.scopes, name)
     THEN /\ Become(Destroy(Now, name))
          /\ UNCHANGED <<functions, stack, pending, activeCalls, mode>>
     ELSE /\ IsEnded(frame, moduleDead, name)
          /\ Raising

(* Any operation of the running code may fail.                             *)
Raise == mode = "run" /\ Raising

-----------------------------------------------------------------------------
(* Blocks, loops, `!?` and expression lambdas.                             *)

Opening(f, kind) ==
  [f EXCEPT !.nest = Append(@, [kind |-> kind, depth |-> Len(f.scopes),
                                anchors |-> Len(f.loops),
                                aliases |-> f.aliases])]

Top == frame.nest[Len(frame.nest)]

Popped(f) == [f EXCEPT !.nest = SubSeq(@, 1, Len(@) - 1)]

EnterBlock ==
  /\ mode = "run"
  /\ Room(1) /\ Len(frame.nest) < MaxNest
  /\ frame' = PushScope(Opening(frame, "block"), EmptyScope)
  /\ UNCHANGED <<store, moduleDead, functions, stack, pending, activeCalls, mode>>

(* push_loop_scope *)
EnterLoop ==
  /\ InStatement
  /\ Room(1) /\ Len(frame.nest) < MaxNest
  /\ frame' = [PushScope(Opening(frame, "loop"), EmptyScope)
                 EXCEPT !.loops = Append(@, Len(frame.scopes) + 1)]
  /\ UNCHANGED <<store, moduleDead, functions, stack, pending, activeCalls, mode>>

(* execute_try notes where the stacks stand and runs the block.            *)
EnterTry ==
  /\ InStatement
  /\ Room(1) /\ Len(frame.nest) < MaxNest
  /\ frame' = PushScope(Opening(frame, "try"), EmptyScope)
  /\ UNCHANGED <<store, moduleDead, functions, stack, pending, activeCalls, mode>>

(* Mutation of CallsLeft: a lambda that fails is never counted out.        *)
CallsLeftOnSuccess(kind) ==
  IF kind = "lambda" /\ mode = "run" THEN activeCalls - 1 ELSE activeCalls

(* eval_lambda_call counts its call out, however the body ended.           *)
CallsLeft(kind) == IF kind = "lambda" THEN activeCalls - 1 ELSE activeCalls

(***************************************************************************)
(* The short path of eval_lambda_call for an expression lambda without     *)
(* captures: a scope on the caller's own stack, and the aliases of the     *)
(* file the lambda was written in.                                         *)
(***************************************************************************)
EnterLambdaExpr(param, value, home) ==
  /\ mode = "run"
  /\ Len(frame.nest) < MaxNest
  /\ Room(3) /\ activeCalls < MaxCalls
  /\ frame' = SetVariableNew(
                [PushScope(Opening(frame, "lambda"), EmptyScope)
                   EXCEPT !.aliases = home], param, value)
  /\ activeCalls' = activeCalls + 1
  /\ UNCHANGED <<store, moduleDead, functions, stack, pending, mode>>

(* pop_loop_scope takes the mark and one scope.                            *)
LeaveLoopOf(f) ==
  PopScope([f EXCEPT !.loops = SubSeq(@, 1, Len(@) - 1)])

(* The end of a block, a loop, a `!?` body or a `:!` body, in order.       *)
LeaveConstruct ==
  /\ mode = "run"
  /\ frame.nest # <<>>
  /\ Top.kind # "lambda"
  /\ ~ InArgument
  /\ frame' = Popped(IF Top.kind = "loop" THEN LeaveLoopOf(frame)
                     ELSE PopScope(frame))
  /\ UNCHANGED <<store, moduleDead, functions, stack, pending, activeCalls, mode>>

(* The lambda's value is computed: its scope and its aliases end.          *)
LeaveLambdaExpr ==
  /\ mode = "run"
  /\ Inside("lambda")
  /\ ~ InArgument
  /\ frame' = Popped(PopScope([frame EXCEPT !.aliases = Top.aliases]))
  /\ activeCalls' = CallsLeft("lambda")
  /\ UNCHANGED <<store, moduleDead, functions, stack, pending, mode>>
-----------------------------------------------------------------------------
(* Calls.                                                                  *)

(***************************************************************************)
(* lendable_arguments: a plain variable in view is lent to its output      *)
(* parameter, unless it is the module's.                                   *)
(***************************************************************************)
Lendable(f, name) == InView(f.scopes, name) /\ ~ IsModuleState(f, name)

Lending(f, name) ==
  [f EXCEPT !.scopes[Innermost(f.scopes, name)] = Bind(@, name, Lent)]

(* Mutation of TakeCallState: the loop marks stay with the callee.         *)
TakeCallStateSharingLoops(s, aliases) ==
  LET in == CheckIn(s)
  IN  [saved |-> in.frame,
       now |-> [in EXCEPT !.frame =
                  [FreshFrame(EmptyScope, aliases) EXCEPT
                     !.loops = in.frame.loops]]]

(***************************************************************************)
(* take_call_state: the module's table is checked in before anything is    *)
(* called, and the callee starts with one empty scope of its own.          *)
(***************************************************************************)
TakeCallState(s, aliases) ==
  LET in == CheckIn(s)
  IN  [saved |-> in.frame,
       now |-> [in EXCEPT !.frame = FreshFrame(EmptyScope, aliases)]]

(***************************************************************************)
(* A module frame: the module's table under the frame's own scope, which   *)
(* holds the parameters.                                                   *)
(***************************************************************************)
ModuleFrame(s, m, params) ==
  [store      |-> [s.store EXCEPT ![m] = EmptyTable],
   frame      |-> [s.frame EXCEPT !.scopes = <<s.store[m].vars, params>>,
                                  !.moduleScope = TRUE, !.path = m,
                                  !.aliases = m],
   moduleDead |-> s.store[m].dead]

ScriptFrame(s, params) == [s EXCEPT !.frame.scopes = <<params>>]

(***************************************************************************)
(* The parameters' scope: the arguments' values, and the value of the      *)
(* output argument.                                                        *)
(***************************************************************************)
ParameterScope(sig, args, output) ==
  [n \in Names |->
     IF n \in sig.in THEN args[n]
     ELSE IF \E pair \in sig.out : pair[1] = n THEN output
     ELSE Absent]

(***************************************************************************)
(* eval_traditional_function_call of a function of `callee`, up to its     *)
(* arguments.  Through an alias the callee is a module the running file    *)
(* imports; by its bare name the function is one of the table that is      *)
(* installed.  enter_call counts the call from here on, its arguments      *)
(* included.  What is lent is decided here and taken by CallFunction.      *)
(***************************************************************************)
BeginCall(callee, throughAlias, sig) ==
  /\ mode = "run"
  /\ Room(2) /\ activeCalls < MaxCalls
  /\ IF throughAlias THEN callee \in Imports[frame.aliases]
     ELSE callee = functions
  /\ pending' = Append(pending,
       [level |-> Len(stack), at |-> Len(frame.nest), callee |-> callee,
        alias |-> throughAlias, sig |-> sig,
        lent |-> \E name \in OutArgument(sig) : Lendable(frame, name),
        copy |-> Absent])
  /\ activeCalls' = activeCalls + 1
  /\ UNCHANGED <<store, frame, moduleDead, functions, stack, mode>>

(***************************************************************************)
(* An output argument that is not lent is read like any other, at its      *)
(* place among them: the module's state, or a variable that ended.         *)
(***************************************************************************)
CopyArgument ==
  /\ mode = "run"
  /\ InArgument
  /\ ~ Awaited.lent /\ Awaited.copy = Absent
  /\ \E name \in OutArgument(Awaited.sig) :
       /\ Readable(frame, moduleDead, name)
       /\ pending' = [pending EXCEPT ![Len(pending)].copy =
                        ValueOf(frame.scopes, name)]
  /\ UNCHANGED <<store, frame, moduleDead, functions, stack, activeCalls, mode>>

Lender(f, name) == IF InView(f.scopes, name) THEN Lending(f, name) ELSE f

(* What is lent is moved out of the variable: the placeholder is what the  *)
(* parameter gets when an argument ended the variable meanwhile.           *)
Moved(f, name) ==
  IF InView(f.scopes, name) THEN ValueOf(f.scopes, name) ELSE Lent

PendingPopped == SubSeq(pending, 1, Len(pending) - 1)

(***************************************************************************)
(* The arguments are evaluated: the lent value is taken, the caller set    *)
(* aside, and the function starts.  Through an alias the callee's whole    *)
(* function table is installed.                                            *)
(***************************************************************************)
CallFunction(args) ==
  LET call == Awaited
      callee == call.callee
      name == CHOOSE n \in OutArgument(call.sig) : TRUE
      lender == IF call.lent THEN Lender(frame, name) ELSE frame
      params == ParameterScope(call.sig, args,
                               IF call.lent THEN Moved(frame, name)
                               ELSE call.copy)
      taken == TakeCallState([Now EXCEPT !.frame = lender], frame.aliases)
  IN  /\ mode = "run"
      /\ InArgument
      /\ call.sig.out = {} \/ call.lent \/ call.copy # Absent
      /\ Become(IF callee \in Modules
                THEN ModuleFrame(taken.now, callee, params)
                ELSE ScriptFrame(taken.now, params))
      /\ stack' = Append(stack, [saved |-> taken.saved, out |-> call.sig.out,
                                 lent |-> call.lent, functions |-> functions])
      /\ functions' = IF call.alias THEN callee ELSE functions
      /\ pending' = PendingPopped
      /\ UNCHANGED <<activeCalls, mode>>

(***************************************************************************)
(* A `<~`, `@!` or `@>` in the block of a `??` arm of an argument leaves   *)
(* the expression (RuntimeError::Unwind, GLB-107): the call is never made, *)
(* and counts no longer.                                                   *)
(***************************************************************************)
AbandonCall ==
  /\ mode = "run"
  /\ InArgument
  /\ pending' = PendingPopped
  /\ activeCalls' = activeCalls - 1
  /\ UNCHANGED <<store, frame, moduleDead, functions, stack, mode>>

(***************************************************************************)
(* eval_lambda_call of a block lambda, or one with captures: a frame of    *)
(* its own holding what it captured and its parameter, outside any module, *)
(* with the aliases of the file it was written in.                         *)
(***************************************************************************)
CallLambda(held, value, home) ==
  LET taken == TakeCallState(Now, home)
  IN  /\ mode = "run"
      /\ Room(2) /\ activeCalls < MaxCalls
      /\ Become(ScriptFrame(taken.now,
                     [n \in Names |-> IF n \in held THEN value ELSE Absent]))
      /\ stack' = Append(stack, [saved |-> taken.saved, out |-> {},
                                 lent |-> FALSE, functions |-> functions])
      /\ activeCalls' = activeCalls + 1
      /\ UNCHANGED <<functions, pending, mode>>

(* enter_call refuses the call, and the refusal is an error.               *)
CallRefused == mode = "run" /\ activeCalls >= MaxCalls /\ Raising

CallerOf == stack[Len(stack)]

(* Mutation of FunctionsBack: the callee's table stays installed.          *)
FunctionsStay == functions

(* The function table the call replaced is installed again.                *)
FunctionsBack == CallerOf.functions

(***************************************************************************)
(* restore_call_state, and the output arguments written back into the      *)
(* caller: set aside before the frame ends, written once it is back.       *)
(***************************************************************************)
Resumed(ending, pairs) ==
  LET act == CallerOf
      in == CheckIn([Now EXCEPT !.frame = ending])
      back == CheckOut([in EXCEPT !.frame = act.saved])
  IN  IF pairs = {} THEN back
      ELSE LET pair == CHOOSE p \in pairs : TRUE
           IN  SetVariable(back, pair[2], TakeVariable(ending, pair[1], Unit))

(* Mutation of PairsOnError: a failed call keeps what it was lent.         *)
NoPairsOnError(act) == {}

(* What a call that fails gives back: what it was lent, and no copy.       *)
PairsOnError(act) == IF act.lent THEN act.out ELSE {}

(***************************************************************************)
(* A function or a lambda returns: `<~`, or the end of its body.  The      *)
(* blocks it returns from are closed on the way.                           *)
(***************************************************************************)
Return ==
  /\ mode = "run"
  /\ stack # <<>>
  /\ NoneAwaited
  /\ \A i \in DOMAIN frame.nest : frame.nest[i].kind # "lambda"
  /\ Become(Resumed([PopTo(frame, Base(frame)) EXCEPT !.nest = <<>>,
                                                     !.loops = <<>>],
                    CallerOf.out))
  /\ functions' = FunctionsBack
  /\ stack' = SubSeq(stack, 1, Len(stack) - 1)
  /\ activeCalls' = activeCalls - 1
  /\ UNCHANGED <<pending, mode>>

-----------------------------------------------------------------------------
(* An error travelling outwards.                                           *)

(* execute_block leaves its scope behind; execute_loop pops its mark and   *)
(* one scope; an expression lambda pops one scope and its aliases end.     *)
UnwindConstruct ==
  /\ mode = "error"
  /\ frame.nest # <<>>
  /\ Top.kind \in {"block", "loop", "lambda"}
  /\ ~ InArgument
  /\ frame' = Popped(
       CASE Top.kind = "block"  -> frame
         [] Top.kind = "loop"   -> LeaveLoopOf(frame)
         [] Top.kind = "lambda" ->
              PopScope([frame EXCEPT !.aliases = Top.aliases]))
  /\ activeCalls' = CallsLeft(Top.kind)
  /\ UNCHANGED <<store, moduleDead, functions, stack, pending, mode>>

(* Mutation of UnwindTo: the scopes the error left open stay.              *)
UnwindToNowhere(f, c) == f

(* unwind_scopes_to where the `!?` found the stacks.                       *)
UnwindTo(f, c) ==
  [PopTo(f, c.depth) EXCEPT !.loops = SubSeq(@, 1, c.anchors)]

(***************************************************************************)
(* The `!?` is reached: a clause takes the error and its block runs in a   *)
(* scope that holds _err, or none does and the error goes on.  An error of *)
(* the `:!` block itself goes on too.                                      *)
(***************************************************************************)
Catch(value) ==
  /\ mode = "error"
  /\ Inside("try")
  /\ ~ InArgument
  /\ LET f == Popped(UnwindTo(frame, Top))
         opened == PushScope(Opening(f, "catch"), EmptyScope)
     IN  Become(SetVariable([Now EXCEPT !.frame = opened], ErrName, value))
  /\ mode' = "run"
  /\ UNCHANGED <<functions, stack, pending, activeCalls>>

(* Mutation of PassTry: an error of a `:!` block goes nowhere.             *)
PassTryOfBody ==
  /\ mode = "error"
  /\ Inside("try")
  /\ ~ InArgument
  /\ frame' = Popped(UnwindTo(frame, Top))
  /\ UNCHANGED <<store, moduleDead, functions, stack, pending, activeCalls, mode>>

PassTry ==
  /\ mode = "error"
  /\ Inside("try") \/ Inside("catch")
  /\ ~ InArgument
  /\ frame' = Popped(UnwindTo(frame, Top))
  /\ UNCHANGED <<store, moduleDead, functions, stack, pending, activeCalls, mode>>

(* Mutation of UnwindCall: a call that was never made still counts.        *)
UnwindUncounted ==
  /\ mode = "error"
  /\ InArgument
  /\ pending' = PendingPopped
  /\ UNCHANGED <<store, frame, moduleDead, functions, stack, activeCalls, mode>>

(* An argument failed: the call is never made, and counts no longer.       *)
UnwindCall ==
  /\ mode = "error"
  /\ InArgument
  /\ pending' = PendingPopped
  /\ activeCalls' = activeCalls - 1
  /\ UNCHANGED <<store, frame, moduleDead, functions, stack, mode>>

(* The error leaves a call: the caller is restored, and it goes on there.  *)
FailCall ==
  /\ mode = "error"
  /\ frame.nest = <<>>
  /\ stack # <<>>
  /\ NoneAwaited
  /\ Become(Resumed(frame, PairsOnError(CallerOf)))
  /\ functions' = FunctionsBack
  /\ stack' = SubSeq(stack, 1, Len(stack) - 1)
  /\ activeCalls' = activeCalls - 1
  /\ UNCHANGED <<pending, mode>>

(* Nobody caught it, or the program's last statement ended.                *)
Stop ==
  /\ mode # "stopped"
  /\ stack = <<>>
  /\ frame.nest = <<>>
  /\ pending = <<>>
  /\ mode' = "stopped"
  /\ UNCHANGED <<store, frame, moduleDead, functions, stack, pending,
                 activeCalls>>

-----------------------------------------------------------------------------
Statements ==
  \/ \E n \in Names, v \in Values : Assign(n, v)
  \/ \E n \in Names, v \in Values, above \in BOOLEAN : AssignHot(n, v, above)
  \/ \E n \in Names, above \in BOOLEAN : AssignHotFails(n, above)
  \/ \E n \in Names : EndVariable(n)
  \/ Raise

Constructs ==
  \/ EnterBlock
  \/ EnterLoop
  \/ EnterTry
  \/ \E n \in LambdaParams, v \in Values, home \in LambdaHomes :
       EnterLambdaExpr(n, v, home)
  \/ LeaveConstruct
  \/ LeaveLambdaExpr

Calls ==
  \/ \E callee \in Files, alias \in BOOLEAN, sig \in Signatures :
       BeginCall(callee, alias, sig)
  \/ CopyArgument
  \/ \E args \in [Names -> Values] : CallFunction(args)
  \/ AbandonCall
  \/ \E held \in LambdaHolds, v \in Values, home \in LambdaHomes :
       CallLambda(held, v, home)
  \/ CallRefused
  \/ Return

Errors ==
  \/ UnwindConstruct
  \/ \E v \in Values : Catch(v)
  \/ PassTry
  \/ UnwindCall
  \/ FailCall

Next == Statements \/ Constructs \/ Calls \/ Errors \/ Stop

Spec == Init /\ [][Next]_vars

-----------------------------------------------------------------------------
(* Properties.                                                             *)

TypeOK ==
  /\ store \in [Modules -> Table]
  /\ frame \in Frame
  /\ moduleDead \in SUBSET Names
  /\ functions \in Files
  /\ stack \in Seq(Activation)
  /\ pending \in Seq(PendingCall)
  /\ activeCalls \in Nat
  /\ mode \in {"run", "error", "stopped"}

(* Whose table is scope 1 of the running frame.                            *)
RunningIn(m) == frame.moduleScope /\ frame.path = m

TableOf(m) ==
  IF RunningIn(m) THEN [vars |-> frame.scopes[1], dead |-> moduleDead]
  ELSE store[m]

(***************************************************************************)
(* OneTable: a module's variables are in exactly one place.  The table is  *)
(* whole wherever it is - every declared name is there, live or ended,     *)
(* never both - the store holds nothing of a module that is running, and   *)
(* no suspended frame kept a table when it was set aside                   *)
(* (check_in_module_scope, check_out_module_scope).                        *)
(***************************************************************************)
OneTable ==
  /\ \A m \in Modules :
       /\ Held(TableOf(m).vars) \cup TableOf(m).dead = Declared[m]
       /\ Held(TableOf(m).vars) \cap TableOf(m).dead = {}
       /\ RunningIn(m) => store[m] = EmptyTable
  /\ ~ frame.moduleScope => moduleDead = {}
  /\ \A i \in DOMAIN stack :
       stack[i].saved.moduleScope => stack[i].saved.scopes[1] = EmptyScope

(***************************************************************************)
(* LentOnce: an output argument is in one place too, although what is lent *)
(* is decided before the other arguments run and taken after them.  No     *)
(* code ever runs with the placeholder of a lent variable in view, and     *)
(* each suspended call that lent one still holds the placeholder where the *)
(* value has to come back (GLB-117: "Nothing can look at the caller's      *)
(* variable while it is out").  It needs ~ ArgumentsEnd: an argument that  *)
(* ends the very variable its call lends leaves the callee the placeholder.*)
(***************************************************************************)
LentOnce ==
  /\ \A i \in DOMAIN frame.scopes, n \in Names : frame.scopes[i][n] # Lent
  /\ \A i \in DOMAIN stack : stack[i].lent =>
       \A pair \in stack[i].out :
         /\ InView(stack[i].saved.scopes, pair[2])
         /\ ValueOf(stack[i].saved.scopes, pair[2]) = Lent

(***************************************************************************)
(* MarksInside: what a frame remembers about its own scope stack points    *)
(* into it, on every path an error can take: the marks of open loops rise, *)
(* one for each, inside the frame's own scopes (MM-1: x° must not write    *)
(* out of bounds), every `!?` can still unwind to where it began, and the  *)
(* place of an ended name is a scope that is open (MM-3).                  *)
(***************************************************************************)
FrameMarks(f) ==
  /\ Len(f.scopes) >= Base(f)
  /\ \A i \in DOMAIN f.loops :
       /\ f.loops[i] \in Base(f) + 1 .. Len(f.scopes)
       /\ \A j \in DOMAIN f.loops : i < j => f.loops[i] < f.loops[j]
  /\ Len(f.loops) = Cardinality({i \in DOMAIN f.nest : f.nest[i].kind = "loop"})
  /\ \A i \in DOMAIN f.nest :
       /\ f.nest[i].depth \in Base(f) .. Len(f.scopes)
       /\ f.nest[i].anchors <= Len(f.loops)
  /\ \A n \in Names : f.dead[n] \in {0} \cup Base(f) .. Len(f.scopes)

MarksInside ==
  FrameMarks(frame) /\ \A i \in DOMAIN stack : FrameMarks(stack[i].saved)

(***************************************************************************)
(* NoStrayScope: while code runs, a frame has its own scope and one more   *)
(* for each construct it is inside of - although a block that fails leaves *)
(* its scope behind, and the loops and lambdas around it close one scope   *)
(* each without asking whose.  A stray scope would be found by name        *)
(* lookups and would be where the next block's locals go.                  *)
(***************************************************************************)
ScopesMatch(f) == Len(f.scopes) = Base(f) + Len(f.nest)

NoStrayScope ==
  /\ mode = "run" => ScopesMatch(frame)
  /\ \A i \in DOMAIN stack : ScopesMatch(stack[i].saved)

(***************************************************************************)
(* CallsBalanced: active_calls is the number of calls that are active: the *)
(* activations, the expression lambdas that run on their caller's own      *)
(* stack, and the calls whose arguments are being evaluated, each written  *)
(* in an activation that is still there; whichever way the calls before    *)
(* ended, failing or abandoned arguments included.  So ##Depth is raised   *)
(* at the depth REFERENCE gives and no program drifts towards it.          *)
(***************************************************************************)
InLambda(f) == {i \in DOMAIN f.nest : f.nest[i].kind = "lambda"}

LambdasIn(f) == Cardinality(InLambda(f))

(* entry[i]: how many calls ran already when activation i + 1 began, those *)
(* that still waited for their arguments not counted.                      *)
CountedBy(entry) ==
  /\ entry[0] = 0
  /\ \A i \in 1 .. Len(stack) :
       entry[i] = entry[i - 1] + LambdasIn(stack[i].saved) + 1
  /\ activeCalls = entry[Len(stack)] + LambdasIn(frame) + Len(pending)

CallsBalanced ==
  /\ \E entry \in [0 .. Len(stack) -> 0 .. activeCalls] : CountedBy(entry)
  /\ \A k \in DOMAIN pending : pending[k].level <= Len(stack)

(***************************************************************************)
(* ModuleCodeAtHome: code that runs against a module's table finds that    *)
(* module's functions and aliases installed, so a bare name in it is never *)
(* another file's (BUG-01), also after an error left several calls.        *)
(***************************************************************************)
ModuleCodeAtHome ==
  frame.moduleScope /\ LambdasIn(frame) = 0 =>
    functions = frame.path /\ frame.aliases = frame.path

(***************************************************************************)
(* EndedKeepsItsPlace: a name ended by `\` stays ended until an assignment *)
(* brings it back, and it comes back in the scope it was taken from, while *)
(* that scope is open (GLB-147), or where `x` with a ring asks for it.     *)
(***************************************************************************)
EndedKeepsItsPlace ==
  [][\A n \in Names :
       /\ mode = "run" /\ stack' = stack
       /\ Len(frame'.scopes) <= Len(frame.scopes)   \* not the parameter of a lambda
       /\ frame.dead[n] \in DOMAIN frame'.scopes
       /\ ~ InView(frame.scopes, n)
       /\ frame'.dead[n] = 0
       => \E at \in {frame.dead[n], NearestLoop(frame),
                     AboveNearestLoop(frame)} :
            frame'.scopes[at][n] # Absent]_vars

(***************************************************************************)
(* An error does not travel for ever: it is caught or it ends the program. *)
(* The interpreter is one sequential program, so a step that unwinds is    *)
(* taken once it can be.                                                   *)
(***************************************************************************)
FairSpec == Spec /\ WF_vars(Errors \/ Stop)

ErrorLands == (mode = "error") ~> (mode # "error")

(***************************************************************************)
(* The module states as one cell for each declared variable: see           *)
(* ModuleStore.                                                            *)
(***************************************************************************)
CellOf(m, n) == TableOf(m).vars[n]

Cells == [m \in Modules |-> [n \in Declared[m] |-> CellOf(m, n)]]

Abstract == INSTANCE ModuleStore WITH
  Outside <- Script,
  Ended   <- Absent,
  cells   <- Cells,
  running <- IF frame.moduleScope THEN frame.path ELSE Script

ImplementsModuleStore == Abstract!Spec
=============================================================================
