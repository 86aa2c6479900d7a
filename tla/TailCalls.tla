----------------------------- MODULE TailCalls -----------------------------
(***************************************************************************)
(* `<~ f(..)` inside f: the tree-walker does not call, it asks for f's     *)
(* body to be run again.  The request is kept in the interpreter           *)
(* (tco_pending, tco_args, current_function), not in the activation that   *)
(* made it, and whichever function next reaches the end of its body grants *)
(* it.  What may come in between is modelled: bodies run as values, `!?`   *)
(* `:!` `:>`, errors, and calls from all of them.                          *)
(*                                                                         *)
(* A body is run as a value by eval_lambda_call: a lambda's, and that of a *)
(* named function that is called through a variable or handed to an        *)
(* operator (`g = f`, `xs$> f`).  Neither sets current_function, so a      *)
(* `<~ f(..)` in one asks in the name of the function further out.         *)
(*                                                                         *)
(* A program is one file and every sequence of statements the rules allow. *)
(* Blocks, loops and the variables other than the parameter and the        *)
(* constants of a body are left out: a restart does not depend on them.    *)
(* So are expression lambdas without captures, which run in their caller's *)
(* frame, the check of the Rust stack in enter_call, and that a call       *)
(* counts while its arguments are evaluated (Frames).                      *)
(***************************************************************************)
EXTENDS Naturals, Sequences

CONSTANTS
    Functions,        \* names of functions
    NoFunction,       \* current_function outside every function
    Values,           \* arguments
    Names,            \* names of constants a body declares
    MaxCalls,         \* MAX_ACTIVE_CALLS (zymbol-common/src/depth.rs)
    MaxTries          \* how many `!?` an activation nests, at most

ASSUME ConstantsAssumption ==
    /\ NoFunction \notin Functions
    /\ MaxCalls \in Nat
    /\ MaxTries \in Nat

VARIABLES
    frames,           \* the activations, the file's first
    currentFunction,  \* current_function
    pending,          \* tco_pending
    args,             \* tco_args
    flow,             \* control_flow, or the error that travels instead
    ended,            \* the file has ended
    asker             \* history: the place of the function that asked, or 0

vars == <<frames, currentFunction, pending, args, flow, ended, asker>>

Flow == {"none", "return", "error"}

\* One `!?`: the part of it that runs, and what its `:>` has set aside.
Try == [part : {"body", "catch", "finally"}, owed : Flow]

Frame == [kind : {"file", "function", "value"},
          name : Functions \union {NoFunction},
          arg : Values \union {NoFunction},
          consts : SUBSET Names,     \* marks in const_vars_stack
          turn : SUBSET Names,       \* history: declared since the body began
          tries : Seq(Try),          \* its length is try_depth
          caller : Functions \union {NoFunction}]   \* prev_fn

TypeOK ==
    /\ frames \in Seq(Frame)
    /\ Len(frames) \in 1 .. MaxCalls + 1
    /\ \A i \in 1 .. Len(frames) : Len(frames[i].tries) <= MaxTries
    /\ currentFunction \in Functions \union {NoFunction}
    /\ pending \in BOOLEAN
    /\ args \in Values \union {NoFunction}
    /\ flow \in Flow
    /\ ended \in BOOLEAN
    /\ asker \in 0 .. MaxCalls + 1

Activation(kind, name, arg, consts, caller) ==
    [kind |-> kind, name |-> name, arg |-> arg, consts |-> consts, turn |-> {},
     tries |-> <<>>, caller |-> caller]

Init ==
    /\ frames = <<Activation("file", NoFunction, NoFunction, {}, NoFunction)>>
    /\ currentFunction = NoFunction
    /\ pending = FALSE
    /\ args = NoFunction
    /\ flow = "none"
    /\ ended = FALSE
    /\ asker = 0

Top == frames[Len(frames)]
Replaced(frame) == [frames EXCEPT ![Len(frames)] = frame]
Below == SubSeq(frames, 1, Len(frames) - 1)

\* A statement runs only when nothing is on its way out.
Running == ~ended /\ flow = "none"

\* Whether the top activation stands in a `!?`, and the innermost one.
InTry == Top.tries # <<>>
InnermostTry == Top.tries[Len(Top.tries)]
WithTry(t) == [Top EXCEPT !.tries[Len(Top.tries)] = t]
OutOfTry == [Top EXCEPT !.tries = SubSeq(@, 1, Len(@) - 1)]

-----------------------------------------------------------------------------
(* Calls.                                                                  *)

\* enter_call refuses: the file's body is not a call.
DepthSpent == Len(frames) > MaxCalls

CallRefused ==
    /\ Running
    /\ DepthSpent
    /\ flow' = "error"
    /\ UNCHANGED <<frames, currentFunction, pending, args, ended, asker>>

\* The arguments are evaluated, the caller's state is saved, prev_fn kept; the
\* caller's constants are forwarded, with their marks.
CallFunction(f, v) ==
    /\ Running
    /\ ~DepthSpent
    /\ frames' = Append(frames, Activation("function", f, v, Top.consts, currentFunction))
    /\ currentFunction' = f
    /\ UNCHANGED <<pending, args, flow, ended, asker>>

\* eval_lambda_call of a lambda, or of a named function used as a value:
\* current_function stays, a body run as a value has none of its own.
CallValue(v) ==
    /\ Running
    /\ ~DepthSpent
    /\ frames' = Append(frames, Activation("value", NoFunction, v, {}, NoFunction))
    /\ UNCHANGED <<currentFunction, pending, args, flow, ended, asker>>

-----------------------------------------------------------------------------
(* Statements.                                                             *)

\* MUTATION of Asks: try_depth is not looked at.
AsksAnywhere(f) == f = currentFunction

\* What makes `<~ f(..)` a request and not a call: no `!?` of the activation
\* is open and the name is current_function.
Asks(f) == f = currentFunction /\ ~InTry

\* The arguments are evaluated before the request is made; one that fails
\* makes none (Raise), and a `<~ f(..)` that does not ask is CallFunction and
\* then Return.  A body run as a value asks like any other.
Ask(f, v) ==
    /\ Running
    /\ Asks(f)
    /\ pending' = TRUE
    /\ args' = v
    /\ asker' = IF Top.kind = "function" THEN Len(frames) ELSE 0
    /\ flow' = "return"
    /\ UNCHANGED <<frames, currentFunction, ended>>

\* `<~ v`: at file level it ends the program.
Return ==
    /\ Running
    /\ flow' = "return"
    /\ UNCHANGED <<frames, currentFunction, pending, args, ended, asker>>

Raise ==
    /\ Running
    /\ flow' = "error"
    /\ UNCHANGED <<frames, currentFunction, pending, args, ended, asker>>

\* is_const: the frame's marks, and what the file declared (global_consts).
IsConst(c) == c \in Top.consts \union frames[1].consts

\* `c := v` in the outermost block of a body; in a `!?` it dies with its block.
Declare(c) ==
    /\ Running
    /\ ~InTry
    /\ ~IsConst(c)
    /\ frames' = Replaced([Top EXCEPT !.consts = @ \union {c}, !.turn = @ \union {c}])
    /\ UNCHANGED <<currentFunction, pending, args, flow, ended, asker>>

\* "constant already declared".
DeclareRefused(c) ==
    /\ Running
    /\ IsConst(c)
    /\ flow' = "error"
    /\ UNCHANGED <<frames, currentFunction, pending, args, ended, asker>>

-----------------------------------------------------------------------------
(* `!?` `:!` `:>`.                                                         *)

EnterTry ==
    /\ Running
    /\ Len(Top.tries) < MaxTries
    /\ frames' = Replaced([Top EXCEPT !.tries = Append(@, [part |-> "body", owed |-> "none"])])
    /\ UNCHANGED <<currentFunction, pending, args, flow, ended, asker>>

\* The body failed and a clause matches.
Catch ==
    /\ ~ended
    /\ flow = "error"
    /\ InTry
    /\ InnermostTry.part = "body"
    /\ frames' = Replaced(WithTry([InnermostTry EXCEPT !.part = "catch"]))
    /\ flow' = "none"
    /\ UNCHANGED <<currentFunction, pending, args, ended, asker>>

\* The body or the clause is over, whichever way: `:>` sets that aside.
RunFinally ==
    /\ ~ended
    /\ InTry
    /\ InnermostTry.part # "finally"
    /\ frames' = Replaced(WithTry([part |-> "finally", owed |-> flow]))
    /\ flow' = "none"
    /\ UNCHANGED <<currentFunction, pending, args, ended, asker>>

\* The same without a `:>`: what is on its way out goes on.
LeaveTry ==
    /\ ~ended
    /\ InTry
    /\ InnermostTry.part # "finally"
    /\ frames' = Replaced(OutOfTry)
    /\ UNCHANGED <<currentFunction, pending, args, flow, ended, asker>>

\* What a `:>` leaves: its own error, or else what it had set aside; its own
\* `<~` is discarded.
AfterFinally == IF flow = "error" THEN "error" ELSE InnermostTry.owed

LeaveFinally ==
    /\ ~ended
    /\ InTry
    /\ InnermostTry.part = "finally"
    /\ frames' = Replaced(OutOfTry)
    /\ flow' = AfterFinally
    /\ UNCHANGED <<currentFunction, pending, args, ended, asker>>

-----------------------------------------------------------------------------
(* Ends of activations.                                                    *)

\* The body is over and nobody in it failed.
BodyOver(kind) == ~ended /\ flow # "error" /\ ~InTry /\ Top.kind = kind

\* The turn of the loop: the parameter is bound again, and that is all.
Restart ==
    /\ BodyOver("function")
    /\ pending
    /\ frames' = Replaced([Top EXCEPT !.arg = args, !.turn = {}])
    /\ pending' = FALSE
    /\ args' = NoFunction
    /\ flow' = "none"
    /\ asker' = 0
    /\ UNCHANGED <<currentFunction, ended>>

FunctionReturns ==
    /\ BodyOver("function")
    /\ ~pending
    /\ frames' = Below
    /\ currentFunction' = Top.caller
    /\ flow' = "none"
    /\ UNCHANGED <<pending, args, ended, asker>>

\* A body run as a value takes the return and leaves the request.
ValueReturns ==
    /\ BodyOver("value")
    /\ frames' = Below
    /\ flow' = "none"
    /\ UNCHANGED <<currentFunction, pending, args, ended, asker>>

\* MUTATION of NameBack: the error path forgets prev_fn.
NameStays(frame) == currentFunction

\* current_function after an activation that failed.
NameBack(frame) == IF frame.kind = "function" THEN frame.caller ELSE currentFunction

CallFails ==
    /\ ~ended
    /\ flow = "error"
    /\ ~InTry
    /\ Top.kind # "file"
    /\ frames' = Below
    /\ currentFunction' = NameBack(Top)
    /\ UNCHANGED <<pending, args, flow, ended, asker>>

\* The file's last statement, a `<~` at file level, or an error nobody caught.
FileEnds ==
    /\ ~ended
    /\ ~InTry
    /\ Top.kind = "file"
    /\ ended' = TRUE
    /\ UNCHANGED <<frames, currentFunction, pending, args, flow, asker>>

-----------------------------------------------------------------------------
Next ==
    \/ CallRefused
    \/ \E f \in Functions, v \in Values : CallFunction(f, v) \/ Ask(f, v)
    \/ \E v \in Values : CallValue(v)
    \/ Return \/ Raise
    \/ \E c \in Names : Declare(c) \/ DeclareRefused(c)
    \/ EnterTry \/ Catch \/ RunFinally \/ LeaveTry \/ LeaveFinally
    \/ Restart \/ FunctionReturns \/ ValueReturns \/ CallFails \/ FileEnds

Spec == Init /\ [][Next]_vars

-----------------------------------------------------------------------------
(* What must hold.                                                         *)

\* A function that asked is the activation that is on its way out, with
\* nothing of it left to run: no other body, no `:>` and no caller can come to
\* its end while its request stands, and no earlier request that was left
\* standing is taken for it (REFERENCE.md:1762, "takes the place of the call
\* that made it"; the flag of lib.rs and the loop of functions_lambda.rs).
\* Of what a body run as a value asks (asker = 0) the code keeps no such
\* promise: the function that ends next grants it.
RequestIsOwn ==
    pending /\ asker # 0 =>
        /\ asker = Len(frames)
        /\ flow = "return"
        /\ ~InTry
        /\ Top.kind = "function"

\* Which activations are functions.
FunctionsIn(s) == {i \in 1 .. Len(s) : s[i].kind = "function"}

\* current_function is the innermost function that runs, whichever way the
\* calls before it ended: a request is only ever made in that one's name.
CurrentIsInnermost ==
    IF FunctionsIn(frames) = {}
    THEN currentFunction = NoFunction
    ELSE \E i \in FunctionsIn(frames) :
            /\ \A j \in FunctionsIn(frames) : j <= i
            /\ currentFunction = frames[i].name
=============================================================================
