------------------------------- MODULE Scopes -------------------------------
(***************************************************************************)
(* The scope stack of one activation of the tree-walking interpreter       *)
(* (crates/zymbol-interpreter/src/lib.rs), as operators on values.         *)
(*                                                                         *)
(* A scope gives every name its value there, or Absent; a scope stack is a *)
(* sequence of scopes, innermost last.  The source counts scopes from 0    *)
(* and this module from 1, so that place 0 means none.                     *)
(*                                                                         *)
(* A frame is the part of the interpreter a call sets aside                *)
(* (SavedCallState): its scopes, the marks of its open loops, the names a  *)
(* `\` ended together with the scope each was taken from, the module it    *)
(* runs against, and the file whose import aliases are in force.  The      *)
(* field nest lists the constructs the running code is inside of, which    *)
(* the source keeps on the Rust stack.                                     *)
(***************************************************************************)
EXTENDS Naturals, Sequences

CONSTANTS
  Names,   \* the names of variables, parameters and locals
  Absent   \* a scope does not hold the name

EmptyScope == [n \in Names |-> Absent]

Bind(scope, name, value) == [scope EXCEPT ![name] = value]

Unbind(scope, name) == [scope EXCEPT ![name] = Absent]

Held(scope) == {n \in Names : scope[n] # Absent}

(* The scopes of a stack that hold a name, and the innermost of them.      *)
Holders(scopes, name) == {i \in DOMAIN scopes : scopes[i][name] # Absent}

InView(scopes, name) == Holders(scopes, name) # {}

Innermost(scopes, name) ==
  CHOOSE i \in Holders(scopes, name) : \A j \in Holders(scopes, name) : j <= i

ValueOf(scopes, name) == scopes[Innermost(scopes, name)][name]

(***************************************************************************)
(* The first scope that is the frame's own.  In a module frame scope 1 is  *)
(* the module's table.                                                     *)
(***************************************************************************)
Base(f) == IF f.moduleScope THEN 2 ELSE 1

OwnHolders(f, name) == {i \in Holders(f.scopes, name) : i >= Base(f)}

(* A variable of the module the frame runs against, hidden by no local.    *)
IsModuleState(f, name) ==
  /\ f.moduleScope
  /\ f.scopes[1][name] # Absent
  /\ \A i \in Holders(f.scopes, name) : i = 1

-----------------------------------------------------------------------------
(* Opening and closing scopes.                                             *)

PushScope(f, scope) == [f EXCEPT !.scopes = Append(@, scope)]

(* Mutation of PopTo: the ended names keep the places that are gone.       *)
PopToForgettingNothing(f, depth) ==
  IF Len(f.scopes) <= depth THEN f
  ELSE [f EXCEPT !.scopes = SubSeq(@, 1, depth)]

(***************************************************************************)
(* pop_scope until the stack has `depth` scopes: a name ended in a scope   *)
(* that closes dies with it.                                               *)
(***************************************************************************)
PopTo(f, depth) ==
  IF Len(f.scopes) <= depth THEN f
  ELSE [f EXCEPT !.scopes = SubSeq(@, 1, depth),
                 !.dead = [n \in Names |-> IF @[n] <= depth THEN @[n] ELSE 0]]

(* pop_scope never takes the last scope.                                   *)
PopScope(f) ==
  PopTo(f, IF Len(f.scopes) > 1 THEN Len(f.scopes) - 1 ELSE 1)

-----------------------------------------------------------------------------
(* Writing.  A state here is a record of the store of the modules that are *)
(* not running, the running frame and module_dead, so that the steps of    *)
(* one handler compose.                                                    *)

(* Mutation of Place: a revived name goes where it is assigned.            *)
PlaceInCurrentBlock(f, moduleDead, name) ==
  IF InView(f.scopes, name) THEN Innermost(f.scopes, name)
  ELSE IF name \in moduleDead THEN 1 ELSE Len(f.scopes)

(* Mutation of Place: a module's ended variable is not the module's.       *)
PlaceIgnoringModule(f, moduleDead, name) ==
  IF InView(f.scopes, name) THEN Innermost(f.scopes, name)
  ELSE IF f.dead[name] \in DOMAIN f.scopes
       THEN f.dead[name] ELSE Len(f.scopes)

(***************************************************************************)
(* The scope an assignment writes: where the name is in view; else where a *)
(* `\` of this frame took it from; else, for a variable of the module that *)
(* a `\` ended, the module's table; else the current block.                *)
(***************************************************************************)
Place(f, moduleDead, name) ==
  IF InView(f.scopes, name) THEN Innermost(f.scopes, name)
  ELSE IF f.dead[name] \in DOMAIN f.scopes
       THEN f.dead[name]
  ELSE IF name \in moduleDead THEN 1
  ELSE Len(f.scopes)

(* Whether that assignment takes the name out of module_dead.              *)
RevivesModule(f, moduleDead, name) ==
  /\ ~ InView(f.scopes, name)
  /\ f.dead[name] \notin DOMAIN f.scopes
  /\ name \in moduleDead

(* set_variable *)
SetVariable(s, name, value) ==
  LET f == s.frame
      at == Place(f, s.moduleDead, name)
  IN  [s EXCEPT
        !.frame = [f EXCEPT !.scopes[at] = Bind(@, name, value),
                            !.dead[name] = 0],
        !.moduleDead = IF RevivesModule(f, @, name) THEN @ \ {name} ELSE @]

(* set_variable_new: into the current scope, without looking further out.  *)
SetVariableNew(f, name, value) ==
  [f EXCEPT !.scopes[Len(f.scopes)] = Bind(@, name, value),
            !.dead[name] = 0]

(* Where `x°` and `°x` put a name that is not in view yet.                 *)
NearestLoop(f) ==
  IF f.loops = <<>> THEN Base(f) ELSE f.loops[Len(f.loops)]

AboveNearestLoop(f) ==
  IF Len(f.loops) >= 2 THEN f.loops[Len(f.loops) - 1] ELSE Base(f)

SetAt(f, at, name, value) == [f EXCEPT !.scopes[at] = Bind(@, name, value)]

(***************************************************************************)
(* take_variable: the value of a name of the frame's own scopes, else the  *)
(* default the caller substitutes.                                         *)
(***************************************************************************)
TakeVariable(f, name, default) ==
  IF OwnHolders(f, name) = {} THEN default ELSE ValueOf(f.scopes, name)

-----------------------------------------------------------------------------
(* Ending a variable with `\`.                                             *)

(* A use of the name, or a second `\`, is a use after destruction.         *)
IsEnded(f, moduleDead, name) ==
  \/ f.dead[name] # 0
  \/ name \in moduleDead /\ OwnHolders(f, name) = {}

(* Reading the name gives a value, rather than an error.                   *)
Readable(f, moduleDead, name) ==
  InView(f.scopes, name) /\ ~ IsEnded(f, moduleDead, name)

(***************************************************************************)
(* destroy_variable: the frame's own name is ended in the frame, where it  *)
(* was innermost; a module's variable is ended for the module.             *)
(***************************************************************************)
Destroy(s, name) ==
  LET f == s.frame
      at == Innermost(f.scopes, name)
      without == [f EXCEPT !.scopes[at] = Unbind(@, name)]
  IN  IF OwnHolders(f, name) # {}
      THEN [s EXCEPT !.frame = [without EXCEPT !.dead[name] = at]]
      ELSE [s EXCEPT !.frame = without, !.moduleDead = @ \cup {name}]
=============================================================================
