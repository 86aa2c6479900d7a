----------------------------- MODULE MCCaptures -----------------------------
(* Bodies for Captures: one place inside another with a read in it, a      *)
(* write in one place and a read in another, and a write in a place of a   *)
(* block that goes on to read.                                             *)
EXTENDS Captures

MCNames == {"x", "i", "_err"}

Read(x) == Node("read", x, <<>>)
Text(x) == Node("text", x, <<>>)
Write(x) == Node("assign", x, <<Part("value", {}, <<>>)>>)

(* Where a block of statements may stand, and where only an expression.    *)
BlockPlaces == {p \in Places : p[2] \in BlockRoles}
ExprKinds == {"op", "shell", "lambda", "match"}

Fits(place, n) ==
  \/ place[2] \in BlockRoles
  \/ n.k \in ExprKinds \cup {"read", "text"} /\ place # <<"input", "prompt">>

(***************************************************************************)
(* The places each walk overlooks.  A name that is read there and nowhere  *)
(* else is not copied: the lambda does not find it, or reads what its      *)
(* caller calls so.  Bodies of that kind are left out; both lists are read *)
(* from the source, one line for each, and not from the walks of Captures, *)
(* so that a walk that overlooks one more place is found out.              *)
(*                                                                         *)
(* collect_refs_in_expr and collect_refs_in_stmts, functions_lambda.rs.    *)
(***************************************************************************)
OverlookedByTree ==
  {<<"if", "elifCondition">>, <<"if", "elif">>, <<"if", "else">>} \* 1113-1117
    \cup {<<"while", "condition">>, <<"each", "iterable">>}        \* 1123-1126
    \cup {<<"match", "pattern">>}                                 \* 886-895
    \cup {<<"choose", role>> : role \in {"scrutinee", "pattern",  \* 1130
                                         "value", "body"}}
    \cup {<<"try", "body">>, <<"try", "clause">>, <<"try", "finally">>} \* 1130
    \cup {<<"tui", "body">>, <<"screen", "items">>}               \* 1130
    \cup {<<"input", "prompt">>}                                  \* 1130
    \cup {<<"shell", "args">>}                                    \* 1054

(* collect_free_in_expr, collect_free_in_stmts: lib.rs of zymbol-compiler, *)
(* 5848 and 5978.                                                          *)
OverlookedByMachine == {<<"shell", "args">>, <<"input", "prompt">>}

(* One place inside another, with a read in it.                            *)
Deep(seen) ==
  UNION {LET inner == Plug(p, <<Read(x)>>)
         IN  {<<Plug(q, <<inner>>)>> : q \in {r \in seen : Fits(r, inner)}} :
           p \in seen, x \in MCNames}

(* A name is stored in any block, or read in any place, and read again     *)
(* where the walk does look.                                               *)
OneAfterTheOther(seen) ==
  {<<Plug(p, <<Write("x")>>), Plug(q, <<Text("x")>>)>> :
     p \in BlockPlaces, q \in seen}
  \cup {<<Plug(p, <<Read("x")>>), Plug(q, <<Read("x")>>)>> :
          p \in {r \in Places : Fits(r, Read("x"))}, q \in seen}

InsideAndOn(seen) ==
  {<<Plug(p, <<Plug(q, <<Write("x")>>), Read("x")>>)>> :
     p \in seen \cap BlockPlaces, q \in BlockPlaces}

Bodies(overlooked) ==
  LET seen == Places \ overlooked
  IN  Deep(seen) \cup OneAfterTheOther(seen) \cup InsideAndOn(seen)

(* A body that is one expression may also be the body of an expression.    *)
LambdasOf(engine, bodies) ==
  {[engine |-> engine, block |-> b, in |-> body] : b \in BOOLEAN, body \in bodies}
    \ {[engine |-> engine, block |-> FALSE, in |-> body] :
         body \in {c \in bodies : Len(c) > 1 \/ c[1].k \notin ExprKinds}}

(* Every lambda that reads no outer name in an overlooked place alone.     *)
WithinItsWalk ==
  LambdasOf("tree", Bodies(OverlookedByTree))
    \cup LambdasOf("machine", Bodies(OverlookedByMachine))

=============================================================================
