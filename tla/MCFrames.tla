------------------------------ MODULE MCFrames ------------------------------
(* Instances of Frames for TLC. *)
EXTENDS Frames

CONSTANTS m1, m2, x, y, v1, v2

(* The main file imports every module; m1 imports m2. *)
MCImports == [f \in Files |-> IF f = Script THEN Modules
                              ELSE IF f = m1 THEN Modules \ {m1} ELSE {}]

(* Every module declares x; y is a parameter or a local there. *)
MCDeclared == [m \in Modules |-> {x}]

(* f() and f(x<~ x). *)
LendingSignatures == {[in |-> {}, out |-> {}], [in |-> {}, out |-> {<<x, x>>}]}

(* f(x) too. *)
PassingSignatures == LendingSignatures \cup {[in |-> {x}, out |-> {}]}

MCHoldsX == {{x}}

MCHoldsNone == {{}}
=============================================================================
