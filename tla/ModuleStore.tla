---------------------------- MODULE ModuleStore ----------------------------
(***************************************************************************)
(* What the language promises about a module's state (GUIDE.md section     *)
(* "Modules", AGENTIC.md): a module has one environment, a cell for each   *)
(* variable it declares, that only the module's own code changes, one      *)
(* variable at a time, and that keeps its contents from one call of the    *)
(* module's functions to the next, however the calls end.                  *)
(***************************************************************************)
CONSTANTS Modules, Outside, Declared, Values, Initial, Unit, Ended

VARIABLES cells, running

storeVars == <<cells, running>>

CellValues == Values \cup {Unit, Ended}

StoreTypeOK ==
  /\ DOMAIN cells = Modules
  /\ \A m \in Modules : cells[m] \in [Declared[m] -> CellValues]
  /\ running \in Modules \cup {Outside}

Init ==
  /\ cells = [m \in Modules |-> [n \in Declared[m] |-> Initial]]
  /\ running = Outside

(* Code of the module assigns one of its variables, or ends it.            *)
Write(m, n, value) ==
  /\ cells' = [cells EXCEPT ![m][n] = value]
  /\ running' = m

(* Control passes to other code, or stays, and no state changes.           *)
Pass(code) ==
  /\ running' = code
  /\ UNCHANGED cells

Next ==
  \/ \E m \in Modules : \E n \in Declared[m], v \in CellValues : Write(m, n, v)
  \/ \E code \in Modules \cup {Outside} : Pass(code)

Spec == Init /\ [][Next]_storeVars
=============================================================================
