------------------------------- MODULE Engines -------------------------------
(***************************************************************************)
(* The two engines on the same program: the register machine runs what the *)
(* compiler makes of it, and what the tree-walker does with it is its      *)
(* meaning.  ZYMBOL_POISON_TEMPS (poison) overwrites every temporary when  *)
(* it is given back.                                                       *)
(***************************************************************************)
EXTENDS Machine, Compiler

CONSTANTS
  Programs,      \* the programs, as syntax trees
  ProgramNames   \* every name in them

VARIABLES
  meaning,    \* what the tree-walker does with the program that runs
  asWritten   \* what it does when no variable is ended at its last use

NotHeld == <<"absent">>

Tree == INSTANCE Walker WITH Names <- ProgramNames, Absent <- NotHeld

EnginesInit ==
  \E p \in Programs, poison \in BOOLEAN :
    /\ image = CompileProgram(p, poison)
    /\ Boot
    /\ meaning = Tree!Meaning(p, TRUE)
    /\ asWritten = Tree!Meaning(p, FALSE)

EnginesNext == Next /\ UNCHANGED <<meaning, asWritten>>

EnginesVars == <<vars, meaning, asWritten>>

EnginesSpec == EnginesInit /\ [][EnginesNext]_EnginesVars /\ WF_EnginesVars(EnginesNext)

Contract == INSTANCE Promise

-----------------------------------------------------------------------------
(* Properties.                                                             *)

(* What frames of a chunk hold from these on, and where.                   *)
RECURSIVE HeldFrom(_, _, _)

HeldFrom(chunk, new, known) ==
  IF new = {} THEN known
  ELSE LET all == known \cup new
           placed == {h \in new : h.at < Len(chunk.code)}
       IN  HeldFrom(chunk, UNION {Onward(chunk.code[h.at + 1], h) : h \in placed} \ all, all)

(* The code the compiler makes, with the dead part of it removed, is what the
   machine trusts it to be: its sizes, so that every initial state here is one
   of Machine, and the handlers of its `!?`s (emit_try_exits), whichever way
   control leaves them.                                                      *)
CodeFits ==
  ip = 0 /\ Len(frames) = 1 =>
    /\ ImageFits(image)
    /\ HandlersKept(image, [f \in DOMAIN image |->
                              HeldFrom(image[f], {Fresh(image[f])}, {})])

(* The register machine prints what the tree-walker prints, in the same
   order, ends the program as it does, and does end it: the compiled program
   implements its meaning (tests/scripts/vm_compare.sh asks as much of the
   programs it runs).                                                        *)
KeepsPromise == Contract!Spec

(* Ending a variable after its last use changes nothing a program can show:
   the schedule of last_use.rs never ends one that is still to be read.      *)
AutoFreeIsInvisible == meaning = asWritten
=============================================================================
