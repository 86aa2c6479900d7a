------------------------------ MODULE Promise ------------------------------
(***************************************************************************)
(* What a program's user is promised, whichever engine runs it: the values *)
(* its meaning prints, in order and one at a time, and then its end.       *)
(***************************************************************************)
EXTENDS Sequences, Naturals

CONSTANT Running   \* it has not ended

VARIABLES
  meaning,   \* what the program prints and how it ends
  said,      \* what it has printed
  outcome    \* how it ended, or Running

vars == <<meaning, said, outcome>>

Init ==
  /\ said = <<>>
  /\ outcome = Running

SayNext ==
  /\ outcome = Running
  /\ Len(said) < Len(meaning.said)
  /\ said' = Append(said, meaning.said[Len(said) + 1])
  /\ UNCHANGED <<meaning, outcome>>

End ==
  /\ outcome = Running
  /\ said = meaning.said
  /\ outcome' = meaning.outcome
  /\ UNCHANGED <<meaning, said>>

Next == SayNext \/ End

Spec == Init /\ [][Next]_vars /\ WF_vars(Next)
=============================================================================
