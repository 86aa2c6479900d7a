------------------------------ MODULE Bytecode ------------------------------
(***************************************************************************)
(* The instructions the compiler hands to the register machine             *)
(* (crates/zymbol-bytecode/src/lib.rs), and what a well-formed image of    *)
(* them is.                                                                *)
(*                                                                         *)
(* Every instruction is a record of the same fields: op; the registers it  *)
(* writes (d) and reads (a, b, c, args); an immediate value (v); a jump    *)
(* target (to), counted from 0 as in the source; the function it calls     *)
(* (fn); and the output arguments of the call that follows (pairs of a     *)
(* parameter's place, from 0, and the caller's register).                  *)
(***************************************************************************)
EXTENDS Values, Sequences

NoReg == -1        \* this operand is not used
NoHandler == -1    \* u32::MAX in the source

Main == "<main>"

(* What TryBegin packs: how many errors were pending, and the handler.     *)
SavedV(keep, outer) == <<"save", keep, outer>>

(* The handler and the pending errors a save register remembers; a         *)
(* register that holds anything else means none.                           *)
SavedHandler(v) == IF v[1] = "save" THEN v[3] ELSE NoHandler
SavedPending(v) == IF v[1] = "save" THEN v[2] ELSE 0

Ins(op) ==
  [op |-> op, d |-> NoReg, a |-> NoReg, b |-> NoReg, c |-> NoReg, v |-> Unit,
   to |-> 0, fn |-> Main, args |-> <<>>, pairs |-> <<>>]

Load(d, v) == [Ins("Load") EXCEPT !.d = d, !.v = v]
CopyReg(d, a) == [Ins("CopyReg") EXCEPT !.d = d, !.a = a]

(* d := a op b, and d := a op an immediate.                                *)
Binary(op, d, a, b) == [Ins(op) EXCEPT !.d = d, !.a = a, !.b = b]
BinaryImm(op, d, a, v) == [Ins(op) EXCEPT !.d = d, !.a = a, !.v = v]
UnaryOp(op, d, a) == [Ins(op) EXCEPT !.d = d, !.a = a]

MakeError(d, kind, a) == [Ins("MakeError") EXCEPT !.d = d, !.a = a, !.v = TextV(kind)]
RequireBool(a) == [Ins("RequireBool") EXCEPT !.a = a]

JumpTo(to) == [Ins("Jump") EXCEPT !.to = to]
JumpOn(op, a, to) == [Ins(op) EXCEPT !.a = a, !.to = to]

(* Advance the counter a by the step c within the bound b; d is forward?.  *)
RangeStep(cnt, end, step, fwd, to) ==
  [Ins("RangeStep") EXCEPT !.a = cnt, !.b = end, !.c = step, !.d = fwd, !.to = to]

PrintReg(a) == [Ins("Print") EXCEPT !.a = a]

CallFn(d, fn, args) == [Ins("Call") EXCEPT !.d = d, !.fn = fn, !.args = args]
TailCallFn(fn, args) == [Ins("TailCall") EXCEPT !.fn = fn, !.args = args]
SetupWriteback(pairs) == [Ins("SetupOutputWriteback") EXCEPT !.pairs = pairs]
ReturnReg(a) == [Ins("Return") EXCEPT !.a = a]
Halt == Ins("Halt")

(* DestroyLocal, CheckAlive and Revive.                                    *)
OnLocal(op, a) == [Ins(op) EXCEPT !.a = a]

TryBegin(to, save) == [Ins("TryBegin") EXCEPT !.d = save, !.to = to]
TryEnd(save) == [Ins("TryEnd") EXCEPT !.a = save]
TryLand(save, err) == [Ins("TryLand") EXCEPT !.a = save, !.d = err]
TryHandled(save) == [Ins("TryHandled") EXCEPT !.a = save]
TryRethrow(save) == [Ins("TryRethrow") EXCEPT !.a = save]
LoadErrorKind(d) == [Ins("LoadErrorKind") EXCEPT !.d = d]

-----------------------------------------------------------------------------
(* Images.  A chunk has its code, how many registers its frames get, and   *)
(* how many of those are parameters.                                       *)

Chunk(code, nregs, params) == [code |-> code, nregs |-> nregs, params |-> params]

Registers(i) ==
  ({i.d, i.a, i.b, i.c} \cup {i.args[n] : n \in DOMAIN i.args}
     \cup {i.pairs[n][2] : n \in DOMAIN i.pairs}) \ {NoReg}

Jumps == {"Jump", "JumpIf", "JumpIfNot", "JumpIfNotCond", "RangeStep", "TryBegin"}

FallsThrough(i) == i.op \notin {"Jump", "Return", "TailCall", "Halt"}

InstructionFits(image, f, n) ==
  LET code == image[f].code
      i == code[n]
  IN  /\ \A r \in Registers(i) : r \in 0..(image[f].nregs - 1)
      /\ i.op \in Jumps => i.to \in 0..(Len(code) - 1)
      /\ i.op \in {"Call", "TailCall"} =>
           /\ i.fn \in DOMAIN image \ {Main}
           /\ Len(i.args) = image[i.fn].params
      /\ FallsThrough(i) => n < Len(code)

(***************************************************************************)
(* Every register is one of its frame's, every jump lands on code, every   *)
(* call passes as many arguments as the function has parameters, and no    *)
(* code runs off its end.                                                  *)
(***************************************************************************)
ChunkFits(image, f) ==
  /\ image[f].nregs \in Nat
  /\ image[f].params \in 0..image[f].nregs
  /\ \A n \in DOMAIN image[f].code : InstructionFits(image, f, n)

ImageFits(image) ==
  /\ Main \in DOMAIN image
  /\ \A f \in DOMAIN image : ChunkFits(image, f)

-----------------------------------------------------------------------------
(* What the machine trusts the code of a `!?` to be.  TryEnd and TryLand arm *)
(* whatever the register they name remembers, and nothing looks at the      *)
(* handler or at the pending errors when a frame is left: that both are     *)
(* gone by then is for the code to see to (emit_try_exits).  So the code is *)
(* run over what a frame holds for its handlers instead of over values:     *)
(* the place in the chunk, the armed handler, whose the pending errors are, *)
(* what each register remembers of a handler (Unit: nothing), and what is   *)
(* lent to the call that follows.                                           *)
Holding(at, catch, tags, saves, lent) ==
  [at |-> at, catch |-> catch, tags |-> tags, saves |-> saves, lent |-> lent]

Saving(v) == IF v[1] = "save" THEN v ELSE Unit
Tags(pending) == [n \in 1..Len(pending) |-> pending[n].tag]
ButLast(s) == SubSeq(s, 1, Len(s) - 1)

(* A frame as it begins.                                                   *)
Fresh(chunk) ==
  Holding(0, NoHandler, <<>>, [r \in 0..(chunk.nregs - 1) |-> Unit], <<>>)

(* The registers an instruction writes, those whose values it moves, and   *)
(* those that are lent.                                                    *)
Writes(i) ==
  CASE i.op \in {"Load", "CopyReg", "CmpEq", "And", "Or", "IsInt", "IsError", "MakeError",
                 "AsLoopCond", "LoadErrorKind", "Call", "TryLand"} \cup Arithmetic \cup Order -> {i.d}
    [] i.op \in {"RangeStep", "DestroyLocal"} -> {i.a}
    [] OTHER -> {}

Moves(i) ==
  CASE i.op \in {"CopyReg", "Return"} -> {i.a}
    [] i.op \in {"Call", "TailCall"} -> {i.args[n] : n \in DOMAIN i.args}
    [] OTHER -> {}

Given(pairs) == {pairs[n][2] : n \in DOMAIN pairs}

Without(saves, R) == [r \in DOMAIN saves |-> IF r \in R THEN Unit ELSE saves[r]]

(* The caller lets go of what it lends, and gets other values back.        *)
Lends(h) == Holding(h.at, h.catch, h.tags, Without(h.saves, Given(h.lent)), <<>>)

IsOurs(i, tags) == tags # <<>> /\ tags[Len(tags)] = i.a

(* What a frame holds after an instruction that ends and goes on at n.     *)
CatchAfter(i, h) ==
  CASE i.op = "TryBegin" -> i.to
    [] i.op \in {"TryEnd", "TryLand"} -> SavedHandler(h.saves[i.a])
    [] OTHER -> h.catch

TagsAfter(i, h) ==
  CASE i.op = "TryLand" -> Append(SubSeq(h.tags, 1, SavedPending(h.saves[i.a])), i.a)
    [] i.op = "TryHandled" /\ IsOurs(i, h.tags) -> ButLast(h.tags)
    [] OTHER -> h.tags

SavesAfter(i, h) ==
  CASE i.op = "TryBegin" -> [h.saves EXCEPT ![i.d] = SavedV(Len(h.tags), h.catch)]
    [] i.op = "Call" -> Without(h.saves, Given(h.lent) \cup Writes(i))
    [] OTHER -> Without(h.saves, Writes(i))

LentAfter(i, h) ==
  CASE i.op = "SetupOutputWriteback" -> i.pairs
    [] i.op = "Call" -> <<>>
    [] OTHER -> h.lent

Ended(i, h, n) == Holding(n, CatchAfter(i, h), TagsAfter(i, h), SavesAfter(i, h), LentAfter(i, h))

GoesTo(i, h) ==
  (IF FallsThrough(i) /\ ~ (i.op = "TryRethrow" /\ IsOurs(i, h.tags)) THEN {h.at + 1} ELSE {})
    \cup (IF i.op \in Jumps \ {"TryBegin"} THEN {i.to} ELSE {})

(* What it holds when the instruction raises, or its callee does, and how  *)
(* it lands.                                                               *)
Raised(i, h) ==
  CASE i.op = "TryRethrow" /\ IsOurs(i, h.tags) ->
         Holding(h.at, h.catch, ButLast(h.tags), h.saves, h.lent)
    [] i.op = "Call" -> Lends(h)
    [] OTHER -> h

Landed(h) ==
  IF h.catch = NoHandler THEN {} ELSE {Holding(h.catch, NoHandler, h.tags, h.saves, h.lent)}

Onward(i, h) == {Ended(i, h, n) : n \in GoesTo(i, h)} \cup Landed(Raised(i, h))

(* What must be so when instruction i runs in a frame that holds h: what it *)
(* remembers of a handler stays where it is, a register that says what to  *)
(* arm says so of no more errors than there are, what is lent is lent to a *)
(* call, only an error comes to a TryLand, and a frame that is left has    *)
(* nothing open.                                                           *)
Sound(image, chunk, i, h) ==
  /\ Writes(i) \cup Moves(i) \subseteq DOMAIN h.saves
  /\ \A r \in Moves(i) \cup 0..(chunk.params - 1) : h.saves[r] = Unit
  /\ i.op = "Load" => Saving(i.v) = Unit
  /\ i.op = "TryBegin" => i.d \in DOMAIN h.saves
  /\ i.op \in {"TryEnd", "TryLand"} =>
       i.a \in DOMAIN h.saves /\ SavedPending(h.saves[i.a]) \in 0..Len(h.tags)
  /\ h.lent \in Seq(Nat \X DOMAIN h.saves)
  /\ h.lent # <<>> => i.op = "Call" /\ \A n \in DOMAIN h.lent : h.lent[n][1] < Len(i.args)
  /\ i.op \in {"Return", "TailCall", "Halt"} => h.catch = NoHandler /\ h.tags = <<>>
  /\ i.op = "TailCall" => image[i.fn].params >= chunk.params
  /\ \A n \in GoesTo(i, h) : chunk.code[n + 1].op # "TryLand"

(* K[f] is what frames of f may hold, and where.                           *)
HandlersKept(image, K) ==
  /\ DOMAIN K = DOMAIN image
  /\ \A f \in DOMAIN image :
       /\ Fresh(image[f]) \in K[f]
       /\ image[f].code[1].op # "TryLand"
       /\ \A h \in K[f] :
            /\ h.at + 1 \in DOMAIN image[f].code
            /\ LET i == image[f].code[h.at + 1]
               IN  Sound(image, image[f], i, h) /\ Onward(i, h) \subseteq K[f]
=============================================================================
