------------------------------ MODULE Machine ------------------------------
(***************************************************************************)
(* The register machine (crates/zymbol-vm/src/lib.rs): one flat stack of   *)
(* registers, cut into frames, and an error that travels down the frames   *)
(* to the nearest armed handler.                                           *)
(*                                                                         *)
(* An action is one instruction.  An error is carried to its handler one   *)
(* frame at a time: between two of those steps `raising` is its kind, and  *)
(* nothing else runs.  A frame below the top keeps the place it goes on    *)
(* from; the running frame's is ip.                                        *)
(***************************************************************************)
EXTENDS Bytecode, FiniteSets

CONSTANT MaxCalls   \* MAX_ACTIVE_CALLS

ASSUME MaxCallsIsNat == MaxCalls \in Nat

VARIABLES
  image,      \* the compiled program
  regs,       \* value_stack: every frame's registers
  height,     \* its length
  frames,     \* frame_stack, the running frame last
  ip,         \* the next instruction of the running frame
  writeback,  \* pending_output_writeback, for the call that follows
  raising,    \* the kind of the error on its way, or NoError
  inFlight,   \* the kind of the error that reached a handler, until TryLand
  dead,       \* destroyed_slots
  said,       \* what the program has printed
  outcome     \* how it ended, or Running

vars == <<image, regs, height, frames, ip, writeback, raising, inFlight,
          dead, said, outcome>>

(* FrameInfo.  pending holds the errors that have landed and have not been *)
(* dealt with, each under the register of the `!?` that caught it.         *)
Frame(base, chunk, ret, wb) ==
  [base |-> base, ip |-> 0, chunk |-> chunk, ret |-> ret, catch |-> NoHandler,
   pending |-> <<>>, wb |-> wb]

Pending(tag, kind) == [tag |-> tag, kind |-> kind]

-----------------------------------------------------------------------------
Top == frames[Len(frames)]
ChunkOf(f) == image[f.chunk]
Code == ChunkOf(Top).code
Instr == Code[ip + 1]

Reg(r) == regs[Top.base + r]
Put(r, v) == [regs EXCEPT ![Top.base + r] = v]

(* grow_regs: new registers hold Unit.                   *)
Grow(rs, from, to) == [s \in 0..(to - 1) |-> IF s < from THEN rs[s] ELSE Unit]

OnTop(f) == [frames EXCEPT ![Len(frames)] = f]
PopFrame == SubSeq(frames, 1, Len(frames) - 1)

(* What a frame at base `from` gives back of the pairs it was lent, as its *)
(* caller at base `to` finds it in slot s.                                 *)
GivenBack(pairs, from, to, s, default) ==
  LET here == {i \in DOMAIN pairs : to + pairs[i][2] = s}
  IN  IF here = {} THEN default
      ELSE regs[from + pairs[CHOOSE i \in here : \A j \in here : j <= i][1]]

(* The program's image is loaded: a frame for the file body.               *)
Boot ==
  /\ height = image[Main].nregs
  /\ regs = [s \in 0..(height - 1) |-> Unit]
  /\ frames = <<Frame(0, Main, 0, <<>>)>>
  /\ ip = 0
  /\ writeback = <<>>
  /\ raising = NoError
  /\ inFlight = NoError
  /\ dead = {}
  /\ said = <<>>
  /\ outcome = Running

(* The machine trusts the compiler and checks none of this.               *)
Init == ImageFits(image) /\ Boot

-----------------------------------------------------------------------------
(* Steps shared by the instructions.                                       *)

Runs(op) ==
  /\ outcome = Running
  /\ raising = NoError
  /\ ip + 1 \in DOMAIN Code
  /\ Instr.op = op

Next1 == ip' = ip + 1

Raise(kind) ==
  /\ raising' = kind
  /\ UNCHANGED <<image, regs, height, frames, ip, writeback, inFlight, dead,
                 said, outcome>>

(* The instruction only writes a register.                                 *)
Write(r, v) ==
  /\ regs' = Put(r, v)
  /\ Next1
  /\ UNCHANGED <<image, height, frames, writeback, raising, inFlight, dead,
                 said, outcome>>

Goto(to) ==
  /\ ip' = to
  /\ UNCHANGED <<image, regs, height, frames, writeback, raising, inFlight,
                 dead, said, outcome>>

(* The instruction only changes the running frame.                         *)
SetTop(f) ==
  /\ frames' = OnTop(f)
  /\ Next1
  /\ UNCHANGED <<image, regs, height, writeback, raising, inFlight, dead,
                 said, outcome>>

-----------------------------------------------------------------------------
(* Values.  An immediate operand stands in the instruction.                *)

Operand2 == IF Instr.b = NoReg THEN Instr.v ELSE Reg(Instr.b)

ArithmeticOrOrder ==
  \E op \in Arithmetic \cup Order :
    /\ Runs(op)
    /\ IF ~ IsInt(Reg(Instr.a)) \/ ~ IsInt(Operand2) THEN Raise("Type")
       ELSE IF op = "DivInt" /\ Operand2[2] = 0 THEN Raise("Div")
       ELSE Write(Instr.d, Calculate(op, Reg(Instr.a)[2], Operand2[2]))

CmpEq == Runs("CmpEq") /\ Write(Instr.d, BoolV(Reg(Instr.a) = Operand2))

Logic ==
  \E op \in {"And", "Or"} :
    /\ Runs(op)
    /\ IF ~ IsBool(Reg(Instr.a)) \/ ~ IsBool(Reg(Instr.b)) THEN Raise("Type")
       ELSE Write(Instr.d,
              BoolV(IF op = "And" THEN Reg(Instr.a)[2] /\ Reg(Instr.b)[2]
                    ELSE Reg(Instr.a)[2] \/ Reg(Instr.b)[2]))

RequireBoolOperand ==
  /\ Runs("RequireBool")
  /\ IF IsBool(Reg(Instr.a)) THEN Goto(ip + 1) ELSE Raise("Type")

LoadValue == Runs("Load") /\ Write(Instr.d, Instr.v)
Copy == Runs("CopyReg") /\ Write(Instr.d, Reg(Instr.a))
TestInt == Runs("IsInt") /\ Write(Instr.d, BoolV(IsInt(Reg(Instr.a))))
TestError == Runs("IsError") /\ Write(Instr.d, BoolV(IsError(Reg(Instr.a))))
ConstructError == Runs("MakeError") /\ Write(Instr.d, ErrorV(Instr.v[2]))

AsLoopCond ==
  /\ Runs("AsLoopCond")
  /\ IF IsBool(Reg(Instr.a)) THEN Write(Instr.d, Reg(Instr.a)) ELSE Raise("_")

-----------------------------------------------------------------------------
(* Jumps.  JumpIf and JumpIfNot take any value (is_truthy).                *)

Truthy(v) ==
  CASE IsBool(v) -> v[2]
    [] IsInt(v) -> v[2] # 0
    [] OTHER -> v # Unit

Jump == Runs("Jump") /\ Goto(Instr.to)

JumpIf ==
  \/ Runs("JumpIf") /\ Goto(IF Truthy(Reg(Instr.a)) THEN Instr.to ELSE ip + 1)
  \/ Runs("JumpIfNot") /\ Goto(IF Truthy(Reg(Instr.a)) THEN ip + 1 ELSE Instr.to)

JumpIfNotCond ==
  /\ Runs("JumpIfNotCond")
  /\ IF ~ IsBool(Reg(Instr.a)) THEN Raise("Type")
     ELSE Goto(IF Reg(Instr.a)[2] THEN ip + 1 ELSE Instr.to)

(* The counter goes round while it is within the bound.                    *)
RangeStepOn ==
  /\ Runs("RangeStep")
  /\ LET cnt == Reg(Instr.a)
         end == Reg(Instr.b)
         forward == Reg(Instr.d) = BoolV(TRUE)
         next == IF forward THEN cnt[2] + Reg(Instr.c)[2] ELSE cnt[2] - Reg(Instr.c)[2]
         again == IF forward THEN next <= end[2] ELSE next >= end[2]
     IN  IF ~ (IsInt(cnt) /\ IsInt(end) /\ IsInt(Reg(Instr.c))) THEN Raise("Type")
         ELSE /\ ip' = IF again THEN Instr.to ELSE ip + 1
              /\ regs' = IF again THEN Put(Instr.a, IntV(next)) ELSE regs
              /\ UNCHANGED <<image, height, frames, writeback, raising,
                             inFlight, dead, said, outcome>>

PrintValue ==
  /\ Runs("Print")
  /\ said' = Append(said, Reg(Instr.a))
  /\ Next1
  /\ UNCHANGED <<image, regs, height, frames, writeback, raising, inFlight,
                 dead, outcome>>

-----------------------------------------------------------------------------
(* Calls.                                                                  *)

SetupOutputWriteback ==
  /\ Runs("SetupOutputWriteback")
  /\ writeback' = Instr.pairs
  /\ Next1
  /\ UNCHANGED <<image, regs, height, frames, raising, inFlight, dead, said,
                 outcome>>

(* Mutation of FrameSize: room for the arguments only.                     *)
FrameSizeOfArgs(fn) == image[fn].params

FrameSize(fn) == image[fn].nregs

(* forget_destroyed_from *)
ForgetFrom(base) == {s \in dead : s < base}

(* The registers when a call starts: the callee's hold its arguments, and  *)
(* the caller lets go of what it lends.                                    *)
Entered(base, nregs) ==
  [s \in 0..(base + nregs - 1) |->
     IF s >= base
     THEN IF s - base < Len(Instr.args) THEN Reg(Instr.args[s - base + 1]) ELSE Unit
     ELSE IF \E i \in DOMAIN writeback : Top.base + writeback[i][2] = s THEN Unit
     ELSE regs[s]]

CallFunction ==
  /\ Runs("Call")
  /\ IF Len(frames) > MaxCalls THEN Raise("Depth")
     ELSE LET nregs == FrameSize(Instr.fn) IN
          /\ regs' = Entered(height, nregs)
          /\ height' = height + nregs
          /\ dead' = ForgetFrom(height)
          /\ frames' = Append(OnTop([Top EXCEPT !.ip = ip + 1]),
                              Frame(height, Instr.fn, Instr.d, writeback))
          /\ writeback' = <<>>
          /\ ip' = 0
          /\ UNCHANGED <<image, raising, inFlight, said, outcome>>

(* The frame stays and so does what it was lent; its registers are those   *)
(* of the new turn.  The arguments are moved out one after the other, so a *)
(* register passed twice is Unit the second time.                          *)
Staged(n) ==
  IF \E m \in 1..(n - 1) : Instr.args[m] = Instr.args[n] THEN Unit
  ELSE Reg(Instr.args[n])

TailCall ==
  /\ Runs("TailCall")
  /\ LET base == Top.base
         top == base + FrameSize(Instr.fn)
         size == IF top > height THEN top ELSE height
     IN  /\ regs' = [s \in 0..(size - 1) |->
                       IF s < base \/ s >= top THEN Grow(regs, height, size)[s]
                       ELSE IF s - base < Len(Instr.args) THEN Staged(s - base + 1)
                       ELSE Unit]
         /\ height' = size
  /\ frames' = OnTop([Top EXCEPT !.chunk = Instr.fn, !.catch = NoHandler])
  /\ ip' = 0
  /\ UNCHANGED <<image, writeback, raising, inFlight, dead, said, outcome>>

(* Return: the result first, then what the frame was lent.                 *)
ReturnToCaller ==
  /\ Runs("Return")
  /\ Len(frames) > 1
  /\ LET caller == frames[Len(frames) - 1]
         result == Reg(Instr.a)
         base == Top.base
     IN  /\ regs' = [s \in 0..(base - 1) |->
                       GivenBack(Top.wb, base, caller.base, s,
                         IF s = caller.base + Top.ret THEN result ELSE regs[s])]
         /\ height' = base
         /\ ip' = caller.ip
         /\ frames' = PopFrame
  /\ UNCHANGED <<image, writeback, raising, inFlight, dead, said, outcome>>

(* A `<~` of the file body ends the program; an error it carries ends it   *)
(* as an error.                                                            *)
ReturnFromMain ==
  /\ Runs("Return")
  /\ Len(frames) = 1
  /\ outcome' = IF IsError(Reg(Instr.a)) THEN Failed(Reg(Instr.a)[2])
                ELSE Exit(Reg(Instr.a))
  /\ frames' = PopFrame
  /\ UNCHANGED <<image, regs, height, ip, writeback, raising, inFlight, dead, said>>

HaltProgram ==
  /\ Runs("Halt")
  /\ outcome' = Done
  /\ UNCHANGED <<image, regs, height, frames, ip, writeback, raising,
                 inFlight, dead, said>>

-----------------------------------------------------------------------------
(* Names a `\` ends, by the slot they live in.                             *)

Slot == Top.base + Instr.a

DestroyLocal ==
  /\ Runs("DestroyLocal")
  /\ IF Slot \in dead THEN Raise("_")
     ELSE /\ dead' = dead \cup {Slot}
          /\ regs' = Put(Instr.a, Unit)
          /\ Next1
          /\ UNCHANGED <<image, height, frames, writeback, raising, inFlight,
                         said, outcome>>

CheckAlive ==
  /\ Runs("CheckAlive")
  /\ IF Slot \in dead THEN Raise("_") ELSE Goto(ip + 1)

Revive ==
  /\ Runs("Revive")
  /\ dead' = dead \ {Slot}
  /\ Next1
  /\ UNCHANGED <<image, regs, height, frames, writeback, raising, inFlight,
                 said, outcome>>

-----------------------------------------------------------------------------
(* `!?` *)

ArmHandler ==
  /\ Runs("TryBegin")
  /\ frames' = OnTop([Top EXCEPT !.catch = Instr.to])
  /\ regs' = Put(Instr.d, SavedV(Len(Top.pending), Top.catch))
  /\ Next1
  /\ UNCHANGED <<image, height, writeback, raising, inFlight, dead, said, outcome>>

DisarmHandler ==
  /\ Runs("TryEnd")
  /\ SetTop([Top EXCEPT !.catch = SavedHandler(Reg(Instr.a))])

(* TryLand: the errors of a `!?` inside this one are gone.                 *)
LandError ==
  /\ Runs("TryLand")
  /\ LET saved == Reg(Instr.a)
         keep == SavedPending(saved)
     IN  frames' = OnTop([Top EXCEPT !.catch = SavedHandler(saved),
                                     !.pending = Append(SubSeq(@, 1, keep),
                                                        Pending(Instr.a, inFlight))])
  /\ regs' = Put(Instr.d, ErrorV(inFlight))
  /\ inFlight' = NoError
  /\ Next1
  /\ UNCHANGED <<image, height, writeback, raising, dead, said, outcome>>

(* The last pending error is the one this `!?` caught.                     *)
PendingIsOurs ==
  /\ Top.pending # <<>>
  /\ Top.pending[Len(Top.pending)].tag = Instr.a

Settled == [Top EXCEPT !.pending = SubSeq(@, 1, Len(@) - 1)]

HandleError ==
  /\ Runs("TryHandled")
  /\ SetTop(IF PendingIsOurs THEN Settled ELSE Top)

Rethrow ==
  /\ Runs("TryRethrow")
  /\ IF PendingIsOurs
     THEN /\ raising' = Top.pending[Len(Top.pending)].kind
          /\ frames' = OnTop(Settled)
          /\ UNCHANGED <<image, regs, height, ip, writeback, inFlight, dead,
                         said, outcome>>
     ELSE Goto(ip + 1)

KindOfPending ==
  /\ Runs("LoadErrorKind")
  /\ Write(Instr.d, TextV(IF Top.pending = <<>> THEN ""
                          ELSE Top.pending[Len(Top.pending)].kind))

-----------------------------------------------------------------------------
(* raise_kind!: to the nearest armed handler.                              *)

Armed == {n \in DOMAIN frames : frames[n].catch # NoHandler}

(* The handler is disarmed until TryLand arms the one outside it.          *)
LandAtHandler ==
  /\ raising # NoError
  /\ outcome = Running
  /\ Top.catch # NoHandler
  /\ ip' = Top.catch
  /\ frames' = OnTop([Top EXCEPT !.catch = NoHandler])
  /\ inFlight' = raising
  /\ raising' = NoError
  /\ UNCHANGED <<image, regs, height, writeback, dead, said, outcome>>

(* A frame with no handler is left on the way to one: its caller gets back *)
(* what it lent, as the function left it.                                  *)
LeaveFrame ==
  /\ raising # NoError
  /\ outcome = Running
  /\ Armed # {}
  /\ Top.catch = NoHandler
  /\ LET caller == frames[Len(frames) - 1] IN
     regs' = [s \in 0..(Top.base - 1) |->
                GivenBack(Top.wb, Top.base, caller.base, s, regs[s])]
  /\ height' = Top.base
  /\ frames' = PopFrame
  /\ UNCHANGED <<image, ip, writeback, raising, inFlight, dead, said, outcome>>

Uncaught ==
  /\ raising # NoError
  /\ outcome = Running
  /\ Armed = {}
  /\ outcome' = Failed(raising)
  /\ UNCHANGED <<image, regs, height, frames, ip, writeback, raising,
                 inFlight, dead, said>>

-----------------------------------------------------------------------------
Next ==
  \/ LoadValue \/ Copy \/ ArithmeticOrOrder \/ CmpEq \/ Logic
  \/ RequireBoolOperand \/ TestInt \/ TestError \/ ConstructError \/ AsLoopCond
  \/ Jump \/ JumpIf \/ JumpIfNotCond \/ RangeStepOn \/ PrintValue
  \/ SetupOutputWriteback \/ CallFunction \/ TailCall
  \/ ReturnToCaller \/ ReturnFromMain \/ HaltProgram
  \/ DestroyLocal \/ CheckAlive \/ Revive
  \/ ArmHandler \/ DisarmHandler \/ LandError \/ HandleError \/ Rethrow
  \/ KindOfPending
  \/ LandAtHandler \/ LeaveFrame \/ Uncaught

Spec == Init /\ [][Next]_vars /\ WF_vars(Next)

-----------------------------------------------------------------------------
(* Properties.                                                             *)

(* Where frame n ends: where the next begins, or where the stack does.     *)
EndOf(n) == IF n = Len(frames) THEN height ELSE frames[n + 1].base

(* The registers of every frame are in the stack and are its own: no frame
   reaches into the next (the SAFETY comment of rreg! and wreg!, which index
   the stack unchecked).  A tail call may leave a frame more than it needs.  *)
FramesFit ==
  /\ DOMAIN regs = 0..(height - 1)
  /\ \A n \in DOMAIN frames : frames[n].base + ChunkOf(frames[n]).nregs <= EndOf(n)

(* A frame is left by `<~`, by a tail call or at the end of the program with
   no handler of its own armed, and with no error it caught and did not settle:
   each way out of a `!?` has passed what that way owes (emit_try_exits).     *)
NothingLeftOpen ==
  (/\ outcome = Running /\ raising = NoError
   /\ Instr.op \in {"Return", "TailCall", "Halt"}) =>
     Top.catch = NoHandler /\ Top.pending = <<>>
=============================================================================
