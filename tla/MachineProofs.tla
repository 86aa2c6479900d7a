--------------------------- MODULE MachineProofs ---------------------------
(***************************************************************************)
(* The frames of the register machine stay inside its stack of registers   *)
(* and out of one another, for every image whose chunks name only their    *)
(* own registers: what the unchecked reads and writes of the machine's     *)
(* loop rely on.  And every frame that is left has closed the `!?`s it     *)
(* opened, for every image whose code handles them as HandlersKept asks.   *)
(***************************************************************************)
EXTENDS Machine, SequenceTheorems, WellFoundedInduction, TLAPS

-----------------------------------------------------------------------------
(* The invariant.                                                          *)

(* A frame: where it begins and the chunk it runs; the rest may be         *)
(* anything.                                                               *)
IsFrame(f) ==
  f \in [base : Nat, ip : {f.ip}, chunk : DOMAIN image, ret : {f.ret},
         catch : {f.catch}, pending : {f.pending}, wb : {f.wb}]

Elements(s) == {s[n] : n \in DOMAIN s}

FramesAreFrames ==
  /\ frames \in Seq(Elements(frames))
  /\ \A n \in DOMAIN frames : IsFrame(frames[n])

FrameInv ==
  /\ ImageFits(image)
  /\ height \in Nat
  /\ FramesAreFrames
  /\ outcome = Running => frames # <<>>
  /\ FramesFit

-----------------------------------------------------------------------------
(* A sequence is one of the set of its own elements.                       *)
LEMMA OfItsElements ==
  ASSUME NEW S, NEW s \in Seq(S)
  PROVE  s \in Seq(Elements(s))
  BY LenProperties, SeqDef DEF Elements

(* A chunk of an image that fits has a whole number of registers.          *)
LEMMA ChunkSize ==
  ASSUME ImageFits(image), NEW c \in DOMAIN image
  PROVE  image[c].nregs \in Nat
  BY DEF ImageFits, ChunkFits

(* Every frame fits where it is, and nothing of that is changed.           *)
LEMMA QuietStep ==
  ASSUME FrameInv, UNCHANGED <<image, height, frames>>,
         outcome' = Running => outcome = Running,
         DOMAIN regs' = DOMAIN regs
  PROVE  FrameInv'
  BY DEF FrameInv, FramesAreFrames, IsFrame, FramesFit, EndOf, ChunkOf

(* The running frame is exchanged for one that begins at the same place    *)
(* and fits below the new end of the stack.                                *)
LEMMA OnTopStep ==
  ASSUME FrameInv, outcome = Running, NEW f, IsFrame(f),
         f.base = Top.base, f.base + ChunkOf(f).nregs <= height',
         height' \in Nat, DOMAIN regs' = 0..(height' - 1),
         frames' = OnTop(f), image' = image
  PROVE  FrameInv'
  <1> DEFINE S == Elements(frames) \cup {f}
             L == Len(frames)
  <1>1. /\ frames \in Seq(S) /\ frames # <<>>
    BY SeqMonotonic DEF FrameInv, FramesAreFrames
  <1>2. L \in Nat \ {0} /\ DOMAIN frames = 1..L
    BY <1>1, LenProperties, EmptySeq
  <1>3. /\ frames' \in Seq(S)
        /\ Len(frames') = L
        /\ \A n \in 1..L : frames'[n] = IF n = L THEN f ELSE frames[n]
    BY <1>1, <1>2, ExceptSeq DEF OnTop
  <1>4. DOMAIN frames' = 1..L
    BY <1>3, LenProperties
  <1>5. FramesAreFrames'
    <2>1. frames' \in Seq(Elements(frames'))
      <3>1. frames' \in Seq(S)
        BY <1>3
      <3> HIDE DEF S
      <3> QED BY <3>1, OfItsElements
    <2>2. \A n \in DOMAIN frames' : IsFrame(frames[n])'
      <3> SUFFICES ASSUME NEW n \in DOMAIN frames'
                   PROVE  IsFrame(frames[n])'
        OBVIOUS
      <3>1. IsFrame(frames'[n])
        BY <1>2, <1>3, <1>4 DEF FrameInv, FramesAreFrames
      <3> QED BY <3>1 DEF IsFrame
    <2> QED BY <2>1, <2>2 DEF FramesAreFrames
  <1>6. FramesFit'
    <2> SUFFICES ASSUME NEW n \in 1..L
                 PROVE  frames'[n].base + image[frames'[n].chunk].nregs <= EndOf(n)'
      BY <1>4 DEF FramesFit, ChunkOf
    <2> HIDE DEF S
    <2>1. CASE n = L
      BY <2>1, <1>2, <1>3 DEF EndOf, ChunkOf
    <2>2. CASE n # L
      <3>1. n + 1 \in 1..L
        <4> HIDE DEF L
        <4> QED BY <2>2, <1>2
      <3>2. EndOf(n)' = frames'[n + 1].base
        BY <2>2, <1>3 DEF EndOf
      <3>3. frames'[n + 1].base = frames[n + 1].base
        BY <3>1, <1>3, <1>2 DEF Top
      <3>4. frames[n].base + image[frames[n].chunk].nregs <= frames[n + 1].base
        BY <2>2, <1>2 DEF FrameInv, FramesFit, EndOf, ChunkOf
      <3> QED BY <2>2, <3>2, <3>3, <3>4, <1>3
    <2> QED BY <2>1, <2>2
  <1>7. frames' # <<>>
    BY <1>2, <1>3, EmptySeq
  <1> QED BY <1>5, <1>6, <1>7 DEF FrameInv

(* The running frame is left: the stack ends where that frame began.       *)
LEMMA PopStep ==
  ASSUME FrameInv, Len(frames) > 1,
         frames' = PopFrame, height' = Top.base, image' = image,
         DOMAIN regs' = 0..(height' - 1)
  PROVE  FrameInv'
  <1> DEFINE S == Elements(frames)
             L == Len(frames)
  <1>1. frames \in Seq(S)
    BY DEF FrameInv, FramesAreFrames
  <1>2. L \in Nat /\ L > 1 /\ DOMAIN frames = 1..L
    BY <1>1, LenProperties
  <1>3. /\ frames' \in Seq(S)
        /\ Len(frames') = L - 1
        /\ \A n \in 1..(L - 1) : frames'[n] = frames[n]
    BY <1>1, <1>2, SubSeqProperties DEF PopFrame
  <1>4. DOMAIN frames' = 1..(L - 1)
    BY <1>3, LenProperties
  <1>5. FramesAreFrames'
    <2>1. frames' \in Seq(Elements(frames'))
      <3>1. frames' \in Seq(S)
        BY <1>3
      <3> HIDE DEF S
      <3> QED BY <3>1, OfItsElements
    <2>2. \A n \in DOMAIN frames' : IsFrame(frames[n])'
      <3> SUFFICES ASSUME NEW n \in DOMAIN frames'
                   PROVE  IsFrame(frames[n])'
        OBVIOUS
      <3>1. IsFrame(frames'[n])
        BY <1>2, <1>3, <1>4 DEF FrameInv, FramesAreFrames
      <3> QED BY <3>1 DEF IsFrame
    <2> QED BY <2>1, <2>2 DEF FramesAreFrames
  <1>6. height' \in Nat
    BY <1>2 DEF FrameInv, FramesAreFrames, IsFrame, Top
  <1>7. FramesFit'
    <2> SUFFICES ASSUME NEW n \in 1..(L - 1)
                 PROVE  frames'[n].base + image[frames'[n].chunk].nregs <= EndOf(n)'
      BY <1>4 DEF FramesFit, ChunkOf
    <2>1. EndOf(n)' = frames[n + 1].base
      <3>1. CASE n = L - 1
        BY <3>1, <1>2, <1>3 DEF EndOf, Top
      <3>2. CASE n # L - 1
        <4>1. n # Len(frames')
          BY <3>2, <1>3
        <4>2. n + 1 \in 1..(L - 1)
          <5> HIDE DEF L
          <5> QED BY <3>2, <1>2
        <4> QED BY <4>1, <4>2, <1>3 DEF EndOf
      <3> QED BY <3>1, <3>2
    <2>2. frames[n].base + image[frames[n].chunk].nregs <= frames[n + 1].base
      BY <1>2 DEF FrameInv, FramesFit, EndOf, ChunkOf
    <2> QED BY <2>1, <2>2, <1>3
  <1>8. frames' # <<>>
    BY <1>2, <1>3, EmptySeq
  <1> QED BY <1>5, <1>6, <1>7, <1>8 DEF FrameInv

(* A frame is laid on the stack, from its end on.                          *)
LEMMA PushStep ==
  ASSUME FrameInv, outcome = Running, NEW f, NEW g,
         IsFrame(f), f.base = Top.base, f.chunk = Top.chunk,
         IsFrame(g), g.base = height,
         height' = height + ChunkOf(g).nregs,
         frames' = Append(OnTop(f), g), image' = image,
         DOMAIN regs' = 0..(height' - 1)
  PROVE  FrameInv'
  <1> DEFINE S == Elements(frames) \cup {f, g}
             L == Len(frames)
             T == OnTop(f)
  <1>1. frames \in Seq(S) /\ frames # <<>>
    BY SeqMonotonic DEF FrameInv, FramesAreFrames
  <1>2. L \in Nat \ {0} /\ DOMAIN frames = 1..L
    BY <1>1, LenProperties, EmptySeq
  <1>3. /\ T \in Seq(S)
        /\ Len(T) = L
        /\ \A n \in 1..L : T[n] = IF n = L THEN f ELSE frames[n]
    BY <1>1, <1>2, ExceptSeq DEF OnTop
  <1>4. /\ frames' \in Seq(S)
        /\ Len(frames') = L + 1
        /\ \A n \in 1..L : frames'[n] = T[n]
        /\ frames'[L + 1] = g
        /\ DOMAIN frames' = 1..(L + 1)
    <2>1. frames' = Append(T, g) /\ g \in S
      OBVIOUS
    <2> HIDE DEF S, T
    <2>2. /\ frames' \in Seq(S)
          /\ Len(frames') = Len(T) + 1
          /\ \A n \in 1..Len(T) : frames'[n] = T[n]
          /\ frames'[Len(T) + 1] = g
      BY <1>3, <2>1, AppendProperties
    <2> HIDE DEF L
    <2>3. Len(frames') = L + 1 /\ frames'[L + 1] = g
      BY <2>2, <1>3
    <2>4. \A n \in 1..L : frames'[n] = T[n]
      BY <2>2, <1>3
    <2>5. DOMAIN frames' = 1..(L + 1)
      BY <2>2, <2>3, LenProperties
    <2> QED BY <2>2, <2>3, <2>4, <2>5
  <1> HIDE DEF S, T
  <1>5. ASSUME NEW n \in 1..(L + 1), n # L + 1
        PROVE  n \in 1..L
    <2> HIDE DEF L
    <2> QED BY <1>2, <1>5
  <1>6. FramesAreFrames'
    <2>1. frames' \in Seq(Elements(frames'))
      <3>1. frames' \in Seq(S)
        BY <1>4
      <3> QED BY <3>1, OfItsElements
    <2>2. \A n \in DOMAIN frames' : IsFrame(frames[n])'
      <3> SUFFICES ASSUME NEW n \in DOMAIN frames'
                   PROVE  IsFrame(frames'[n])
        BY DEF IsFrame
      <3>1. CASE n = L + 1
        BY <3>1, <1>4
      <3>2. CASE n # L + 1
        <4>1. n \in 1..L
          BY <3>2, <1>4, <1>5
        <4>2. frames'[n] = f \/ frames'[n] = frames[n]
          BY <4>1, <1>3, <1>4
        <4> QED BY <4>1, <4>2, <1>2 DEF FrameInv, FramesAreFrames
      <3> QED BY <3>1, <3>2
    <2> QED BY <2>1, <2>2 DEF FramesAreFrames
  <1>7. /\ height \in Nat
        /\ ChunkOf(g).nregs \in Nat
    BY ChunkSize DEF FrameInv, IsFrame, ChunkOf
  <1>8. FramesFit'
    <2> SUFFICES ASSUME NEW n \in 1..(L + 1)
                 PROVE  frames'[n].base + image[frames'[n].chunk].nregs <= EndOf(n)'
      BY <1>4 DEF FramesFit, ChunkOf
    <2>1. CASE n = L + 1
      <3>1. EndOf(n)' = height'
        BY <2>1, <1>4 DEF EndOf
      <3>2. frames'[n] = g
        BY <2>1, <1>4
      <3> QED BY <3>1, <3>2, <1>7 DEF ChunkOf
    <2>2. CASE n # L + 1
      <3>1. n \in 1..L
        BY <2>2, <1>5
      <3>2. EndOf(n)' = frames'[n + 1].base
        BY <2>2, <1>4 DEF EndOf
      <3>3. CASE n = L
        <4>1. frames'[n] = f
          BY <3>1, <3>3, <1>3, <1>4
        <4>2. frames'[n + 1] = g
          BY <3>3, <1>4
        <4>3. Top.base + ChunkOf(Top).nregs <= height
          <5>1. frames[L].base + ChunkOf(frames[L]).nregs <= EndOf(L)
            BY <1>2 DEF FrameInv, FramesFit
          <5>2. EndOf(L) = height
            BY DEF EndOf
          <5> QED BY <5>1, <5>2 DEF Top
        <4> QED BY <3>2, <4>1, <4>2, <4>3 DEF ChunkOf
      <3>4. CASE n # L
        <4>1. n + 1 \in 1..L
          <5> HIDE DEF L
          <5> QED BY <3>1, <3>4, <1>2
        <4>2. frames'[n] = frames[n]
          BY <3>1, <3>4, <1>3, <1>4
        <4>3. frames'[n + 1].base = frames[n + 1].base
          BY <4>1, <1>3, <1>4 DEF Top
        <4>4. frames[n].base + image[frames[n].chunk].nregs <= frames[n + 1].base
          BY <3>1, <3>4, <1>2 DEF FrameInv, FramesFit, EndOf, ChunkOf
        <4> QED BY <3>2, <4>2, <4>3, <4>4
      <3> QED BY <3>3, <3>4
    <2> QED BY <2>1, <2>2
  <1>9. frames' # <<>>
    BY <1>2, <1>4, EmptySeq
  <1> QED BY <1>6, <1>7, <1>8, <1>9 DEF FrameInv

-----------------------------------------------------------------------------
(* The running frame.                                                      *)

LEMMA TopFits ==
  ASSUME FrameInv, outcome = Running
  PROVE  /\ frames # <<>>
         /\ Len(frames) \in DOMAIN frames
         /\ IsFrame(Top)
         /\ Top.base + ChunkOf(Top).nregs <= height
         /\ DOMAIN regs = 0..(height - 1)
  <1>1. frames # <<>> /\ frames \in Seq(Elements(frames))
    BY DEF FrameInv, FramesAreFrames
  <1>2. Len(frames) \in DOMAIN frames
    BY <1>1, LenProperties, EmptySeq
  <1> QED BY <1>1, <1>2 DEF FrameInv, FramesAreFrames, FramesFit, Top, EndOf

(* It is exchanged for one with the same place and code.                   *)
LEMMA TopStep ==
  ASSUME FrameInv, outcome = Running, NEW f,
         IsFrame(f), f.base = Top.base, f.chunk = Top.chunk,
         frames' = OnTop(f), UNCHANGED <<image, height>>,
         DOMAIN regs' = DOMAIN regs
  PROVE  FrameInv'
  <1>1. /\ f.base + ChunkOf(f).nregs <= height'
        /\ height' \in Nat
        /\ DOMAIN regs' = 0..(height' - 1)
    BY TopFits DEF FrameInv, ChunkOf
  <1> QED BY <1>1, OnTopStep

(* What a frame notes of handlers, errors and where to go on leaves it one. *)
LEMMA NotesKeepTheFrame ==
  ASSUME NEW f, IsFrame(f), NEW a, NEW b
  PROVE  /\ LET h == [f EXCEPT !.ip = a]
            IN  IsFrame(h) /\ h.base = f.base /\ h.chunk = f.chunk
         /\ LET h == [f EXCEPT !.catch = a]
            IN  IsFrame(h) /\ h.base = f.base /\ h.chunk = f.chunk
         /\ LET h == [f EXCEPT !.pending = b]
            IN  IsFrame(h) /\ h.base = f.base /\ h.chunk = f.chunk
         /\ LET h == [f EXCEPT !.catch = a, !.pending = b]
            IN  IsFrame(h) /\ h.base = f.base /\ h.chunk = f.chunk
  BY DEF IsFrame

LEMMA WriteStep ==
  ASSUME FrameInv, outcome = Running, NEW r, NEW v, Write(r, v)
  PROVE  FrameInv'
  BY QuietStep DEF Write, Put

LEMMA GotoStep ==
  ASSUME FrameInv, outcome = Running, NEW to, Goto(to)
  PROVE  FrameInv'
  BY QuietStep DEF Goto

LEMMA RaiseStep ==
  ASSUME FrameInv, outcome = Running, NEW kind, Raise(kind)
  PROVE  FrameInv'
  BY QuietStep DEF Raise

(* What the image says of the instruction that runs.                       *)
LEMMA InstrFits ==
  ASSUME FrameInv, outcome = Running, NEW op, Runs(op)
  PROVE  InstructionFits(image, Top.chunk, ip + 1) /\ Instr.op = op
  BY TopFits DEF FrameInv, ImageFits, ChunkFits, IsFrame, Runs, Code, ChunkOf, Instr

-----------------------------------------------------------------------------
(* The instructions.                                                       *)

(* Values and jumps leave every frame as it is.                            *)
LEMMA ValuesKeepFrames ==
  ASSUME FrameInv,
         \/ LoadValue \/ Copy \/ ArithmeticOrOrder \/ CmpEq \/ Logic
         \/ RequireBoolOperand \/ TestInt \/ TestError \/ ConstructError
         \/ AsLoopCond \/ KindOfPending
  PROVE  FrameInv'
  <1>1. CASE LoadValue BY <1>1, WriteStep DEF LoadValue, Runs
  <1>2. CASE Copy BY <1>2, WriteStep DEF Copy, Runs
  <1>3. CASE ArithmeticOrOrder
    BY <1>3, WriteStep, RaiseStep DEF ArithmeticOrOrder, Runs
  <1>4. CASE CmpEq BY <1>4, WriteStep DEF CmpEq, Runs
  <1>5. CASE Logic BY <1>5, WriteStep, RaiseStep DEF Logic, Runs
  <1>6. CASE RequireBoolOperand
    BY <1>6, GotoStep, RaiseStep DEF RequireBoolOperand, Runs
  <1>7. CASE TestInt BY <1>7, WriteStep DEF TestInt, Runs
  <1>8. CASE TestError BY <1>8, WriteStep DEF TestError, Runs
  <1>9. CASE ConstructError BY <1>9, WriteStep DEF ConstructError, Runs
  <1>10. CASE AsLoopCond BY <1>10, WriteStep, RaiseStep DEF AsLoopCond, Runs
  <1>11. CASE KindOfPending BY <1>11, WriteStep DEF KindOfPending, Runs
  <1> QED BY <1>1, <1>2, <1>3, <1>4, <1>5, <1>6, <1>7, <1>8, <1>9, <1>10, <1>11

LEMMA JumpsKeepFrames ==
  ASSUME FrameInv,
         \/ Jump \/ JumpIf \/ JumpIfNotCond \/ RangeStepOn \/ PrintValue
         \/ SetupOutputWriteback \/ DestroyLocal \/ CheckAlive \/ Revive
         \/ HaltProgram \/ Uncaught
  PROVE  FrameInv'
  <1>1. CASE Jump BY <1>1, GotoStep DEF Jump, Runs
  <1>2. CASE JumpIf BY <1>2, GotoStep DEF JumpIf, Runs
  <1>3. CASE JumpIfNotCond BY <1>3, GotoStep, RaiseStep DEF JumpIfNotCond, Runs
  <1>4. CASE RangeStepOn
    <2>1. outcome = Running
      BY <1>4 DEF RangeStepOn, Runs
    <2>2. CASE Raise("Type")
      BY <2>1, <2>2, RaiseStep
    <2>3. CASE /\ UNCHANGED <<image, height, frames, outcome>>
               /\ regs' = regs \/ \E v : regs' = Put(Instr.a, v)
      BY <2>3, QuietStep DEF Put
    <2> QED BY <1>4, <2>2, <2>3 DEF RangeStepOn
  <1>5. CASE PrintValue BY <1>5, QuietStep DEF PrintValue, Runs
  <1>6. CASE SetupOutputWriteback
    BY <1>6, QuietStep DEF SetupOutputWriteback, Runs
  <1>7. CASE DestroyLocal
    BY <1>7, QuietStep, RaiseStep DEF DestroyLocal, Runs, Put
  <1>8. CASE CheckAlive BY <1>8, GotoStep, RaiseStep DEF CheckAlive, Runs
  <1>9. CASE Revive BY <1>9, QuietStep DEF Revive, Runs
  <1>10. CASE HaltProgram BY <1>10, QuietStep DEF HaltProgram, Runs
  <1>11. CASE Uncaught BY <1>11, QuietStep DEF Uncaught
  <1> QED BY <1>1, <1>2, <1>3, <1>4, <1>5, <1>6, <1>7, <1>8, <1>9, <1>10, <1>11

(* A `!?` writes in the running frame only.                                *)
LEMMA TriesKeepFrames ==
  ASSUME FrameInv,
         \/ ArmHandler \/ DisarmHandler \/ LandError \/ HandleError
         \/ Rethrow \/ LandAtHandler
  PROVE  FrameInv'
  <1>1. ASSUME outcome = Running, NEW f, IsFrame(f), f.base = Top.base,
               f.chunk = Top.chunk, SetTop(f)
        PROVE  FrameInv'
    BY <1>1, TopStep DEF SetTop
  <1>2. CASE ArmHandler
    BY <1>2, TopFits, TopStep, NotesKeepTheFrame DEF ArmHandler, Runs, Put
  <1>3. CASE DisarmHandler
    BY <1>1, <1>3, TopFits, NotesKeepTheFrame DEF DisarmHandler, Runs
  <1>4. CASE LandError
    <2> DEFINE p == Append(SubSeq(Top.pending, 1, SavedPending(Reg(Instr.a))),
                           Pending(Instr.a, inFlight))
               c == SavedHandler(Reg(Instr.a))
               f == [Top EXCEPT !.catch = c, !.pending = p]
    <2>1. outcome = Running
      BY <1>4 DEF LandError, Runs
    <2>2. IsFrame(f) /\ f.base = Top.base /\ f.chunk = Top.chunk
      <3>1. IsFrame(Top)
        BY <2>1, TopFits
      <3> HIDE DEF p, c
      <3> QED BY <3>1 DEF IsFrame
    <2>3. frames' = OnTop(f) /\ UNCHANGED <<image, height>>
      BY <1>4 DEF LandError
    <2>4. DOMAIN regs' = DOMAIN regs
      BY <1>4 DEF LandError, Put
    <2> HIDE DEF f
    <2> QED BY <2>1, <2>2, <2>3, <2>4, TopStep
  <1>5. CASE HandleError
    BY <1>1, <1>5, TopFits, NotesKeepTheFrame DEF HandleError, Runs, Settled
  <1>6. CASE Rethrow
    <2>1. outcome = Running
      BY <1>6 DEF Rethrow, Runs
    <2>2. CASE Goto(ip + 1)
      BY <2>1, <2>2, GotoStep
    <2>3. CASE frames' = OnTop(Settled) /\ UNCHANGED <<image, regs, height>>
      <3>1. /\ IsFrame(Settled)
            /\ Settled.base = Top.base /\ Settled.chunk = Top.chunk
        BY <2>1, TopFits, NotesKeepTheFrame DEF Settled
      <3> QED BY <2>1, <2>3, <3>1, TopStep
    <2> QED BY <1>6, <2>2, <2>3 DEF Rethrow
  <1>7. CASE LandAtHandler
    BY <1>7, TopFits, TopStep, NotesKeepTheFrame DEF LandAtHandler
  <1> QED BY <1>2, <1>3, <1>4, <1>5, <1>6, <1>7

(* A call's frame begins where the stack ends, and the stack grows by what *)
(* the callee needs.                                                       *)
LEMMA CallKeepsFrames ==
  ASSUME FrameInv, CallFunction
  PROVE  FrameInv'
  <1>1. outcome = Running /\ Runs("Call")
    BY DEF CallFunction, Runs
  <1>2. CASE Raise("Depth")
    BY <1>1, <1>2, RaiseStep
  <1>3. CASE ~ Raise("Depth")
    <2> DEFINE f == [Top EXCEPT !.ip = ip + 1]
               g == Frame(height, Instr.fn, Instr.d, writeback)
    <2>1. Instr.fn \in DOMAIN image
      BY <1>1, InstrFits DEF InstructionFits, Instr, Code, ChunkOf
    <2>2. IsFrame(f) /\ f.base = Top.base /\ f.chunk = Top.chunk
      BY <1>1, TopFits, NotesKeepTheFrame
    <2>3. IsFrame(g) /\ g.base = height /\ g.chunk = Instr.fn
      BY <2>1 DEF Frame, IsFrame, FrameInv
    <2>4. /\ regs' = Entered(height, ChunkOf(g).nregs)
          /\ height' = height + ChunkOf(g).nregs
          /\ frames' = Append(OnTop(f), g)
          /\ image' = image
      BY <1>3, <2>3 DEF CallFunction, FrameSize, ChunkOf
    <2>5. DOMAIN regs' = 0..(height' - 1)
      <3>1. DOMAIN regs' = 0..(height + ChunkOf(g).nregs - 1)
        BY <2>4 DEF Entered
      <3>2. height \in Nat /\ ChunkOf(g).nregs \in Nat
        BY <2>1, <2>3, ChunkSize DEF ChunkOf, FrameInv
      <3> HIDE DEF g
      <3> QED BY <2>4, <3>1, <3>2
    <2> HIDE DEF f, g
    <2> QED BY <1>1, <2>2, <2>3, <2>4, <2>5, PushStep
  <1> QED BY <1>2, <1>3

(* A tail call's frame stays where it is; the stack grows if the new code  *)
(* needs more of it.                                                       *)
LEMMA TailCallKeepsFrames ==
  ASSUME FrameInv, TailCall
  PROVE  FrameInv'
  <1> DEFINE f == [Top EXCEPT !.chunk = Instr.fn, !.catch = NoHandler]
             room == image[Instr.fn].nregs
             top == Top.base + room
             size == IF top > height THEN top ELSE height
  <1>1. outcome = Running /\ Runs("TailCall")
    BY DEF TailCall, Runs
  <1>2. Instr.fn \in DOMAIN image
    BY <1>1, InstrFits DEF InstructionFits, Instr, Code, ChunkOf
  <1>3. IsFrame(f) /\ f.base = Top.base /\ f.chunk = Instr.fn
    BY <1>1, <1>2, TopFits DEF IsFrame
  <1>4. /\ Top.base \in Nat /\ height \in Nat /\ room \in Nat
    BY <1>1, <1>2, TopFits, ChunkSize DEF FrameInv, IsFrame
  <1>5. /\ height' = size
        /\ DOMAIN regs' = 0..(size - 1)
        /\ frames' = OnTop(f)
        /\ image' = image
    BY DEF TailCall, FrameSize
  <1>6. size \in Nat /\ top <= size
    <2> HIDE DEF room
    <2> QED BY <1>4
  <1>7. f.base + ChunkOf(f).nregs = top
    BY <1>3 DEF ChunkOf
  <1> HIDE DEF f, size, top
  <1> QED BY <1>1, <1>3, <1>5, <1>6, <1>7, OnTopStep

(* A frame is left by `<~`, or by an error on its way to a handler below.  *)
LEMMA LeavingKeepsFrames ==
  ASSUME FrameInv, ReturnToCaller \/ ReturnFromMain \/ LeaveFrame
  PROVE  FrameInv'
  <1>0. Top.base \in Nat /\ Len(frames) \in Nat /\ DOMAIN frames = 1..Len(frames)
    <2>1. outcome = Running
      BY DEF ReturnToCaller, ReturnFromMain, LeaveFrame, Runs
    <2>2. frames \in Seq(Elements(frames))
      BY DEF FrameInv, FramesAreFrames
    <2> QED BY <2>1, <2>2, TopFits, LenProperties DEF IsFrame
  <1>1. CASE ReturnToCaller
    BY <1>0, <1>1, PopStep DEF ReturnToCaller
  <1>2. CASE LeaveFrame
    <2>1. PICK n \in DOMAIN frames : frames[n].catch # NoHandler
      BY <1>2 DEF LeaveFrame, Armed
    <2>2. n # Len(frames)
      BY <1>2, <2>1 DEF LeaveFrame, Top
    <2>3. Len(frames) > 1
      BY <1>0, <2>1, <2>2
    <2> QED BY <1>0, <1>2, <2>3, PopStep DEF LeaveFrame
  <1>3. CASE ReturnFromMain
    <2>1. frames' = <<>>
      BY <1>0, <1>3, SubSeqEmpty DEF ReturnFromMain, PopFrame
    <2>2. outcome' # Running
      BY <1>3 DEF ReturnFromMain, Failed, Exit, Running
    <2>3. FramesAreFrames' /\ UNCHANGED <<image, height, regs>>
      BY <1>3, <2>1, EmptySeq DEF FramesAreFrames, ReturnFromMain
    <2>4. FramesFit'
      BY <2>1, <2>3 DEF FramesFit, FrameInv
    <2> QED BY <2>2, <2>3, <2>4 DEF FrameInv
  <1> QED BY <1>1, <1>2, <1>3

-----------------------------------------------------------------------------
(* The file body's frame is the whole stack.                               *)
LEMMA InitFits ==
  ASSUME Init
  PROVE  FrameInv
  <1> DEFINE g == Frame(0, Main, 0, <<>>)
  <1>1. Main \in DOMAIN image /\ height = image[Main].nregs /\ frames = <<g>>
    BY DEF Init, Boot, ImageFits
  <1>2. height \in Nat
    BY <1>1, ChunkSize DEF Init
  <1>3. IsFrame(g) /\ g.base = 0 /\ g.chunk = Main
    BY <1>1 DEF IsFrame, Frame
  <1>4. /\ Len(frames) = 1
        /\ DOMAIN frames = {1}
        /\ frames[1] = g
        /\ frames \in Seq(Elements(frames))
        /\ frames # <<>>
    BY <1>1 DEF Elements
  <1>5. FramesFit
    BY <1>1, <1>2, <1>3, <1>4 DEF Init, Boot, FramesFit, EndOf, ChunkOf
  <1> QED BY <1>2, <1>3, <1>4, <1>5 DEF FrameInv, FramesAreFrames, Init

LEMMA StepFits ==
  ASSUME FrameInv, [Next]_vars
  PROVE  FrameInv'
  <1>1. CASE UNCHANGED vars
    BY <1>1, QuietStep DEF vars
  <1>2. CASE Next
    BY <1>2, ValuesKeepFrames, JumpsKeepFrames, TriesKeepFrames,
       CallKeepsFrames, TailCallKeepsFrames, LeavingKeepsFrames DEF Next
  <1> QED BY <1>1, <1>2

(***************************************************************************)
(* Whatever the program, if its chunks name registers of their own the     *)
(* frames of the machine stay inside its stack and none reaches into the   *)
(* next, through calls, tail calls, returns and errors.                    *)
(***************************************************************************)
THEOREM FramesStayApart == Spec => []FramesFit
  <1>1. FrameInv => FramesFit
    BY DEF FrameInv
  <1> QED BY <1>1, InitFits, StepFits, PTL DEF Spec

(***************************************************************************)
(* The registers an instruction names are in the stack when it runs: what  *)
(* rreg! and wreg! take for granted.                                       *)
(***************************************************************************)
AccessInside ==
  outcome = Running /\ raising = NoError /\ ip + 1 \in DOMAIN Code =>
    \A r \in Registers(Instr) : Top.base + r \in DOMAIN regs

THEOREM AccessesAreInside == Spec => []AccessInside
  <1>1. FrameInv => AccessInside
    <2> SUFFICES ASSUME FrameInv, outcome = Running, raising = NoError,
                        ip + 1 \in DOMAIN Code, NEW r \in Registers(Instr)
                 PROVE  Top.base + r \in DOMAIN regs
      BY DEF AccessInside
    <2>1. InstructionFits(image, Top.chunk, ip + 1)
      BY InstrFits DEF Runs
    <2>2. r \in 0..(ChunkOf(Top).nregs - 1)
      BY <2>1 DEF InstructionFits, Instr, Code, ChunkOf
    <2>3. /\ Top.base \in Nat /\ height \in Nat
          /\ ChunkOf(Top).nregs \in Nat
          /\ Top.base + ChunkOf(Top).nregs <= height
          /\ DOMAIN regs = 0..(height - 1)
      BY TopFits, ChunkSize DEF FrameInv, IsFrame, ChunkOf
    <2> QED BY <2>2, <2>3
  <1> QED BY <1>1, InitFits, StepFits, PTL DEF Spec
-----------------------------------------------------------------------------
(* Frames are left with nothing open.                                      *)

(* What the registers of frame f remember of handlers.                     *)
Remembered(im, rs, f) ==
  [r \in 0..(im[f.chunk].nregs - 1) |-> Saving(rs[f.base + r])]

(* What f holds at a place of its code.                                    *)
HeldBy(im, rs, f, at, lent) ==
  Holding(at, f.catch, Tags(f.pending), Remembered(im, rs, f), lent)

(* A frame's notes: the errors it caught, and which of its parameters go   *)
(* back to its caller.                                                     *)
Notes(im, f) ==
  /\ \E S : f.pending \in Seq(S) /\ \A e \in S : e.kind # NoError
  /\ f.wb \in Seq(Nat \X Nat)
  /\ \A n \in DOMAIN f.wb : f.wb[n][1] \in 0..(im[f.chunk].params - 1)

(* f waits at a call for g.                                                *)
Waits(K, im, rs, f, g) ==
  \E h \in K[f.chunk] :
    /\ im[f.chunk].code[h.at + 1].op = "Call"
    /\ im[f.chunk].code[h.at + 1].d = g.ret
    /\ f.ip = h.at + 1
    /\ g.wb = h.lent
    /\ HeldBy(im, rs, f, h.at, <<>>) = Lends(h)

(* Every frame keeps its notes and its place, and waits for the one above. *)
Below(K, im, rs, fs) ==
  /\ \A n \in DOMAIN fs : Notes(im, fs[n])
  /\ \A m, n \in DOMAIN fs :
       m < n => fs[m].base + im[fs[m].chunk].nregs <= fs[n].base
  /\ \A n \in DOMAIN fs : n + 1 \in DOMAIN fs => Waits(K, im, rs, fs[n], fs[n + 1])

(* The parameters of a frame remember no handler.                          *)
PlainParameters(im, rs, f) ==
  \A r \in 0..(im[f.chunk].params - 1) : Saving(rs[f.base + r]) = Unit

(* f holds at this place what its code is run over.                        *)
RunsOn(K, im, rs, f, at, lent) ==
  HeldBy(im, rs, f, at, lent) \in K[f.chunk]

(* An error leaves f: if f has a handler, what it will hold there is known.*)
Unwinds(K, im, rs, f) ==
  /\ Landed(HeldBy(im, rs, f, 0, <<>>)) \subseteq K[f.chunk]
  /\ PlainParameters(im, rs, f)

(* The inductive invariant: at every instruction what the running frame    *)
(* holds is one of K's, what a suspended frame will hold when its call     *)
(* ends is too, and an error on its way up finds every frame prepared.     *)
HandlerInv(K) ==
  /\ FrameInv
  /\ HandlersKept(image, K)
  /\ outcome = Running =>
       /\ Below(K, image, regs, frames)
       /\ raising = NoError =>
            /\ RunsOn(K, image, regs, Top, ip, writeback)
            /\ Instr.op = "TryLand" => inFlight # NoError
       /\ raising # NoError => writeback = <<>> /\ Unwinds(K, image, regs, Top)

-----------------------------------------------------------------------------
(* What a frame holds.                                                     *)

(* No value of a program is a save register's.                             *)
LEMMA PlainValues ==
  /\ Saving(Unit) = Unit
  /\ \A x : /\ Saving(IntV(x)) = Unit /\ Saving(BoolV(x)) = Unit
            /\ Saving(ErrorV(x)) = Unit /\ Saving(TextV(x)) = Unit
  /\ \A v : IsInt(v) \/ IsBool(v) => Saving(v) = Unit
  BY DEF Saving, Unit, IntV, BoolV, ErrorV, TextV, IsInt, IsBool

(* Nor is the result of arithmetic or of a comparison.                     *)
LEMMA PlainResults ==
  ASSUME NEW op \in Arithmetic \cup Order, NEW x, NEW y
  PROVE  Saving(Calculate(op, x, y)) = Unit
  BY PlainValues DEF Calculate, Arithmetic, Order

(* What a register that remembers says.                                    *)
LEMMA SavesSay ==
  ASSUME NEW v
  PROVE  /\ SavedHandler(Saving(v)) = SavedHandler(v)
         /\ SavedPending(Saving(v)) = SavedPending(v)
  BY DEF Saving, SavedHandler, SavedPending, Unit

(* The parts of what a frame holds.                                        *)
LEMMA HoldingParts ==
  ASSUME NEW a, NEW c, NEW t, NEW s, NEW l
  PROVE  LET h == Holding(a, c, t, s, l)
         IN  h.at = a /\ h.catch = c /\ h.tags = t /\ h.saves = s /\ h.lent = l
  BY DEF Holding

(* What a frame holds, part by part.                                       *)
LEMMA HeldParts ==
  ASSUME NEW im, NEW rs, NEW f, NEW at, NEW lent
  PROVE  LET h == HeldBy(im, rs, f, at, lent)
         IN  /\ h.at = at /\ h.catch = f.catch /\ h.lent = lent
             /\ h.tags = Tags(f.pending)
             /\ h.saves = Remembered(im, rs, f)
             /\ DOMAIN h.saves = 0..(im[f.chunk].nregs - 1)
             /\ \A r \in DOMAIN h.saves : h.saves[r] = Saving(rs[f.base + r])
  <1> DEFINE h == HeldBy(im, rs, f, at, lent)
  <1>1. /\ h.at = at /\ h.catch = f.catch /\ h.lent = lent
        /\ h.tags = Tags(f.pending) /\ h.saves = Remembered(im, rs, f)
    BY HoldingParts DEF HeldBy
  <1>2. /\ DOMAIN Remembered(im, rs, f) = 0..(im[f.chunk].nregs - 1)
        /\ \A r \in 0..(im[f.chunk].nregs - 1) :
             Remembered(im, rs, f)[r] = Saving(rs[f.base + r])
    BY DEF Remembered
  <1> HIDE DEF h
  <1> QED BY <1>1, <1>2 DEF h

(* Two frames remember the same when their registers do.                   *)
LEMMA RememberedAlike ==
  ASSUME NEW im, NEW rs, NEW rs2, NEW f, NEW f2,
         f2.base = f.base, f2.chunk = f.chunk,
         \A r \in 0..(im[f.chunk].nregs - 1) :
           Saving(rs2[f.base + r]) = Saving(rs[f.base + r])
  PROVE  Remembered(im, rs2, f2) = Remembered(im, rs, f)
  BY DEF Remembered

(* Registers that no longer remember anything.                             *)
LEMMA RememberedWithout ==
  ASSUME NEW im, NEW rs, NEW rs2, NEW f, NEW f2, NEW R,
         f2.base = f.base, f2.chunk = f.chunk,
         \A r \in 0..(im[f.chunk].nregs - 1) :
           Saving(rs2[f.base + r]) = IF r \in R THEN Unit ELSE Saving(rs[f.base + r])
  PROVE  Remembered(im, rs2, f2) = Without(Remembered(im, rs, f), R)
  BY DEF Remembered, Without

(* Forgetting nothing.                                                     *)
LEMMA WithoutNone ==
  ASSUME NEW im, NEW rs, NEW f
  PROVE  Without(Remembered(im, rs, f), {}) = Remembered(im, rs, f)
  BY DEF Remembered, Without

(* The tags of the pending errors, one for each.                           *)
LEMMA TagsOfPending ==
  ASSUME NEW S, NEW p \in Seq(S)
  PROVE  /\ Tags(p) \in Seq({e.tag : e \in S})
         /\ Len(Tags(p)) = Len(p)
         /\ \A n \in 1..Len(p) : Tags(p)[n] = p[n].tag
  <1> DEFINE T == {e.tag : e \in S}
  <1>1. Len(p) \in Nat /\ \A n \in 1..Len(p) : p[n] \in S
    BY LenProperties
  <1>2. Tags(p) \in [1..Len(p) -> T]
    BY <1>1 DEF Tags
  <1>3. Tags(p) \in Seq(T)
    BY <1>1, <1>2, SeqDef
  <1>4. DOMAIN Tags(p) = 1..Len(p) /\ DOMAIN Tags(p) = 1..Len(Tags(p)) /\ Len(Tags(p)) \in Nat
    <2> HIDE DEF T
    <2> QED BY <1>2, <1>3, LenProperties
  <1>5. Len(Tags(p)) = Len(p)
    BY <1>1, <1>4
  <1>6. \A n \in 1..Len(p) : Tags(p)[n] = p[n].tag
    BY DEF Tags
  <1> QED BY <1>3, <1>5, <1>6

(* No tags, no errors.                                                     *)
LEMMA NoTags ==
  ASSUME NEW S, NEW p \in Seq(S)
  PROVE  (Tags(p) = <<>> <=> p = <<>>) /\ (p # <<>> => Len(p) \in Nat \ {0})
  <1>1. Len(Tags(p)) = Len(p) /\ Tags(p) \in Seq({e.tag : e \in S})
    BY TagsOfPending
  <1> DEFINE T == {e.tag : e \in S}
  <1> HIDE DEF T
  <1>2. /\ p # <<>> => Len(p) \in Nat \ {0}
        /\ Tags(p) # <<>> => Len(Tags(p)) \in Nat \ {0}
        /\ Len(<<>>) = 0
    BY <1>1, EmptySeq DEF T
  <1> QED BY <1>1, <1>2

(* The last error is settled.                                              *)
LEMMA TagsButLast ==
  ASSUME NEW S, NEW p \in Seq(S), p # <<>>
  PROVE  /\ SubSeq(p, 1, Len(p) - 1) \in Seq(S)
         /\ Tags(SubSeq(p, 1, Len(p) - 1)) = ButLast(Tags(p))
         /\ Tags(p)[Len(Tags(p))] = p[Len(p)].tag
  <1> DEFINE q == SubSeq(p, 1, Len(p) - 1)
             T == {e.tag : e \in S}
             u == ButLast(Tags(p))
  <1>1. /\ Len(p) \in Nat \ {0} /\ Tags(p) \in Seq(T) /\ Len(Tags(p)) = Len(p)
        /\ \A n \in 1..Len(p) : Tags(p)[n] = p[n].tag
    <2>1. Len(p) \in Nat \ {0}
      BY NoTags
    <2>2. /\ Tags(p) \in Seq(T) /\ Len(Tags(p)) = Len(p)
          /\ \A n \in 1..Len(p) : Tags(p)[n] = p[n].tag
      BY TagsOfPending
    <2> QED BY <2>1, <2>2
  <1>2. q \in Seq(S) /\ Len(q) = Len(p) - 1 /\ \A n \in 1..(Len(p) - 1) : q[n] = p[n]
    BY <1>1, SubSeqProperties, LenProperties
  <1>3. u \in Seq(T) /\ Len(u) = Len(p) - 1 /\ \A n \in 1..(Len(p) - 1) : u[n] = Tags(p)[n]
    <2>1. \A n \in 1..(Len(p) - 1) : Tags(p)[n] \in T
      <3> HIDE DEF T
      <3> QED BY <1>1, LenProperties
    <2> HIDE DEF T
    <2> QED BY <1>1, <2>1, SubSeqProperties DEF ButLast
  <1>4. Tags(q) \in Seq(T) /\ Len(Tags(q)) = Len(q) /\ \A n \in 1..Len(q) : Tags(q)[n] = q[n].tag
    BY <1>2, TagsOfPending
  <1>5. Tags(q) = u
    <2>1. \A n \in 1..Len(Tags(q)) : Tags(q)[n] = u[n]
      <3> HIDE DEF q, u, T
      <3> SUFFICES ASSUME NEW n \in 1..(Len(p) - 1) PROVE Tags(q)[n] = u[n]
        BY <1>2, <1>4
      <3>1. n \in 1..Len(q) /\ n \in 1..Len(p)
        BY <1>1, <1>2
      <3> QED BY <3>1, <1>1, <1>2, <1>3, <1>4
    <2> HIDE DEF q, u, T
    <2> QED BY <1>2, <1>3, <1>4, <2>1, SeqEqual
  <1> QED BY <1>1, <1>2, <1>5

(* The errors past the first k are dropped, and one more lands.            *)
LEMMA TagsLanded ==
  ASSUME NEW S, NEW p \in Seq(S), NEW x, NEW k \in 0..Len(p)
  PROVE  LET q == Append(SubSeq(p, 1, k), x)
         IN  /\ q \in Seq(S \cup {x})
             /\ Tags(q) = Append(SubSeq(Tags(p), 1, k), x.tag)
  <1> DEFINE q == Append(SubSeq(p, 1, k), x)
             R == S \cup {x}
             T == {e.tag : e \in R}
             u == Append(SubSeq(Tags(p), 1, k), x.tag)
  <1>1. p \in Seq(R) /\ Len(p) \in Nat /\ k \in Nat /\ x \in R /\ x.tag \in T
    BY SeqMonotonic, LenProperties
  <1>2. /\ Tags(p) \in Seq(T) /\ Len(Tags(p)) = Len(p)
        /\ \A n \in 1..Len(p) : Tags(p)[n] = p[n].tag
    BY <1>1, TagsOfPending
  <1> HIDE DEF T, R
  <1>3. /\ SubSeq(p, 1, k) \in Seq(R) /\ Len(SubSeq(p, 1, k)) = k
        /\ \A n \in 1..k : SubSeq(p, 1, k)[n] = p[n]
    BY <1>1, SubSeqProperties, LenProperties
  <1>4. /\ SubSeq(Tags(p), 1, k) \in Seq(T) /\ Len(SubSeq(Tags(p), 1, k)) = k
        /\ \A n \in 1..k : SubSeq(Tags(p), 1, k)[n] = Tags(p)[n]
    <2>1. \A n \in 1..k : Tags(p)[n] \in T
      BY <1>1, <1>2, LenProperties
    <2> QED BY <1>1, <2>1, SubSeqProperties
  <1>5. q \in Seq(R) /\ Len(q) = k + 1 /\ (\A n \in 1..k : q[n] = p[n]) /\ q[k + 1] = x
    BY <1>1, <1>3, AppendProperties
  <1>6. u \in Seq(T) /\ Len(u) = k + 1 /\ (\A n \in 1..k : u[n] = Tags(p)[n]) /\ u[k + 1] = x.tag
    BY <1>1, <1>4, AppendProperties
  <1>7. Tags(q) \in Seq(T) /\ Len(Tags(q)) = Len(q) /\ \A n \in 1..Len(q) : Tags(q)[n] = q[n].tag
    BY <1>5, TagsOfPending DEF T
  <1> HIDE DEF q, u
  <1>8. \A n \in 1..Len(Tags(q)) : Tags(q)[n] = u[n]
    <2> SUFFICES ASSUME NEW n \in 1..(k + 1) PROVE Tags(q)[n] = u[n]
      BY <1>5, <1>7
    <2>1. CASE n = k + 1
      BY <2>1, <1>5, <1>6, <1>7, <1>1
    <2>2. CASE n \in 1..k
      BY <2>2, <1>1, <1>2, <1>5, <1>6, <1>7
    <2> QED BY <2>1, <2>2, <1>1
  <1>9. Tags(q) = u
    BY <1>5, <1>6, <1>7, <1>8, SeqEqual
  <1> QED BY <1>5, <1>9 DEF q, u, R

-----------------------------------------------------------------------------
(* The frames that wait.                                                   *)

Placed(im, fs) ==
  \A n \in DOMAIN fs : fs[n].base \in Nat /\ im[fs[n].chunk].nregs \in Nat

(* A frame goes on waiting as long as its own registers are left alone.    *)
LEMMA WaitsOn ==
  ASSUME NEW K, NEW im, NEW rs, NEW rs2, NEW f, NEW g, NEW g2,
         Waits(K, im, rs, f, g), g2.ret = g.ret, g2.wb = g.wb,
         \A r \in 0..(im[f.chunk].nregs - 1) : rs2[f.base + r] = rs[f.base + r]
  PROVE  Waits(K, im, rs2, f, g2)
  <1>1. \A at : HeldBy(im, rs2, f, at, <<>>) = HeldBy(im, rs, f, at, <<>>)
    BY RememberedAlike DEF HeldBy
  <1> QED BY <1>1 DEF Waits

(* The frames below the running one are untouched when the registers from  *)
(* its base on are written and it is replaced by one that answers its call.*)
LEMMA BelowTop ==
  ASSUME NEW K, NEW im, NEW rs, NEW rs2, NEW S, NEW fs \in Seq(S), NEW f,
         fs # <<>>, Placed(im, fs), Below(K, im, rs, fs),
         f.base = fs[Len(fs)].base, f.ret = fs[Len(fs)].ret, f.wb = fs[Len(fs)].wb,
         Notes(im, f),
         \A s \in Nat : s < f.base => rs2[s] = rs[s]
  PROVE  Below(K, im, rs2, [fs EXCEPT ![Len(fs)] = f])
  <1> DEFINE L == Len(fs)
             fs2 == [fs EXCEPT ![L] = f]
  <1>1. L \in Nat \ {0} /\ DOMAIN fs = 1..L
    BY LenProperties, EmptySeq
  <1>2. DOMAIN fs2 = 1..L /\ \A n \in 1..L : fs2[n] = IF n = L THEN f ELSE fs[n]
    BY <1>1
  <1> HIDE DEF fs2
  <1>3. \A n \in DOMAIN fs2 : Notes(im, fs2[n])
    BY <1>1, <1>2 DEF Below
  <1>4. \A m, n \in DOMAIN fs2 : m < n => fs2[m].base + im[fs2[m].chunk].nregs <= fs2[n].base
    <2> SUFFICES ASSUME NEW m \in 1..L, NEW n \in 1..L, m < n
                 PROVE  fs2[m].base + im[fs2[m].chunk].nregs <= fs2[n].base
      BY <1>2
    <2>1. fs[m].base + im[fs[m].chunk].nregs <= fs[n].base
      BY <1>1 DEF Below
    <2>2. fs2[m] = fs[m] /\ fs2[n].base = fs[n].base
      <3> HIDE DEF L
      <3>1. m # L
        BY <1>1
      <3> QED BY <3>1, <1>2 DEF L
    <2> QED BY <2>1, <2>2
  <1>5. ASSUME NEW n \in DOMAIN fs2, n + 1 \in DOMAIN fs2
        PROVE  Waits(K, im, rs2, fs2[n], fs2[n + 1])
    <2>0. n \in 1..L /\ n + 1 \in 1..L /\ n # L
      <3> HIDE DEF L
      <3> QED BY <1>1, <1>2, <1>5
    <2>1. Waits(K, im, rs, fs[n], fs[n + 1])
      BY <2>0, <1>1 DEF Below
    <2>2. fs2[n] = fs[n] /\ fs2[n + 1].ret = fs[n + 1].ret /\ fs2[n + 1].wb = fs[n + 1].wb
      BY <2>0, <1>2
    <2>3. fs[n].base + im[fs[n].chunk].nregs <= f.base
      <3>1. n < L /\ L \in 1..L
        <4> HIDE DEF L
        <4> QED BY <2>0, <1>1
      <3>2. fs[n].base + im[fs[n].chunk].nregs <= fs[L].base
        BY <3>1, <2>0, <1>1 DEF Below
      <3> QED BY <3>2
    <2>4. \A r \in 0..(im[fs[n].chunk].nregs - 1) : rs2[fs[n].base + r] = rs[fs[n].base + r]
      <3>1. fs[n].base \in Nat /\ im[fs[n].chunk].nregs \in Nat /\ fs[L].base \in Nat
        <4>1. L \in 1..L
          <5> HIDE DEF L
          <5> QED BY <1>1
        <4> QED BY <2>0, <1>1, <4>1 DEF Placed
      <3>2. f.base \in Nat
        BY <3>1
      <3> SUFFICES ASSUME NEW r \in 0..(im[fs[n].chunk].nregs - 1)
                   PROVE  rs2[fs[n].base + r] = rs[fs[n].base + r]
        OBVIOUS
      <3>3. fs[n].base + r \in Nat /\ fs[n].base + r < f.base
        BY <3>1, <3>2, <2>3
      <3> QED BY <3>3
    <2> QED BY <2>1, <2>2, <2>4, WaitsOn
  <1>6. Below(K, im, rs2, fs2)
    BY <1>3, <1>4, <1>5 DEF Below
  <1> QED BY <1>6 DEF fs2

(* A frame is laid on the stack, for which the last waits from then on.    *)
LEMMA BelowPushed ==
  ASSUME NEW K, NEW im, NEW rs, NEW S, NEW fs \in Seq(S), NEW g \in S,
         fs # <<>>, Below(K, im, rs, fs), Notes(im, g),
         \A n \in DOMAIN fs : fs[n].base + im[fs[n].chunk].nregs <= g.base,
         Waits(K, im, rs, fs[Len(fs)], g)
  PROVE  Below(K, im, rs, Append(fs, g))
  <1> DEFINE L == Len(fs)
             fs2 == Append(fs, g)
  <1>1. L \in Nat \ {0} /\ DOMAIN fs = 1..L
    BY LenProperties, EmptySeq
  <1>2. /\ DOMAIN fs2 = 1..(L + 1) /\ fs2[L + 1] = g
        /\ \A n \in 1..L : fs2[n] = fs[n]
    BY LenProperties, AppendProperties
  <1> HIDE DEF fs2
  <1>3. \A n \in 1..(L + 1) : n # L + 1 => n \in 1..L
    <2> HIDE DEF L
    <2> QED BY <1>1
  <1>4. \A n \in DOMAIN fs2 : Notes(im, fs2[n])
    BY <1>1, <1>2, <1>3 DEF Below
  <1>5. \A m, n \in DOMAIN fs2 : m < n => fs2[m].base + im[fs2[m].chunk].nregs <= fs2[n].base
    <2> SUFFICES ASSUME NEW m \in 1..(L + 1), NEW n \in 1..(L + 1), m < n
                 PROVE  fs2[m].base + im[fs2[m].chunk].nregs <= fs2[n].base
      BY <1>2
    <2>1. m \in 1..L
      <3> HIDE DEF L
      <3> QED BY <1>1
    <2>2. CASE n = L + 1
      BY <2>1, <2>2, <1>1, <1>2
    <2>3. CASE n # L + 1
      BY <2>1, <2>3, <1>1, <1>2, <1>3 DEF Below
    <2> QED BY <2>2, <2>3
  <1>6. ASSUME NEW n \in DOMAIN fs2, n + 1 \in DOMAIN fs2
        PROVE  Waits(K, im, rs, fs2[n], fs2[n + 1])
    <2>1. n \in 1..L
      <3> HIDE DEF L
      <3> QED BY <1>1, <1>2, <1>6
    <2>2. CASE n = L
      BY <2>1, <2>2, <1>2
    <2>3. CASE n # L
      <3>1. n + 1 \in 1..L
        <4> HIDE DEF L
        <4> QED BY <2>1, <2>3, <1>1
      <3> QED BY <2>1, <3>1, <1>1, <1>2 DEF Below
    <2> QED BY <2>2, <2>3
  <1>7. Below(K, im, rs, fs2)
    BY <1>4, <1>5, <1>6 DEF Below
  <1> QED BY <1>7 DEF fs2

(* The last frame is left: the registers of those that still wait are      *)
(* below the one that does no more.                                        *)
LEMMA BelowPopped ==
  ASSUME NEW K, NEW im, NEW rs, NEW rs2, NEW S, NEW fs \in Seq(S),
         Len(fs) > 1, Placed(im, fs), Below(K, im, rs, fs),
         \A s \in Nat : s < fs[Len(fs) - 1].base => rs2[s] = rs[s]
  PROVE  Below(K, im, rs2, SubSeq(fs, 1, Len(fs) - 1))
  <1> DEFINE L == Len(fs)
             fs2 == SubSeq(fs, 1, L - 1)
  <1>1. L \in Nat /\ L > 1 /\ DOMAIN fs = 1..L
    BY LenProperties
  <1>2. /\ fs2 \in Seq(S) /\ Len(fs2) = L - 1
        /\ \A n \in 1..(L - 1) : fs2[n] = fs[n]
    BY <1>1, SubSeqProperties, LenProperties
  <1>3. DOMAIN fs2 = 1..(L - 1)
    BY <1>2, LenProperties
  <1> HIDE DEF fs2
  <1>4. \A n \in 1..(L - 1) : n \in 1..L
    <2> HIDE DEF L
    <2> QED BY <1>1
  <1>5. \A n \in DOMAIN fs2 : Notes(im, fs2[n])
    BY <1>1, <1>2, <1>3, <1>4 DEF Below
  <1>6. \A m, n \in DOMAIN fs2 : m < n => fs2[m].base + im[fs2[m].chunk].nregs <= fs2[n].base
    BY <1>1, <1>2, <1>3, <1>4 DEF Below
  <1>7. ASSUME NEW n \in DOMAIN fs2, n + 1 \in DOMAIN fs2
        PROVE  Waits(K, im, rs2, fs2[n], fs2[n + 1])
    <2>1. Waits(K, im, rs, fs[n], fs[n + 1])
      BY <1>1, <1>3, <1>4, <1>7 DEF Below
    <2>2. n < L - 1 /\ L - 1 \in 1..L
      <3> HIDE DEF L
      <3> QED BY <1>1, <1>3, <1>7
    <2>3. fs[n].base + im[fs[n].chunk].nregs <= fs[L - 1].base
      BY <2>2, <1>1, <1>3, <1>4 DEF Below
    <2>4. \A r \in 0..(im[fs[n].chunk].nregs - 1) : rs2[fs[n].base + r] = rs[fs[n].base + r]
      <3>1. fs[n].base \in Nat /\ im[fs[n].chunk].nregs \in Nat /\ fs[L - 1].base \in Nat
        BY <2>2, <1>1, <1>3, <1>4 DEF Placed
      <3> SUFFICES ASSUME NEW r \in 0..(im[fs[n].chunk].nregs - 1)
                   PROVE  rs2[fs[n].base + r] = rs[fs[n].base + r]
        OBVIOUS
      <3> DEFINE a == fs[n].base
      <3> DEFINE w == im[fs[n].chunk].nregs
      <3> DEFINE t == fs[L - 1].base
      <3>2. a \in Nat /\ w \in Nat /\ t \in Nat /\ a + w <= t /\ r \in 0..(w - 1)
        BY <3>1, <2>3
      <3> HIDE DEF a, w, t
      <3>3. a + r \in Nat /\ a + r < t
        BY <3>2
      <3> USE DEF a, t
      <3> QED BY <3>3
    <2>5. Waits(K, im, rs2, fs[n], fs[n + 1])
      BY <2>1, <2>4, WaitsOn
    <2> QED BY <2>5, <1>2, <1>3, <1>7
  <1>8. Below(K, im, rs2, fs2)
    BY <1>5, <1>6, <1>7 DEF Below
  <1> QED BY <1>8 DEF fs2

-----------------------------------------------------------------------------
(* The running frame goes on.                                              *)

Here == HeldBy(image, regs, Top, ip, writeback)

(* The stack of frames, as a sequence.                                     *)
LEMMA StackFits ==
  ASSUME FrameInv, outcome = Running
  PROVE  /\ frames \in Seq(Elements(frames)) /\ frames # <<>>
         /\ Len(frames) \in DOMAIN frames /\ DOMAIN frames = 1..Len(frames)
         /\ Len(frames) \in Nat \ {0}
         /\ Placed(image, frames)
         /\ OnTop(Top) = frames
  <1>1. /\ frames \in Seq(Elements(frames)) /\ frames # <<>>
        /\ Len(frames) \in DOMAIN frames
    BY TopFits DEF FrameInv, FramesAreFrames
  <1>2. Placed(image, frames)
    BY ChunkSize DEF FrameInv, FramesAreFrames, IsFrame, Placed
  <1>3. /\ Len(frames) \in Nat \ {0} /\ DOMAIN frames = 1..Len(frames)
        /\ frames \in [1..Len(frames) -> Elements(frames)]
    BY <1>1, LenProperties, EmptySeq
  <1>4. OnTop(Top) = frames
    BY <1>3 DEF OnTop, Top
  <1> QED BY <1>1, <1>2, <1>3, <1>4

(* Where the running frame is.                                             *)
LEMMA TopIsPlaced ==
  ASSUME FrameInv, outcome = Running
  PROVE  /\ Top.base \in Nat /\ height \in Nat
         /\ Top.chunk \in DOMAIN image
         /\ ChunkOf(Top).nregs \in Nat /\ ChunkOf(Top).params \in 0..ChunkOf(Top).nregs
         /\ Top.base + ChunkOf(Top).nregs <= height
         /\ DOMAIN regs = 0..(height - 1)
  BY TopFits DEF FrameInv, IsFrame, ChunkOf, ImageFits, ChunkFits

(* What the code promises of the instruction that runs.                    *)
LEMMA HereIsSound ==
  ASSUME NEW K, HandlerInv(K), outcome = Running, raising = NoError
  PROVE  /\ Here \in K[Top.chunk]
         /\ Here.at = ip /\ Here.catch = Top.catch /\ Here.lent = writeback
         /\ Here.tags = Tags(Top.pending)
         /\ Here.saves = Remembered(image, regs, Top)
         /\ DOMAIN Here.saves = 0..(ChunkOf(Top).nregs - 1)
         /\ \A r \in DOMAIN Here.saves : Here.saves[r] = Saving(Reg(r))
         /\ ip + 1 \in DOMAIN Code
         /\ Sound(image, ChunkOf(Top), Instr, Here)
         /\ Onward(Instr, Here) \subseteq K[Top.chunk]
  <1>1. Here \in K[Top.chunk] /\ Top.chunk \in DOMAIN image
    BY TopIsPlaced DEF HandlerInv, RunsOn, Here
  <1>2. /\ Here.at = ip /\ Here.catch = Top.catch /\ Here.lent = writeback
        /\ Here.tags = Tags(Top.pending)
        /\ Here.saves = Remembered(image, regs, Top)
        /\ DOMAIN Here.saves = 0..(ChunkOf(Top).nregs - 1)
        /\ \A r \in DOMAIN Here.saves : Here.saves[r] = Saving(Reg(r))
    BY HeldParts DEF Here, ChunkOf, Reg
  <1>3. /\ Here.at + 1 \in DOMAIN image[Top.chunk].code
        /\ LET i == image[Top.chunk].code[Here.at + 1]
           IN  Sound(image, image[Top.chunk], i, Here) /\ Onward(i, Here) \subseteq K[Top.chunk]
    BY <1>1 DEF HandlerInv, HandlersKept
  <1> QED BY <1>1, <1>2, <1>3 DEF ChunkOf, Code, Instr

(* The running frame is replaced by one of its own place.                  *)
LEMMA BelowOnTop ==
  ASSUME NEW K, FrameInv, outcome = Running, Below(K, image, regs, frames),
         NEW f, f.base = Top.base, f.ret = Top.ret, f.wb = Top.wb, Notes(image, f),
         NEW rs, \A s \in Nat : s < Top.base => rs[s] = regs[s]
  PROVE  /\ Below(K, image, rs, OnTop(f))
         /\ OnTop(f)[Len(OnTop(f))] = f /\ Len(OnTop(f)) = Len(frames)
  <1>1. /\ frames \in Seq(Elements(frames)) /\ frames # <<>> /\ Placed(image, frames)
        /\ Len(frames) \in DOMAIN frames
    BY StackFits
  <1>2. Below(K, image, rs, OnTop(f))
    BY <1>1, BelowTop DEF OnTop, Top
  <1>3. OnTop(f)[Len(frames)] = f /\ Len(OnTop(f)) = Len(frames)
    BY <1>1 DEF OnTop
  <1> QED BY <1>2, <1>3

(* The machine's next state is one of the invariant when the running frame *)
(* holds what its instruction leaves it with, or what it raises leaves.    *)
LEMMA StepOn ==
  ASSUME NEW K, HandlerInv(K), FrameInv', outcome = Running, raising = NoError,
         image' = image, outcome' = outcome, raising' = raising,
         NEW f, frames' = OnTop(f), f.base = Top.base, f.ret = Top.ret,
         f.wb = Top.wb, f.chunk = Top.chunk, Notes(image, f),
         \A s \in Nat : s < Top.base => regs'[s] = regs[s],
         ip' \in GoesTo(Instr, Here),
         HeldBy(image, regs', f, ip', writeback') = Ended(Instr, Here, ip')
  PROVE  HandlerInv(K)'
  <1>1. Below(K, image, regs', frames')
    BY BelowOnTop DEF HandlerInv
  <1>2. Top' = f
    BY BelowOnTop DEF HandlerInv, Top
  <1>3. /\ Sound(image, ChunkOf(Top), Instr, Here) /\ Onward(Instr, Here) \subseteq K[Top.chunk]
    BY HereIsSound
  <1>4. RunsOn(K, image, regs', f, ip', writeback')
    BY <1>3 DEF RunsOn, Onward
  <1>5. ChunkOf(Top).code[ip' + 1].op # "TryLand"
    BY <1>3 DEF Sound
  <1>6. (Instr.op # "TryLand")'
    BY <1>2, <1>5 DEF Instr, Code, ChunkOf
  <1>7. HandlersKept(image', K)
    BY DEF HandlerInv
  <1> QED BY <1>1, <1>2, <1>4, <1>6, <1>7 DEF HandlerInv

(* A step that raises leaves the frame as its handler may find it.         *)
LEMMA StepRaises ==
  ASSUME NEW K, HandlerInv(K), FrameInv', outcome = Running, raising = NoError,
         image' = image, outcome' = outcome, raising' # NoError,
         writeback' = <<>>, regs' = regs,
         NEW f, frames' = OnTop(f), f.base = Top.base, f.ret = Top.ret,
         f.wb = Top.wb, f.chunk = Top.chunk, Notes(image, f),
         Landed(HeldBy(image, regs, f, 0, <<>>)) \subseteq Landed(Raised(Instr, Here))
  PROVE  HandlerInv(K)'
  <1>1. Below(K, image, regs', frames')
    BY BelowOnTop DEF HandlerInv
  <1>2. Top' = f
    BY BelowOnTop DEF HandlerInv, Top
  <1>3. Landed(HeldBy(image, regs, f, 0, <<>>)) \subseteq K[f.chunk]
    BY HereIsSound DEF Onward
  <1>4. PlainParameters(image, regs, f)
    <2> SUFFICES ASSUME NEW r \in 0..(ChunkOf(Top).params - 1)
                 PROVE  Saving(Reg(r)) = Unit
      BY DEF PlainParameters, Reg, ChunkOf
    <2>1. r \in 0..(ChunkOf(Top).nregs - 1)
      BY TopIsPlaced DEF HandlerInv
    <2> QED BY <2>1, HereIsSound DEF Sound
  <1>5. HandlersKept(image', K)
    BY DEF HandlerInv
  <1> QED BY <1>1, <1>2, <1>3, <1>4, <1>5 DEF HandlerInv, Unwinds

(* How an error lands says nothing of where it was raised.                 *)
LEMMA LandedAnywhere ==
  ASSUME NEW im, NEW rs, NEW f, NEW a, NEW b, NEW l
  PROVE  Landed(HeldBy(im, rs, f, a, l)) = Landed(HeldBy(im, rs, f, b, l))
  <1> DEFINE h == HeldBy(im, rs, f, a, l)
             k == HeldBy(im, rs, f, b, l)
  <1>1. h.catch = k.catch /\ h.tags = k.tags /\ h.saves = k.saves /\ h.lent = k.lent
    BY HeldParts
  <1> HIDE DEF h, k
  <1>2. Landed(h) = Landed(k)
    BY <1>1 DEF Landed
  <1> QED BY <1>2 DEF h, k

-----------------------------------------------------------------------------
(* The instructions.                                                       *)

(* The notes of the running frame.                                         *)
LEMMA TopNotes ==
  ASSUME NEW K, HandlerInv(K), outcome = Running
  PROVE  Notes(image, Top)
  BY StackFits DEF HandlerInv, Below, Top

Plain(i) ==
  i.op \notin {"TryBegin", "TryEnd", "TryLand", "TryHandled", "SetupOutputWriteback", "Call"}

(* Most instructions change no more than registers that remember nothing.  *)
LEMMA PlainStep ==
  ASSUME NEW K, HandlerInv(K), FrameInv', outcome = Running, raising = NoError,
         UNCHANGED <<image, frames, writeback, raising, outcome>>,
         Plain(Instr), ip' \in GoesTo(Instr, Here),
         \A s \in Nat : s < Top.base => regs'[s] = regs[s],
         Remembered(image, regs', Top) = Without(Here.saves, Writes(Instr))
  PROVE  HandlerInv(K)'
  <1>1. HeldBy(image, regs', Top, ip', writeback') = Ended(Instr, Here, ip')
    BY HereIsSound DEF HeldBy, Ended, Plain, CatchAfter, TagsAfter, SavesAfter, LentAfter
  <1>2. frames' = OnTop(Top) /\ Notes(image, Top)
    BY StackFits, TopNotes DEF HandlerInv
  <1> QED BY <1>1, <1>2, StepOn

(* One register gets a value of the program.                               *)
LEMMA WriteOn ==
  ASSUME NEW K, HandlerInv(K), FrameInv', outcome = Running, raising = NoError,
         Plain(Instr), FallsThrough(Instr), Instr.op # "TryRethrow",
         Writes(Instr) = {Instr.d}, NEW v, Saving(v) = Unit, Write(Instr.d, v)
  PROVE  HandlerInv(K)'
  <1>1. Instr.d \in 0..(ChunkOf(Top).nregs - 1)
    BY HereIsSound DEF Sound
  <1>2. /\ Top.base \in Nat /\ height \in Nat /\ ChunkOf(Top).nregs \in Nat
        /\ Top.base + ChunkOf(Top).nregs <= height /\ DOMAIN regs = 0..(height - 1)
    BY TopIsPlaced DEF HandlerInv
  <1>3. Top.base + Instr.d \in DOMAIN regs
    BY <1>1, <1>2
  <1>4. \A s : regs'[s] = IF s = Top.base + Instr.d THEN v ELSE regs[s]
    BY <1>3 DEF Write, Put
  <1>5. \A s \in Nat : s < Top.base => regs'[s] = regs[s]
    BY <1>1, <1>2, <1>4
  <1>6. \A r \in 0..(ChunkOf(Top).nregs - 1) :
          Saving(regs'[Top.base + r]) =
            IF r \in {Instr.d} THEN Unit ELSE Saving(regs[Top.base + r])
    BY <1>1, <1>2, <1>4
  <1>7. Remembered(image, regs', Top) = Without(Here.saves, Writes(Instr))
    BY <1>6, RememberedWithout, HereIsSound DEF ChunkOf
  <1>8. ip' \in GoesTo(Instr, Here)
    BY HereIsSound DEF GoesTo, Write, Next1
  <1> QED BY <1>5, <1>7, <1>8, PlainStep DEF Write

(* Nothing is written.                                                     *)
LEMMA QuietOn ==
  ASSUME NEW K, HandlerInv(K), FrameInv', outcome = Running, raising = NoError,
         UNCHANGED <<image, regs, frames, writeback, raising, outcome>>,
         Plain(Instr), ip' \in GoesTo(Instr, Here), Writes(Instr) = {}
  PROVE  HandlerInv(K)'
  <1>1. Remembered(image, regs', Top) = Without(Here.saves, Writes(Instr))
    BY WithoutNone, HereIsSound
  <1> QED BY <1>1, PlainStep

(* An instruction raises.                                                  *)
LEMMA RaiseOn ==
  ASSUME NEW K, HandlerInv(K), FrameInv', outcome = Running, raising = NoError,
         Instr.op # "TryRethrow", Instr.op = "Call" => writeback = <<>>,
         NEW kind, kind # NoError, Raise(kind)
  PROVE  HandlerInv(K)'
  <1>1. writeback = <<>>
    BY HereIsSound DEF Sound
  <1>2. Landed(HeldBy(image, regs, Top, 0, <<>>)) = Landed(Here)
    BY <1>1, LandedAnywhere DEF Here
  <1>3. Raised(Instr, Here) = Here
    <2>1. CASE Instr.op = "Call"
      <3>1. Given(Here.lent) = {}
        BY <1>1, HereIsSound DEF Given
      <3>2. Without(Here.saves, Given(Here.lent)) = Here.saves
        BY <3>1, WithoutNone, HereIsSound
      <3> QED BY <1>1, <2>1, <3>2, HereIsSound DEF Raised, Lends, Here, HeldBy
    <2>2. CASE Instr.op # "Call"
      BY <2>2 DEF Raised
    <2> QED BY <2>1, <2>2
  <1>4. frames' = OnTop(Top) /\ Notes(image, Top)
    BY StackFits, TopNotes DEF HandlerInv, Raise
  <1> QED BY <1>1, <1>2, <1>3, <1>4, StepRaises DEF Raise

(* Instructions that write d.                                              *)
WritesD ==
  {"Load", "CopyReg", "CmpEq", "And", "Or", "IsInt", "IsError", "MakeError", "AsLoopCond",
   "LoadErrorKind"} \cup Arithmetic \cup Order

(* The instructions that write their destination and nothing else.         *)
LEMMA TheyWriteD ==
  ASSUME NEW i, i.op \in WritesD
  PROVE  /\ Plain(i) /\ FallsThrough(i) /\ i.op \notin {"TryRethrow", "Call"}
         /\ Writes(i) = {i.d}
  BY DEF WritesD, Arithmetic, Order, Plain, FallsThrough, Writes

(* Such an instruction runs.                                               *)
LEMMA WritingOn ==
  ASSUME NEW K, HandlerInv(K), FrameInv', NEW op \in WritesD, Runs(op),
         \/ \E v : Saving(v) = Unit /\ Write(Instr.d, v)
         \/ \E kind : kind # NoError /\ Raise(kind)
  PROVE  HandlerInv(K)'
  <1>1. outcome = Running /\ raising = NoError /\ Instr.op = op
    BY DEF Runs
  <1>2. /\ Plain(Instr) /\ FallsThrough(Instr) /\ Instr.op \notin {"TryRethrow", "Call"}
        /\ Writes(Instr) = {Instr.d}
    BY <1>1, TheyWriteD
  <1>3. CASE \E v : Saving(v) = Unit /\ Write(Instr.d, v)
    BY <1>1, <1>2, <1>3, WriteOn
  <1>4. CASE \E kind : kind # NoError /\ Raise(kind)
    BY <1>1, <1>2, <1>4, RaiseOn
  <1> QED BY <1>3, <1>4

(* Arithmetic, comparisons, copies and constants keep the invariant.       *)
LEMMA ValuesKeepHandlers ==
  ASSUME NEW K, HandlerInv(K), FrameInv',
         \/ LoadValue \/ Copy \/ ArithmeticOrOrder \/ CmpEq \/ Logic
         \/ TestInt \/ TestError \/ ConstructError \/ AsLoopCond \/ KindOfPending
  PROVE  HandlerInv(K)'
  <1>0. "_" # NoError /\ "Type" # NoError /\ "Div" # NoError
    BY DEF NoError
  <1>1. CASE LoadValue
    <2>1. Saving(Instr.v) = Unit
      BY <1>1, HereIsSound DEF LoadValue, Runs, Sound
    <2> QED BY <1>1, <2>1, WritingOn DEF LoadValue, WritesD
  <1>2. CASE Copy
    <2>1. Saving(Reg(Instr.a)) = Unit
      <3>1. Runs("CopyReg") /\ outcome = Running /\ raising = NoError
        BY <1>2 DEF Copy, Runs
      <3>2. Instr.a \in Moves(Instr)
        BY <3>1 DEF Moves, Runs
      <3> QED BY <3>1, <3>2, HereIsSound DEF Sound
    <2> QED BY <1>2, <2>1, WritingOn DEF Copy, WritesD
  <1>3. CASE ArithmeticOrOrder
    <2>1. PICK op \in Arithmetic \cup Order :
            /\ Runs(op)
            /\ \/ Raise("Type") \/ Raise("Div")
               \/ Write(Instr.d, Calculate(op, Reg(Instr.a)[2], Operand2[2]))
      BY <1>3 DEF ArithmeticOrOrder
    <2>2. Saving(Calculate(op, Reg(Instr.a)[2], Operand2[2])) = Unit
      BY PlainResults
    <2>3. op \in WritesD
      BY DEF WritesD
    <2> QED BY <1>0, <2>1, <2>2, <2>3, WritingOn
  <1>4. CASE CmpEq
    BY <1>4, PlainValues, WritingOn DEF CmpEq, WritesD
  <1>5. CASE Logic
    <2>1. PICK op \in {"And", "Or"} :
            Runs(op) /\ (Raise("Type") \/ \E x : Write(Instr.d, BoolV(x)))
      BY <1>5 DEF Logic
    <2>2. op \in WritesD
      BY DEF WritesD
    <2> QED BY <1>0, <2>1, <2>2, PlainValues, WritingOn
  <1>6. CASE TestInt
    BY <1>6, PlainValues, WritingOn DEF TestInt, WritesD
  <1>7. CASE TestError
    BY <1>7, PlainValues, WritingOn DEF TestError, WritesD
  <1>8. CASE ConstructError
    BY <1>8, PlainValues, WritingOn DEF ConstructError, WritesD
  <1>9. CASE AsLoopCond
    BY <1>0, <1>9, PlainValues, WritingOn DEF AsLoopCond, WritesD
  <1>10. CASE KindOfPending
    BY <1>10, PlainValues, WritingOn DEF KindOfPending, WritesD
  <1> QED BY <1>1, <1>2, <1>3, <1>4, <1>5, <1>6, <1>7, <1>8, <1>9, <1>10

(* Jumps.                                                                  *)
LEMMA GotoOn ==
  ASSUME NEW K, HandlerInv(K), FrameInv', outcome = Running, raising = NoError,
         Plain(Instr), NEW to, to \in GoesTo(Instr, Here), Writes(Instr) = {}, Goto(to)
  PROVE  HandlerInv(K)'
  BY QuietOn DEF Goto

(* The next instruction, or the one jumped to.                             *)
LEMMA NextPlace ==
  ASSUME NEW K, HandlerInv(K), outcome = Running, raising = NoError
  PROVE  /\ FallsThrough(Instr) /\ Instr.op # "TryRethrow" => ip + 1 \in GoesTo(Instr, Here)
         /\ Instr.op \in Jumps \ {"TryBegin"} => Instr.to \in GoesTo(Instr, Here)
  BY HereIsSound DEF GoesTo

(* Jumps keep the invariant.                                               *)
LEMMA JumpsKeepHandlers ==
  ASSUME NEW K, HandlerInv(K), FrameInv',
         \/ RequireBoolOperand \/ Jump \/ JumpIf \/ JumpIfNotCond
         \/ PrintValue \/ CheckAlive \/ Revive
  PROVE  HandlerInv(K)'
  <1>0. "_" # NoError /\ "Type" # NoError
    BY DEF NoError
  <1>1. ASSUME NEW op \in {"RequireBool", "Jump", "JumpIf", "JumpIfNot", "JumpIfNotCond", "Print",
                           "CheckAlive", "Revive"}, Runs(op)
        PROVE  /\ outcome = Running /\ raising = NoError /\ Instr.op = op
               /\ Plain(Instr) /\ Instr.op \notin {"TryRethrow", "Call"} /\ Writes(Instr) = {}
    BY <1>1 DEF Runs, Plain, Writes, Arithmetic, Order
  <1>2. CASE RequireBoolOperand
    BY <1>0, <1>1, <1>2, NextPlace, GotoOn, RaiseOn DEF RequireBoolOperand, FallsThrough
  <1>3. CASE Jump
    BY <1>1, <1>3, NextPlace, GotoOn DEF Jump, Jumps
  <1>4. CASE JumpIf
    <2>1. CASE Runs("JumpIf")
      BY <1>1, <1>4, <2>1, NextPlace, GotoOn DEF JumpIf, Jumps, FallsThrough, Runs
    <2>2. CASE Runs("JumpIfNot")
      BY <1>1, <1>4, <2>2, NextPlace, GotoOn DEF JumpIf, Jumps, FallsThrough, Runs
    <2> QED BY <1>4, <2>1, <2>2 DEF JumpIf
  <1>5. CASE JumpIfNotCond
    BY <1>0, <1>1, <1>5, NextPlace, GotoOn, RaiseOn DEF JumpIfNotCond, Jumps, FallsThrough
  <1>6. CASE PrintValue
    BY <1>1, <1>6, NextPlace, QuietOn DEF PrintValue, FallsThrough, Next1
  <1>7. CASE CheckAlive
    BY <1>0, <1>1, <1>7, NextPlace, GotoOn, RaiseOn DEF CheckAlive, FallsThrough
  <1>8. CASE Revive
    BY <1>1, <1>8, NextPlace, QuietOn DEF Revive, FallsThrough, Next1
  <1> QED BY <1>2, <1>3, <1>4, <1>5, <1>6, <1>7, <1>8

(* A register of the running frame is written, as `at` of the stack.       *)
LEMMA PutRemembers ==
  ASSUME FrameInv, outcome = Running, NEW r \in 0..(ChunkOf(Top).nregs - 1), NEW v
  PROVE  /\ \A s \in Nat : s < Top.base => Put(r, v)[s] = regs[s]
         /\ \A q \in 0..(ChunkOf(Top).nregs - 1) :
              Put(r, v)[Top.base + q] = IF q = r THEN v ELSE regs[Top.base + q]
  <1>1. /\ Top.base \in Nat /\ height \in Nat /\ ChunkOf(Top).nregs \in Nat
        /\ Top.base + ChunkOf(Top).nregs <= height /\ DOMAIN regs = 0..(height - 1)
    BY TopIsPlaced
  <1>2. Top.base + r \in DOMAIN regs
    BY <1>1
  <1>3. \A s : Put(r, v)[s] = IF s = Top.base + r THEN v ELSE regs[s]
    BY <1>2 DEF Put
  <1>4. ASSUME NEW q \in 0..(ChunkOf(Top).nregs - 1)
        PROVE  Put(r, v)[Top.base + q] = IF q = r THEN v ELSE regs[Top.base + q]
    <2>1. Top.base + q = Top.base + r <=> q = r
      BY <1>1
    <2> QED BY <1>3, <2>1
  <1>5. ASSUME NEW s \in Nat, s < Top.base PROVE Put(r, v)[s] = regs[s]
    <2>1. s # Top.base + r
      BY <1>1, <1>5
    <2> QED BY <1>3, <2>1
  <1> QED BY <1>4, <1>5

(* A register written with a value of the program forgets.                 *)
LEMMA PutForgets ==
  ASSUME FrameInv, outcome = Running, NEW r \in 0..(ChunkOf(Top).nregs - 1),
         NEW v, Saving(v) = Unit
  PROVE  Remembered(image, Put(r, v), Top) = Without(Remembered(image, regs, Top), {r})
  <1>1. \A q \in 0..(image[Top.chunk].nregs - 1) :
          Saving(Put(r, v)[Top.base + q]) =
            IF q \in {r} THEN Unit ELSE Saving(regs[Top.base + q])
    BY PutRemembers DEF ChunkOf
  <1> QED BY <1>1, RememberedWithout

(* RangeStep and DestroyLocal keep the invariant.                          *)
LEMMA CountersKeepHandlers ==
  ASSUME NEW K, HandlerInv(K), FrameInv', RangeStepOn \/ DestroyLocal
  PROVE  HandlerInv(K)'
  <1>0. "_" # NoError /\ "Type" # NoError
    BY DEF NoError
  <1>1. /\ outcome = Running /\ raising = NoError /\ Plain(Instr)
        /\ Instr.op \in {"RangeStep", "DestroyLocal"}
        /\ Instr.op \notin {"TryRethrow", "Call"} /\ Writes(Instr) = {Instr.a}
        /\ FallsThrough(Instr)
    BY DEF RangeStepOn, DestroyLocal, Runs, Plain, Writes, Arithmetic, Order, FallsThrough
  <1>2. Instr.a \in 0..(ChunkOf(Top).nregs - 1) /\ FrameInv
    BY <1>1, HereIsSound DEF Sound, HandlerInv
  <1>3. ip + 1 \in GoesTo(Instr, Here)
    BY <1>1, NextPlace
  <1>4. ASSUME NEW v, Saving(v) = Unit
        PROVE  /\ \A s \in Nat : s < Top.base => Put(Instr.a, v)[s] = regs[s]
               /\ Remembered(image, Put(Instr.a, v), Top) = Without(Here.saves, Writes(Instr))
    BY <1>1, <1>2, <1>4, PutRemembers, PutForgets, HereIsSound
  <1>5. CASE Raise("_") \/ Raise("Type")
    BY <1>0, <1>1, <1>5, RaiseOn
  <1>6. CASE DestroyLocal /\ ~ Raise("_")
    <2>1. regs' = Put(Instr.a, Unit)
      BY <1>6 DEF DestroyLocal
    <2> QED BY <1>1, <1>3, <1>4, <1>6, <2>1, PlainValues, PlainStep DEF DestroyLocal, Next1
  <1>7. CASE RangeStepOn /\ ~ Raise("Type")
    <2>1. /\ IsInt(Reg(Instr.a)) /\ UNCHANGED <<image, frames, writeback, raising, outcome>>
          /\ \/ ip' = ip + 1 /\ regs' = regs
             \/ ip' = Instr.to /\ \E n : regs' = Put(Instr.a, IntV(n))
      BY <1>7 DEF RangeStepOn
    <2>2. CASE ip' = ip + 1 /\ regs' = regs
      <3>1. \A q \in 0..(image[Top.chunk].nregs - 1) :
              Saving(regs[Top.base + q]) =
                IF q \in {Instr.a} THEN Unit ELSE Saving(regs[Top.base + q])
        BY <2>1, PlainValues DEF Reg
      <3>2. Remembered(image, regs, Top) = Without(Here.saves, Writes(Instr))
        BY <3>1, <1>1, RememberedWithout, HereIsSound
      <3> QED BY <1>1, <1>3, <2>1, <2>2, <3>2, PlainStep
    <2>3. CASE ip' = Instr.to /\ \E n : regs' = Put(Instr.a, IntV(n))
      <3>1. PICK n : regs' = Put(Instr.a, IntV(n))
        BY <2>3
      <3>2. Instr.to \in GoesTo(Instr, Here)
        <4>1. Instr.op = "RangeStep"
          BY <1>7 DEF RangeStepOn, Runs
        <4> QED BY <4>1, <1>1, NextPlace DEF Jumps
      <3> QED BY <1>1, <1>4, <2>1, <2>3, <3>1, <3>2, PlainValues, PlainStep
    <2> QED BY <2>1, <2>2, <2>3
  <1> QED BY <1>5, <1>6, <1>7

(* SetupOutputWriteback: what is lent is written down for the call.        *)
LEMMA LendingKeepsHandlers ==
  ASSUME NEW K, HandlerInv(K), FrameInv', SetupOutputWriteback
  PROVE  HandlerInv(K)'
  <1>1. outcome = Running /\ raising = NoError /\ Instr.op = "SetupOutputWriteback"
    BY DEF SetupOutputWriteback, Runs
  <1>2. ip' = ip + 1 /\ ip + 1 \in GoesTo(Instr, Here)
    BY <1>1, NextPlace DEF SetupOutputWriteback, Next1, FallsThrough
  <1>3. Writes(Instr) = {}
    BY <1>1 DEF Writes, Arithmetic, Order
  <1>4. /\ CatchAfter(Instr, Here) = Top.catch /\ TagsAfter(Instr, Here) = Tags(Top.pending)
        /\ SavesAfter(Instr, Here) = Remembered(image, regs, Top)
        /\ LentAfter(Instr, Here) = writeback'
    <2>1. SavesAfter(Instr, Here) = Without(Remembered(image, regs, Top), {})
      BY <1>1, <1>3, HereIsSound DEF SavesAfter
    <2>2. LentAfter(Instr, Here) = Instr.pairs
      BY <1>1 DEF LentAfter
    <2>3. CatchAfter(Instr, Here) = Top.catch /\ TagsAfter(Instr, Here) = Tags(Top.pending)
      BY <1>1, HereIsSound DEF CatchAfter, TagsAfter
    <2> QED BY <2>1, <2>2, <2>3, WithoutNone DEF SetupOutputWriteback
  <1>5. HeldBy(image, regs', Top, ip', writeback') = Ended(Instr, Here, ip')
    BY <1>4 DEF HeldBy, Ended, SetupOutputWriteback
  <1>6. frames' = OnTop(Top) /\ Notes(image, Top)
    BY <1>1, StackFits, TopNotes DEF HandlerInv, SetupOutputWriteback
  <1> QED BY <1>1, <1>2, <1>5, <1>6, StepOn DEF SetupOutputWriteback

-----------------------------------------------------------------------------
(* `!?`.                                                                   *)

(* A frame with another handler or other errors is the frame it was.       *)
LEMMA NotedFrame ==
  ASSUME NEW t, IsFrame(t), NEW c, NEW p
  PROVE  /\ LET f == [t EXCEPT !.catch = c]
            IN  /\ f.base = t.base /\ f.ret = t.ret /\ f.wb = t.wb /\ f.chunk = t.chunk
                /\ f.catch = c /\ f.pending = t.pending
         /\ LET f == [t EXCEPT !.pending = p]
            IN  /\ f.base = t.base /\ f.ret = t.ret /\ f.wb = t.wb /\ f.chunk = t.chunk
                /\ f.catch = t.catch /\ f.pending = p
         /\ LET f == [t EXCEPT !.catch = c, !.pending = p]
            IN  /\ f.base = t.base /\ f.ret = t.ret /\ f.wb = t.wb /\ f.chunk = t.chunk
                /\ f.catch = c /\ f.pending = p
  BY DEF IsFrame

(* TryBegin remembers the armed handler and arms its own.                  *)
LEMMA ArmingKeepsHandlers ==
  ASSUME NEW K, HandlerInv(K), FrameInv', ArmHandler
  PROVE  HandlerInv(K)'
  <1> DEFINE f == [Top EXCEPT !.catch = Instr.to]
             v == SavedV(Len(Top.pending), Top.catch)
  <1>1. outcome = Running /\ raising = NoError /\ Instr.op = "TryBegin" /\ FrameInv
    BY DEF ArmHandler, Runs, HandlerInv
  <1>2. /\ f.base = Top.base /\ f.ret = Top.ret /\ f.wb = Top.wb /\ f.chunk = Top.chunk
        /\ f.catch = Instr.to /\ f.pending = Top.pending
    BY <1>1, TopFits, NotedFrame
  <1>3. ip' = ip + 1 /\ ip + 1 \in GoesTo(Instr, Here)
    BY <1>1, NextPlace DEF ArmHandler, Next1, FallsThrough
  <1>4. Instr.d \in 0..(ChunkOf(Top).nregs - 1)
    BY <1>1, HereIsSound DEF Sound
  <1>5. Notes(image, Top)
    BY <1>1, TopNotes
  <1>6. Len(Here.tags) = Len(Top.pending)
    BY <1>1, <1>5, HereIsSound, TagsOfPending DEF Notes
  <1>7. /\ frames' = OnTop(f) /\ regs' = Put(Instr.d, v)
        /\ UNCHANGED <<image, writeback, raising, outcome>>
    BY DEF ArmHandler
  <1> HIDE DEF f
  <1>8. /\ \A s \in Nat : s < Top.base => regs'[s] = regs[s]
        /\ \A q \in 0..(ChunkOf(Top).nregs - 1) :
             regs'[Top.base + q] = IF q = Instr.d THEN v ELSE regs[Top.base + q]
    <2> HIDE DEF v
    <2> QED BY <1>1, <1>4, <1>7, PutRemembers
  <1>9. Remembered(image, regs', f) = SavesAfter(Instr, Here)
    <2>1. SavesAfter(Instr, Here) = [Here.saves EXCEPT ![Instr.d] = v]
      BY <1>1, <1>6, HereIsSound DEF SavesAfter
    <2>2. Saving(v) = v
      BY DEF Saving, SavedV
    <2> HIDE DEF v
    <2>3. SavesAfter(Instr, Here) =
            [r \in 0..(ChunkOf(Top).nregs - 1) |->
               IF r = Instr.d THEN v ELSE Saving(regs[Top.base + r])]
      BY <1>1, <2>1, HereIsSound DEF Remembered, ChunkOf
    <2>4. Remembered(image, regs', f) =
            [r \in 0..(ChunkOf(Top).nregs - 1) |-> Saving(regs'[Top.base + r])]
      BY <1>2 DEF Remembered, ChunkOf
    <2> QED BY <1>8, <2>2, <2>3, <2>4
  <1>10. /\ CatchAfter(Instr, Here) = f.catch /\ TagsAfter(Instr, Here) = Tags(f.pending)
         /\ LentAfter(Instr, Here) = writeback'
    BY <1>1, <1>2, <1>7, HereIsSound DEF CatchAfter, TagsAfter, LentAfter
  <1>11. HeldBy(image, regs', f, ip', writeback') = Ended(Instr, Here, ip')
    BY <1>9, <1>10 DEF HeldBy, Ended
  <1>12. Notes(image, f)
    BY <1>2, <1>5 DEF Notes
  <1> QED BY <1>1, <1>2, <1>3, <1>7, <1>8, <1>11, <1>12, StepOn

(* The running frame's notes change, and no register.                      *)
LEMMA NotingOn ==
  ASSUME NEW K, HandlerInv(K), FrameInv', outcome = Running, raising = NoError,
         Instr.op \in {"TryEnd", "TryHandled"},
         NEW f, SetTop(f), f.base = Top.base, f.ret = Top.ret,
         f.wb = Top.wb, f.chunk = Top.chunk, Notes(image, f),
         f.catch = CatchAfter(Instr, Here), Tags(f.pending) = TagsAfter(Instr, Here)
  PROVE  HandlerInv(K)'
  <1>1. /\ frames' = OnTop(f) /\ ip' = ip + 1
        /\ UNCHANGED <<image, regs, writeback, raising, outcome>>
    BY DEF SetTop, Next1
  <1>2. ip' \in GoesTo(Instr, Here)
    BY <1>1, NextPlace DEF FallsThrough
  <1>3. Writes(Instr) = {}
    BY DEF Writes, Arithmetic, Order
  <1>4. Remembered(image, regs, f) = Remembered(image, regs, Top)
    BY RememberedAlike
  <1>5. SavesAfter(Instr, Here) = Remembered(image, regs, f)
    BY <1>3, <1>4, WithoutNone, HereIsSound DEF SavesAfter
  <1>6. LentAfter(Instr, Here) = writeback
    BY HereIsSound DEF LentAfter
  <1>7. HeldBy(image, regs', f, ip', writeback') = Ended(Instr, Here, ip')
    BY <1>1, <1>5, <1>6 DEF HeldBy, Ended
  <1> QED BY <1>1, <1>2, <1>7, StepOn

(* TryEnd arms what the register remembers.                                *)
LEMMA DisarmingKeepsHandlers ==
  ASSUME NEW K, HandlerInv(K), FrameInv', DisarmHandler
  PROVE  HandlerInv(K)'
  <1> DEFINE f == [Top EXCEPT !.catch = SavedHandler(Reg(Instr.a))]
  <1>1. /\ outcome = Running /\ raising = NoError /\ Instr.op = "TryEnd" /\ FrameInv
        /\ SetTop(f)
    BY DEF DisarmHandler, Runs, HandlerInv
  <1>2. /\ f.base = Top.base /\ f.ret = Top.ret /\ f.wb = Top.wb /\ f.chunk = Top.chunk
        /\ f.catch = SavedHandler(Reg(Instr.a)) /\ f.pending = Top.pending
    BY <1>1, TopFits, NotedFrame
  <1> HIDE DEF f
  <1>3. Notes(image, f)
    BY <1>1, <1>2, TopNotes DEF Notes
  <1>4. f.catch = CatchAfter(Instr, Here)
    <2>1. Instr.a \in DOMAIN Here.saves
      BY <1>1, HereIsSound DEF Sound
    <2>2. SavedHandler(Here.saves[Instr.a]) = SavedHandler(Reg(Instr.a))
      BY <1>1, <2>1, HereIsSound, SavesSay
    <2> QED BY <1>1, <1>2, <2>2 DEF CatchAfter
  <1>5. Tags(f.pending) = TagsAfter(Instr, Here)
    BY <1>1, <1>2, HereIsSound DEF TagsAfter
  <1> QED BY <1>1, <1>2, <1>3, <1>4, <1>5, NotingOn

(* The frame whose last error is settled.                                  *)
LEMMA SettledFrame ==
  ASSUME NEW K, HandlerInv(K), outcome = Running, raising = NoError, PendingIsOurs
  PROVE  /\ Settled.base = Top.base /\ Settled.ret = Top.ret /\ Settled.wb = Top.wb
         /\ Settled.chunk = Top.chunk /\ Settled.catch = Top.catch
         /\ Tags(Settled.pending) = ButLast(Tags(Top.pending))
         /\ Notes(image, Settled)
         /\ Top.pending[Len(Top.pending)].kind # NoError
  <1> DEFINE p == SubSeq(Top.pending, 1, Len(Top.pending) - 1)
  <1>1. /\ Settled.base = Top.base /\ Settled.ret = Top.ret /\ Settled.wb = Top.wb
        /\ Settled.chunk = Top.chunk /\ Settled.catch = Top.catch
        /\ Settled.pending = p
    <2>1. Settled = [Top EXCEPT !.pending = p]
      BY DEF Settled
    <2> HIDE DEF p
    <2> QED BY <2>1, TopFits, NotedFrame DEF HandlerInv
  <1>2. PICK S : Top.pending \in Seq(S) /\ \A e \in S : e.kind # NoError
    BY TopNotes DEF Notes
  <1>3. Top.pending # <<>>
    BY DEF PendingIsOurs
  <1>4. p \in Seq(S) /\ Tags(p) = ButLast(Tags(Top.pending))
    BY <1>2, <1>3, TagsButLast
  <1>5. Top.pending[Len(Top.pending)] \in S
    BY <1>2, <1>3, NoTags, LenProperties
  <1>6. Notes(image, Settled)
    BY <1>1, <1>2, <1>4, TopNotes DEF Notes
  <1> QED BY <1>1, <1>2, <1>4, <1>5, <1>6

(* The last error is this `!?`'s exactly when its tag says so.             *)
LEMMA OursIsOurs ==
  ASSUME NEW K, HandlerInv(K), outcome = Running, raising = NoError
  PROVE  PendingIsOurs <=> IsOurs(Instr, Here.tags)
  <1>1. PICK S : Top.pending \in Seq(S)
    BY TopNotes DEF Notes
  <1>2. Here.tags = Tags(Top.pending) /\ (Here.tags = <<>> <=> Top.pending = <<>>)
    BY <1>1, HereIsSound, NoTags
  <1>3. Top.pending # <<>> => Here.tags[Len(Here.tags)] = Top.pending[Len(Top.pending)].tag
    BY <1>1, <1>2, TagsButLast
  <1> QED BY <1>2, <1>3 DEF PendingIsOurs, IsOurs

(* TryHandled settles the error.                                           *)
LEMMA HandlingKeepsHandlers ==
  ASSUME NEW K, HandlerInv(K), FrameInv', HandleError
  PROVE  HandlerInv(K)'
  <1>1. /\ outcome = Running /\ raising = NoError /\ Instr.op = "TryHandled"
    BY DEF HandleError, Runs
  <1>2. CatchAfter(Instr, Here) = Top.catch
    BY <1>1, HereIsSound DEF CatchAfter
  <1>3. CASE PendingIsOurs
    <2>1. SetTop(Settled)
      BY <1>3 DEF HandleError
    <2>2. TagsAfter(Instr, Here) = ButLast(Tags(Top.pending))
      BY <1>1, <1>3, OursIsOurs, HereIsSound DEF TagsAfter
    <2> QED BY <1>1, <1>2, <1>3, <2>1, <2>2, SettledFrame, NotingOn
  <1>4. CASE ~ PendingIsOurs
    <2>1. SetTop(Top)
      BY <1>4 DEF HandleError
    <2>2. TagsAfter(Instr, Here) = Tags(Top.pending)
      BY <1>1, <1>4, OursIsOurs, HereIsSound DEF TagsAfter
    <2> QED BY <1>1, <1>2, <2>1, <2>2, TopNotes, NotingOn
  <1> QED BY <1>3, <1>4

(* TryRethrow raises it again, or goes on.                                 *)
LEMMA RethrowKeepsHandlers ==
  ASSUME NEW K, HandlerInv(K), FrameInv', Rethrow
  PROVE  HandlerInv(K)'
  <1>1. /\ outcome = Running /\ raising = NoError /\ Instr.op = "TryRethrow"
    BY DEF Rethrow, Runs
  <1>2. CASE PendingIsOurs
    <2>1. /\ raising' = Top.pending[Len(Top.pending)].kind /\ frames' = OnTop(Settled)
          /\ UNCHANGED <<image, regs, writeback, outcome>>
      BY <1>2 DEF Rethrow
    <2>2. writeback = <<>>
      BY <1>1, HereIsSound DEF Sound
    <2>3. Raised(Instr, Here) = HeldBy(image, regs, Settled, ip, <<>>)
      <3>1. Raised(Instr, Here) =
              Holding(ip, Top.catch, ButLast(Tags(Top.pending)),
                      Remembered(image, regs, Top), <<>>)
        BY <1>1, <1>2, <2>2, OursIsOurs, HereIsSound DEF Raised
      <3>2. Remembered(image, regs, Settled) = Remembered(image, regs, Top)
        BY <1>1, <1>2, SettledFrame, RememberedAlike
      <3> QED BY <1>1, <1>2, <3>1, <3>2, SettledFrame DEF HeldBy
    <2>4. Landed(HeldBy(image, regs, Settled, 0, <<>>)) = Landed(Raised(Instr, Here))
      BY <2>3, LandedAnywhere
    <2> QED BY <1>1, <1>2, <2>1, <2>2, <2>4, SettledFrame, StepRaises
  <1>3. CASE ~ PendingIsOurs
    <2>1. Goto(ip + 1)
      BY <1>3 DEF Rethrow
    <2>2. ip + 1 \in GoesTo(Instr, Here)
      BY <1>1, <1>3, OursIsOurs, HereIsSound DEF GoesTo, FallsThrough
    <2>3. Plain(Instr) /\ Writes(Instr) = {}
      BY <1>1 DEF Plain, Writes, Arithmetic, Order
    <2> QED BY <1>1, <2>1, <2>2, <2>3, GotoOn
  <1> QED BY <1>2, <1>3

(* TryLand arms what the register remembers and notes the error.           *)
LEMMA LandingKeepsHandlers ==
  ASSUME NEW K, HandlerInv(K), FrameInv', LandError
  PROVE  HandlerInv(K)'
  <1> DEFINE k == SavedPending(Reg(Instr.a))
             x == Pending(Instr.a, inFlight)
             p == Append(SubSeq(Top.pending, 1, k), x)
             c == SavedHandler(Reg(Instr.a))
             f == [Top EXCEPT !.catch = c, !.pending = p]
  <1>1. /\ outcome = Running /\ raising = NoError /\ Instr.op = "TryLand" /\ FrameInv
        /\ inFlight # NoError
    BY DEF LandError, Runs, HandlerInv
  <1>2. /\ f.base = Top.base /\ f.ret = Top.ret /\ f.wb = Top.wb /\ f.chunk = Top.chunk
        /\ f.catch = c /\ f.pending = p
    <2> HIDE DEF c, p
    <2> QED BY <1>1, TopFits, NotedFrame
  <1>3. /\ frames' = OnTop(f) /\ regs' = Put(Instr.d, ErrorV(inFlight)) /\ ip' = ip + 1
        /\ UNCHANGED <<image, writeback, raising, outcome>>
    BY DEF LandError, Next1
  <1>4. /\ Instr.a \in DOMAIN Here.saves /\ Instr.d \in 0..(ChunkOf(Top).nregs - 1)
        /\ SavedPending(Here.saves[Instr.a]) \in 0..Len(Here.tags)
        /\ Writes(Instr) = {Instr.d}
    <2>1. Writes(Instr) = {Instr.d}
      BY <1>1 DEF Writes, Arithmetic, Order
    <2> QED BY <1>1, <2>1, HereIsSound DEF Sound
  <1>5. SavedPending(Here.saves[Instr.a]) = k /\ SavedHandler(Here.saves[Instr.a]) = c
    BY <1>1, <1>4, HereIsSound, SavesSay
  <1>6. PICK S : Top.pending \in Seq(S) /\ \A e \in S : e.kind # NoError
    BY <1>1, TopNotes DEF Notes
  <1>7. /\ p \in Seq(S \cup {x})
        /\ Tags(p) = Append(SubSeq(Tags(Top.pending), 1, k), x.tag)
    <2>1. k \in 0..Len(Top.pending)
      BY <1>1, <1>4, <1>5, <1>6, TagsOfPending, HereIsSound
    <2> HIDE DEF x, k
    <2> QED BY <1>6, <2>1, TagsLanded
  <1>8. x.tag = Instr.a /\ x.kind # NoError
    BY <1>1 DEF Pending
  <1> HIDE DEF x, k, c, p, f
  <1>9. Notes(image, f)
    <2>1. \A e \in S \cup {x} : e.kind # NoError
      BY <1>6, <1>8
    <2> QED BY <1>1, <1>2, <1>7, <2>1, TopNotes DEF Notes
  <1>10. /\ CatchAfter(Instr, Here) = f.catch /\ TagsAfter(Instr, Here) = Tags(f.pending)
         /\ LentAfter(Instr, Here) = writeback
    BY <1>1, <1>2, <1>5, <1>7, <1>8, HereIsSound DEF CatchAfter, TagsAfter, LentAfter
  <1>11. /\ \A s \in Nat : s < Top.base => regs'[s] = regs[s]
         /\ Remembered(image, regs', Top) = Without(Here.saves, Writes(Instr))
    BY <1>1, <1>3, <1>4, PutRemembers, PutForgets, PlainValues, HereIsSound
  <1>12. SavesAfter(Instr, Here) = Remembered(image, regs', f)
    <2>1. SavesAfter(Instr, Here) = Remembered(image, regs', Top)
      BY <1>1, <1>11 DEF SavesAfter
    <2> QED BY <1>2, <2>1, RememberedAlike
  <1>13. HeldBy(image, regs', f, ip', writeback') = Ended(Instr, Here, ip')
    BY <1>3, <1>10, <1>12 DEF HeldBy, Ended
  <1>14. ip' \in GoesTo(Instr, Here)
    BY <1>1, <1>3, NextPlace DEF FallsThrough
  <1> QED BY <1>1, <1>2, <1>3, <1>9, <1>11, <1>13, <1>14, StepOn

(* An error reaches the handler of the frame it is in.                     *)
LEMMA CatchingKeepsHandlers ==
  ASSUME NEW K, HandlerInv(K), FrameInv', LandAtHandler
  PROVE  HandlerInv(K)'
  <1> DEFINE f == [Top EXCEPT !.catch = NoHandler]
  <1>1. /\ outcome = Running /\ raising # NoError /\ Top.catch # NoHandler /\ FrameInv
        /\ ip' = Top.catch /\ frames' = OnTop(f) /\ inFlight' = raising
        /\ raising' = NoError /\ UNCHANGED <<image, regs, writeback, outcome>>
    BY DEF LandAtHandler, HandlerInv
  <1>2. /\ f.base = Top.base /\ f.ret = Top.ret /\ f.wb = Top.wb /\ f.chunk = Top.chunk
        /\ f.catch = NoHandler /\ f.pending = Top.pending
    BY <1>1, TopFits, NotedFrame
  <1> HIDE DEF f
  <1>3. Notes(image, f)
    BY <1>1, <1>2, TopNotes DEF Notes
  <1>4. Below(K, image, regs', frames') /\ Top' = f
    BY <1>1, <1>2, <1>3, BelowOnTop DEF HandlerInv, Top
  <1>5. Landed(HeldBy(image, regs, Top, 0, <<>>)) =
          {HeldBy(image, regs, f, Top.catch, <<>>)}
    <2>1. Remembered(image, regs, f) = Remembered(image, regs, Top)
      BY <1>2, RememberedAlike
    <2>2. Landed(HeldBy(image, regs, Top, 0, <<>>)) =
            {Holding(Top.catch, NoHandler, Tags(Top.pending), Remembered(image, regs, Top), <<>>)}
      BY <1>1, HeldParts DEF Landed
    <2> QED BY <1>2, <2>1, <2>2 DEF HeldBy
  <1>6. RunsOn(K, image, regs', f, ip', writeback')
    BY <1>1, <1>2, <1>5 DEF HandlerInv, Unwinds, RunsOn
  <1> QED BY <1>1, <1>4, <1>6 DEF HandlerInv

(* The program is over.                                                    *)
LEMMA EndingKeepsHandlers ==
  ASSUME NEW K, HandlerInv(K), FrameInv', ReturnFromMain \/ HaltProgram \/ Uncaught
  PROVE  HandlerInv(K)'
  <1>1. outcome' # Running /\ image' = image
    BY DEF ReturnFromMain, HaltProgram, Uncaught, Failed, Exit, Running, Done
  <1> QED BY <1>1 DEF HandlerInv

-----------------------------------------------------------------------------
(* Leaving a frame.                                                        *)

(* A set of naturals has a least element: induction, with no operator to   *)
(* instantiate.                                                            *)
LEMMA LeastNatural ==
  ASSUME NEW T, T \subseteq Nat, T # {}
  PROVE  \E x \in T : \A y \in T : x <= y
  <1> DEFINE R == {p \in Nat \X Nat : p[1] < p[2]}
  <1>1. IsWellFoundedOn(R, Nat)
    BY NatLessThanWellFounded DEF OpToRel
  <1>2. PICK x \in T : \A y \in T : ~ (<<y, x>> \in R)
    <2> HIDE DEF R
    <2> QED BY <1>1, WFMin
  <1>3. \A y \in T : ~ (y < x)
    BY <1>2
  <1> QED BY <1>3

(* A set of naturals with a bound has a greatest.                          *)
LEMMA GreatestUpTo ==
  ASSUME NEW n \in Nat, NEW T, T \subseteq 1..n, T # {}
  PROVE  \E x \in T : \A y \in T : y <= x
  <1> DEFINE U == {n - x : x \in T}
  <1>1. PICK u \in U : \A v \in U : u <= v
    <2>1. U \subseteq Nat
      OBVIOUS
    <2>2. U # {}
      <3>1. PICK t \in T : TRUE
        OBVIOUS
      <3> QED BY <3>1
    <2> HIDE DEF U
    <2> QED BY <2>1, <2>2, LeastNatural
  <1>2. PICK x \in T : u = n - x
    BY <1>1
  <1>3. \A y \in T : n - x <= n - y
    BY <1>1, <1>2
  <1> QED BY <1>2, <1>3

(* What a frame gives back remembers no handler, and is found where it was *)
(* lent from.                                                              *)
LEMMA GivesBack ==
  ASSUME Notes(image, Top), PlainParameters(image, regs, Top), NEW to \in Nat
  PROVE  /\ \A r \in Nat : \A v :
              IF r \in Given(Top.wb)
              THEN Saving(GivenBack(Top.wb, Top.base, to, to + r, v)) = Unit
              ELSE GivenBack(Top.wb, Top.base, to, to + r, v) = v
         /\ \A s \in Nat : \A v : s < to => GivenBack(Top.wb, Top.base, to, s, v) = v
  <1>1. /\ Len(Top.wb) \in Nat /\ DOMAIN Top.wb = 1..Len(Top.wb)
        /\ \A n \in 1..Len(Top.wb) : Top.wb[n] \in Nat \X Nat
        /\ \A n \in DOMAIN Top.wb : Saving(regs[Top.base + Top.wb[n][1]]) = Unit
    BY LenProperties DEF Notes, PlainParameters
  <1>2. ASSUME NEW s, NEW v
        PROVE  LET here == {i \in DOMAIN Top.wb : to + Top.wb[i][2] = s}
               IN  IF here = {} THEN GivenBack(Top.wb, Top.base, to, s, v) = v
                   ELSE Saving(GivenBack(Top.wb, Top.base, to, s, v)) = Unit
    <2> DEFINE here == {i \in DOMAIN Top.wb : to + Top.wb[i][2] = s}
    <2>1. CASE here = {}
      BY <2>1 DEF GivenBack
    <2>2. CASE here # {}
      <3>1. \E i \in here : \A j \in here : j <= i
        <4>1. here \subseteq 1..Len(Top.wb)
          BY <1>1
        <4> HIDE DEF here
        <4> QED BY <1>1, <2>2, <4>1, GreatestUpTo
      <3> DEFINE last == CHOOSE i \in here : \A j \in here : j <= i
      <3>2. last \in here
        <4> HIDE DEF here
        <4> QED BY <3>1
      <3>3. GivenBack(Top.wb, Top.base, to, s, v) = regs[Top.base + Top.wb[last][1]]
        BY <2>2 DEF GivenBack
      <3>4. last \in DOMAIN Top.wb
        <4> HIDE DEF last
        <4> QED BY <3>2
      <3> QED BY <1>1, <2>2, <3>3, <3>4
    <2> QED BY <2>1, <2>2
  <1>3. ASSUME NEW r \in Nat, NEW v
        PROVE  IF r \in Given(Top.wb)
               THEN Saving(GivenBack(Top.wb, Top.base, to, to + r, v)) = Unit
               ELSE GivenBack(Top.wb, Top.base, to, to + r, v) = v
    <2> DEFINE here == {i \in DOMAIN Top.wb : to + Top.wb[i][2] = to + r}
    <2>1. here # {} <=> r \in Given(Top.wb)
      BY <1>1 DEF Given
    <2>2. IF here = {} THEN GivenBack(Top.wb, Top.base, to, to + r, v) = v
          ELSE Saving(GivenBack(Top.wb, Top.base, to, to + r, v)) = Unit
      BY <1>2
    <2> HIDE DEF here
    <2> QED BY <2>1, <2>2
  <1>4. ASSUME NEW s \in Nat, NEW v, s < to
        PROVE  GivenBack(Top.wb, Top.base, to, s, v) = v
    <2> DEFINE here == {i \in DOMAIN Top.wb : to + Top.wb[i][2] = s}
    <2>1. here = {}
      BY <1>1, <1>4
    <2>2. IF here = {} THEN GivenBack(Top.wb, Top.base, to, s, v) = v
          ELSE Saving(GivenBack(Top.wb, Top.base, to, s, v)) = Unit
      BY <1>2
    <2> HIDE DEF here
    <2> QED BY <2>1, <2>2
  <1> QED BY <1>3, <1>4

(* The frame below the running one waits for it.                           *)
LEMMA CallerWaits ==
  ASSUME NEW K, HandlerInv(K), outcome = Running, Len(frames) > 1
  PROVE  LET c == frames[Len(frames) - 1]
         IN  /\ c.base \in Nat /\ image[c.chunk].nregs \in Nat /\ c.chunk \in DOMAIN image
             /\ c.base + image[c.chunk].nregs <= Top.base
             /\ Notes(image, c) /\ Waits(K, image, regs, c, Top)
             /\ PopFrame[Len(PopFrame)] = c
  <1> DEFINE L == Len(frames)
             c == frames[L - 1]
  <1>1. /\ frames \in Seq(Elements(frames)) /\ DOMAIN frames = 1..L /\ L \in Nat /\ L > 1
        /\ Placed(image, frames)
    BY StackFits DEF HandlerInv
  <1>2. L - 1 \in 1..L /\ L \in 1..L /\ L - 1 < L /\ (L - 1) + 1 = L
    <2> HIDE DEF L
    <2> QED BY <1>1
  <1>3. c.base \in Nat /\ image[c.chunk].nregs \in Nat
    BY <1>1, <1>2 DEF Placed
  <1>4. c.chunk \in DOMAIN image
    BY <1>1, <1>2 DEF HandlerInv, FrameInv, FramesAreFrames, IsFrame
  <1>5. /\ c.base + image[c.chunk].nregs <= Top.base
        /\ Notes(image, c) /\ Waits(K, image, regs, c, Top)
    <2>1. Below(K, image, regs, frames)
      BY DEF HandlerInv
    <2>2. c.base + image[c.chunk].nregs <= Top.base
      BY <2>1, <1>1, <1>2 DEF Below, Top
    <2>3. Notes(image, c)
      BY <2>1, <1>1, <1>2 DEF Below
    <2>4. Waits(K, image, regs, frames[L - 1], frames[(L - 1) + 1])
      BY <2>1, <1>1, <1>2 DEF Below
    <2> QED BY <2>2, <2>3, <2>4, <1>2 DEF Top
  <1>6. PopFrame[Len(PopFrame)] = c
    <2>1. /\ Len(PopFrame) = L - 1
          /\ \A n \in 1..(L - 1) : PopFrame[n] = frames[n]
      BY <1>1, SubSeqProperties, LenProperties DEF PopFrame
    <2>2. L - 1 \in 1..(L - 1)
      <3> HIDE DEF L
      <3> QED BY <1>1
    <2> QED BY <2>1, <2>2
  <1> QED BY <1>3, <1>4, <1>5, <1>6

(* What the caller held at its call.                                       *)
LEMMA CallerHeld ==
  ASSUME NEW K, HandlersKept(image, K), NEW c, NEW g, c.chunk \in DOMAIN image,
         Waits(K, image, regs, c, g)
  PROVE  \E h \in K[c.chunk] :
           LET i == image[c.chunk].code[h.at + 1]
           IN  /\ i.op = "Call" /\ i.d = g.ret /\ c.ip = h.at + 1 /\ g.wb = h.lent
               /\ Sound(image, image[c.chunk], i, h) /\ Onward(i, h) \subseteq K[c.chunk]
               /\ c.catch = h.catch /\ Tags(c.pending) = h.tags
               /\ DOMAIN h.saves = 0..(image[c.chunk].nregs - 1)
               /\ \A r \in DOMAIN h.saves :
                    Saving(regs[c.base + r]) =
                      IF r \in Given(h.lent) THEN Unit ELSE h.saves[r]
               /\ HeldBy(image, regs, c, h.at, <<>>) = Lends(h)
  <1>1. PICK h \in K[c.chunk] :
          /\ image[c.chunk].code[h.at + 1].op = "Call"
          /\ image[c.chunk].code[h.at + 1].d = g.ret
          /\ c.ip = h.at + 1
          /\ g.wb = h.lent
          /\ HeldBy(image, regs, c, h.at, <<>>) = Lends(h)
    BY DEF Waits
  <1> DEFINE i == image[c.chunk].code[h.at + 1]
  <1>2. Sound(image, image[c.chunk], i, h) /\ Onward(i, h) \subseteq K[c.chunk]
    BY DEF HandlersKept
  <1> HIDE DEF i
  <1>3. /\ c.catch = h.catch /\ Tags(c.pending) = h.tags
        /\ Remembered(image, regs, c) = Without(h.saves, Given(h.lent))
    BY <1>1, HeldParts, HoldingParts DEF Lends
  <1>4. /\ DOMAIN h.saves = 0..(image[c.chunk].nregs - 1)
        /\ \A r \in DOMAIN h.saves :
             Saving(regs[c.base + r]) = IF r \in Given(h.lent) THEN Unit ELSE h.saves[r]
    BY <1>3 DEF Remembered, Without
  <1> QED BY <1>1, <1>2, <1>3, <1>4 DEF i

(* The parameters of the running frame remember no handler.                *)
LEMMA PlainWhenSound ==
  ASSUME NEW K, HandlerInv(K), outcome = Running, raising = NoError
  PROVE  PlainParameters(image, regs, Top)
  <1> SUFFICES ASSUME NEW r \in 0..(ChunkOf(Top).params - 1)
               PROVE  Saving(Reg(r)) = Unit
    BY DEF PlainParameters, Reg, ChunkOf
  <1>1. r \in 0..(ChunkOf(Top).nregs - 1)
    BY TopIsPlaced DEF HandlerInv
  <1> QED BY <1>1, HereIsSound DEF Sound

(* The frames below the caller stay as they were when the callee is gone.  *)
LEMMA PoppedBelow ==
  ASSUME NEW K, HandlerInv(K), outcome = Running, Len(frames) > 1, NEW rs,
         \A s \in Nat : s < frames[Len(frames) - 1].base => rs[s] = regs[s]
  PROVE  Below(K, image, rs, PopFrame)
  <1>1. frames \in Seq(Elements(frames)) /\ Placed(image, frames) /\ Below(K, image, regs, frames)
    BY StackFits DEF HandlerInv
  <1> QED BY <1>1, BelowPopped DEF PopFrame

(* Return gives the caller the result and what it lent.                    *)
LEMMA ReturningKeepsHandlers ==
  ASSUME NEW K, HandlerInv(K), FrameInv', ReturnToCaller
  PROVE  HandlerInv(K)'
  <1> DEFINE c == frames[Len(frames) - 1]
             base == Top.base
             result == Reg(Instr.a)
             D(s) == IF s = c.base + Top.ret THEN result ELSE regs[s]
  <1>1. /\ outcome = Running /\ raising = NoError /\ Instr.op = "Return"
        /\ Len(frames) > 1 /\ FrameInv
    BY DEF ReturnToCaller, Runs, HandlerInv
  <1>2. /\ regs' = [s \in 0..(base - 1) |-> GivenBack(Top.wb, base, c.base, s, D(s))]
        /\ ip' = c.ip /\ frames' = PopFrame
        /\ UNCHANGED <<image, writeback, raising, outcome>>
    BY DEF ReturnToCaller
  <1>3. writeback = <<>> /\ Saving(result) = Unit
    <2>1. Instr.a \in Moves(Instr)
      BY <1>1 DEF Moves
    <2> QED BY <1>1, <2>1, HereIsSound DEF Sound
  <1>4. /\ c.base \in Nat /\ image[c.chunk].nregs \in Nat /\ c.chunk \in DOMAIN image
        /\ c.base + image[c.chunk].nregs <= base /\ base \in Nat
        /\ Notes(image, c) /\ Waits(K, image, regs, c, Top)
        /\ PopFrame[Len(PopFrame)] = c
    BY <1>1, CallerWaits, TopIsPlaced
  <1>5. PICK h \in K[c.chunk] :
           LET i == image[c.chunk].code[h.at + 1]
           IN  /\ i.op = "Call" /\ i.d = Top.ret /\ c.ip = h.at + 1 /\ Top.wb = h.lent
               /\ Sound(image, image[c.chunk], i, h) /\ Onward(i, h) \subseteq K[c.chunk]
               /\ c.catch = h.catch /\ Tags(c.pending) = h.tags
               /\ DOMAIN h.saves = 0..(image[c.chunk].nregs - 1)
               /\ \A r \in DOMAIN h.saves :
                    Saving(regs[c.base + r]) =
                      IF r \in Given(h.lent) THEN Unit ELSE h.saves[r]
    <2>1. HandlersKept(image, K) /\ c.chunk \in DOMAIN image /\ Waits(K, image, regs, c, Top)
      BY <1>4 DEF HandlerInv
    <2> HIDE DEF c
    <2> QED BY <2>1, CallerHeld
  <1> DEFINE i == image[c.chunk].code[h.at + 1]
  <1>6. Writes(i) = {i.d} /\ i.d \in DOMAIN h.saves
    BY <1>5 DEF Writes, Sound, Arithmetic, Order
  <1>7. /\ \A r \in Nat : \A v :
              IF r \in Given(h.lent)
              THEN Saving(GivenBack(Top.wb, base, c.base, c.base + r, v)) = Unit
              ELSE GivenBack(Top.wb, base, c.base, c.base + r, v) = v
        /\ \A s \in Nat : \A v : s < c.base => GivenBack(Top.wb, base, c.base, s, v) = v
    BY <1>1, <1>4, <1>5, GivesBack, TopNotes, PlainWhenSound
  <1> HIDE DEF c, i, base, result
  <1>8. \A r \in 0..(image[c.chunk].nregs - 1) :
          Saving(regs'[c.base + r]) =
            IF r \in Given(h.lent) \cup Writes(i) THEN Unit ELSE h.saves[r]
    <2> SUFFICES ASSUME NEW r \in 0..(image[c.chunk].nregs - 1)
                 PROVE  Saving(regs'[c.base + r]) =
                          IF r \in Given(h.lent) \cup Writes(i) THEN Unit ELSE h.saves[r]
      OBVIOUS
    <2>1. c.base + r \in 0..(base - 1) /\ r \in Nat
      BY <1>4
    <2>2. regs'[c.base + r] = GivenBack(Top.wb, base, c.base, c.base + r, D(c.base + r))
      BY <1>2, <2>1
    <2>3. CASE r \in Given(h.lent)
      BY <1>7, <2>1, <2>2, <2>3
    <2>4. CASE r \notin Given(h.lent) /\ r = i.d
      <3>1. D(c.base + r) = result
        BY <2>4, <1>5 DEF i
      <3> QED BY <1>3, <1>6, <1>7, <2>1, <2>2, <2>4, <3>1
    <2>5. CASE r \notin Given(h.lent) /\ r # i.d
      <3>1. Top.ret \in Int /\ r # Top.ret
        BY <1>5, <1>6, <2>5 DEF i
      <3>2. D(c.base + r) = regs[c.base + r]
        BY <1>4, <2>1, <3>1
      <3>3. Saving(regs[c.base + r]) = h.saves[r]
        BY <1>5, <2>5
      <3> QED BY <1>6, <1>7, <2>1, <2>2, <2>5, <3>2, <3>3
    <2> QED BY <2>3, <2>4, <2>5
  <1>9. HeldBy(image, regs', c, c.ip, <<>>) = Ended(i, h, h.at + 1)
    <2>1. SavesAfter(i, h) = Without(h.saves, Given(h.lent) \cup Writes(i))
      BY <1>5 DEF SavesAfter, i
    <2>2. Remembered(image, regs', c) = SavesAfter(i, h)
      BY <1>5, <1>8, <2>1 DEF Remembered, Without
    <2>3. /\ CatchAfter(i, h) = c.catch /\ TagsAfter(i, h) = Tags(c.pending)
          /\ LentAfter(i, h) = <<>> /\ c.ip = h.at + 1
      BY <1>5 DEF CatchAfter, TagsAfter, LentAfter, i
    <2> QED BY <2>2, <2>3 DEF HeldBy, Ended
  <1>10. h.at + 1 \in GoesTo(i, h)
    BY <1>5 DEF GoesTo, FallsThrough, i
  <1>11. RunsOn(K, image, regs', c, ip', writeback')
    BY <1>2, <1>3, <1>5, <1>9, <1>10 DEF RunsOn, Onward, i
  <1>12. Top' = c
    BY <1>2, <1>4 DEF Top
  <1>13. (Instr.op # "TryLand")'
    BY <1>2, <1>5, <1>10, <1>12 DEF Sound, Instr, Code, ChunkOf, i
  <1>14. Below(K, image, regs', frames')
    <2>1. \A s \in Nat : s < c.base => regs'[s] = regs[s]
      <3> SUFFICES ASSUME NEW s \in Nat, s < c.base PROVE regs'[s] = regs[s]
        OBVIOUS
      <3>1. s \in 0..(base - 1)
        BY <1>4
      <3>2. Top.ret \in Nat
        BY <1>5, <1>6 DEF i
      <3>3. D(s) = regs[s]
        BY <1>4, <3>2
      <3> QED BY <1>2, <1>7, <3>1, <3>3
    <2> QED BY <1>1, <1>2, <2>1, PoppedBelow DEF c
  <1> QED BY <1>1, <1>2, <1>11, <1>12, <1>13, <1>14 DEF HandlerInv

(* An error leaves a frame that has no handler.                            *)
LEMMA UnwindingKeepsHandlers ==
  ASSUME NEW K, HandlerInv(K), FrameInv', LeaveFrame
  PROVE  HandlerInv(K)'
  <1> DEFINE c == frames[Len(frames) - 1]
             base == Top.base
  <1>1. /\ outcome = Running /\ raising # NoError /\ Armed # {} /\ Top.catch = NoHandler
        /\ writeback = <<>> /\ FrameInv
    BY DEF LeaveFrame, HandlerInv
  <1>2. /\ regs' = [s \in 0..(base - 1) |-> GivenBack(Top.wb, base, c.base, s, regs[s])]
        /\ frames' = PopFrame
        /\ UNCHANGED <<image, writeback, raising, outcome>>
    BY DEF LeaveFrame
  <1>3. Len(frames) > 1
    <2>1. PICK n \in DOMAIN frames : frames[n].catch # NoHandler
      BY <1>1 DEF Armed
    <2>2. n # Len(frames)
      BY <1>1, <2>1 DEF Top
    <2> QED BY <1>1, <2>1, <2>2, StackFits
  <1>4. /\ c.base \in Nat /\ image[c.chunk].nregs \in Nat /\ c.chunk \in DOMAIN image
        /\ c.base + image[c.chunk].nregs <= base /\ base \in Nat
        /\ Notes(image, c) /\ Waits(K, image, regs, c, Top)
        /\ PopFrame[Len(PopFrame)] = c
    BY <1>1, <1>3, CallerWaits, TopIsPlaced
  <1>5. PICK h \in K[c.chunk] :
           LET i == image[c.chunk].code[h.at + 1]
           IN  /\ i.op = "Call" /\ i.d = Top.ret /\ c.ip = h.at + 1 /\ Top.wb = h.lent
               /\ Sound(image, image[c.chunk], i, h) /\ Onward(i, h) \subseteq K[c.chunk]
               /\ c.catch = h.catch /\ Tags(c.pending) = h.tags
               /\ DOMAIN h.saves = 0..(image[c.chunk].nregs - 1)
               /\ \A r \in DOMAIN h.saves :
                    Saving(regs[c.base + r]) =
                      IF r \in Given(h.lent) THEN Unit ELSE h.saves[r]
               /\ HeldBy(image, regs, c, h.at, <<>>) = Lends(h)
    <2>1. HandlersKept(image, K) /\ c.chunk \in DOMAIN image /\ Waits(K, image, regs, c, Top)
      BY <1>4 DEF HandlerInv
    <2> HIDE DEF c
    <2> QED BY <2>1, CallerHeld
  <1> DEFINE i == image[c.chunk].code[h.at + 1]
  <1>6. /\ \A r \in Nat : \A v :
              IF r \in Given(h.lent)
              THEN Saving(GivenBack(Top.wb, base, c.base, c.base + r, v)) = Unit
              ELSE GivenBack(Top.wb, base, c.base, c.base + r, v) = v
        /\ \A s \in Nat : \A v : s < c.base => GivenBack(Top.wb, base, c.base, s, v) = v
    BY <1>1, <1>4, <1>5, GivesBack, TopNotes DEF HandlerInv, Unwinds
  <1> HIDE DEF c, i, base
  <1>7. Remembered(image, regs', c) = Remembered(image, regs, c)
    <2> SUFFICES ASSUME NEW r \in 0..(image[c.chunk].nregs - 1)
                 PROVE  Saving(regs'[c.base + r]) = Saving(regs[c.base + r])
      BY RememberedAlike
    <2>1. c.base + r \in 0..(base - 1) /\ r \in Nat
      BY <1>4
    <2>2. regs'[c.base + r] = GivenBack(Top.wb, base, c.base, c.base + r, regs[c.base + r])
      BY <1>2, <2>1
    <2> QED BY <1>5, <1>6, <2>1, <2>2
  <1>8. HeldBy(image, regs', c, h.at, <<>>) = Raised(i, h)
    BY <1>5, <1>7 DEF HeldBy, Raised, i
  <1>9. Landed(HeldBy(image, regs', c, 0, <<>>)) \subseteq K[c.chunk]
    BY <1>5, <1>8, LandedAnywhere DEF Onward, i
  <1>10. PlainParameters(image, regs', c)
    <2> SUFFICES ASSUME NEW r \in 0..(image[c.chunk].params - 1)
                 PROVE  Saving(regs'[c.base + r]) = Unit
      BY DEF PlainParameters
    <2>1. r \in 0..(image[c.chunk].nregs - 1)
      BY <1>1, <1>4 DEF FrameInv, ImageFits, ChunkFits
    <2>2. h.saves[r] = Unit
      BY <1>5 DEF Sound
    <2>3. Saving(regs[c.base + r]) = Unit
      BY <1>5, <2>1, <2>2
    <2>4. Remembered(image, regs', c)[r] = Remembered(image, regs, c)[r]
      BY <1>7
    <2> QED BY <2>1, <2>3, <2>4 DEF Remembered
  <1>11. Top' = c
    BY <1>2, <1>4 DEF Top
  <1>12. Below(K, image, regs', frames')
    <2>1. \A s \in Nat : s < c.base => regs'[s] = regs[s]
      <3> SUFFICES ASSUME NEW s \in Nat, s < c.base PROVE regs'[s] = regs[s]
        OBVIOUS
      <3>1. s \in 0..(base - 1)
        BY <1>4
      <3> QED BY <1>2, <1>6, <3>1
    <2> QED BY <1>1, <1>2, <1>3, <2>1, PoppedBelow DEF c
  <1> QED BY <1>1, <1>2, <1>9, <1>10, <1>11, <1>12 DEF HandlerInv, Unwinds

-----------------------------------------------------------------------------
(* Calls.                                                                  *)

(* A frame as it begins holds what its chunk is run from.                  *)
LEMMA FreshHolds ==
  ASSUME NEW K, HandlersKept(image, K), NEW rs, NEW f, f.chunk \in DOMAIN image,
         f.catch = NoHandler, Tags(f.pending) = <<>>,
         \A r \in 0..(image[f.chunk].nregs - 1) : Saving(rs[f.base + r]) = Unit
  PROVE  RunsOn(K, image, rs, f, 0, <<>>) /\ image[f.chunk].code[1].op # "TryLand"
  <1>1. Remembered(image, rs, f) = [r \in 0..(image[f.chunk].nregs - 1) |-> Unit]
    BY DEF Remembered
  <1>2. HeldBy(image, rs, f, 0, <<>>) = Fresh(image[f.chunk])
    BY <1>1 DEF HeldBy, Fresh
  <1> QED BY <1>2 DEF RunsOn, HandlersKept

(* A new frame has caught nothing.                                         *)
LEMMA NoPending == Tags(<<>>) = <<>>
  <1>1. <<>> \in Seq({})
    BY EmptySeq
  <1> QED BY <1>1, NoTags

(* What is lent: a parameter of the callee, a register of the caller.      *)
LEMMA LentPairs ==
  ASSUME NEW X, X \subseteq Nat, NEW p \in Seq(Nat \X X)
  PROVE  /\ \A m \in DOMAIN p : p[m][1] \in Nat /\ p[m][2] \in X
         /\ (\E m \in DOMAIN p : TRUE) => p # <<>>
         /\ p \in Seq(Nat \X Nat)
  <1>1. Len(p) \in Nat /\ DOMAIN p = 1..Len(p) /\ \A m \in 1..Len(p) : p[m] \in Nat \X X
    BY LenProperties
  <1>2. \A m \in DOMAIN p : p[m][1] \in Nat /\ p[m][2] \in X
    <2> SUFFICES ASSUME NEW m \in DOMAIN p PROVE p[m][1] \in Nat /\ p[m][2] \in X
      OBVIOUS
    <2>1. p[m] \in Nat \X X
      BY <1>1
    <2> QED BY <2>1
  <1>3. p \in Seq(Nat \X Nat)
    <2>1. Nat \X X \subseteq Nat \X Nat
      OBVIOUS
    <2> DEFINE A == Nat \X X
               B == Nat \X Nat
    <2>2. p \in Seq(A) /\ A \subseteq B
      BY <2>1
    <2> HIDE DEF A, B
    <2>3. p \in Seq(B)
      BY <2>2, SeqMonotonic
    <2> QED BY <2>3 DEF B
  <1>4. (\E m \in DOMAIN p : TRUE) => p # <<>>
    <2> SUFFICES ASSUME NEW m \in DOMAIN p, p = <<>> PROVE FALSE
      OBVIOUS
    <2>1. Len(p) = 0
      BY EmptySeq
    <2> QED BY <1>1, <2>1
  <1> QED BY <1>2, <1>3, <1>4

(* What is lent to the call that runs.                                     *)
LEMMA LentHere ==
  ASSUME NEW K, HandlerInv(K), outcome = Running, raising = NoError
  PROVE  /\ writeback \in Seq(Nat \X Nat)
         /\ \A m \in DOMAIN writeback :
              /\ writeback[m][1] \in Nat /\ writeback[m][1] < Len(Instr.args)
              /\ writeback[m][2] \in 0..(ChunkOf(Top).nregs - 1)
  <1> DEFINE X == 0..(ChunkOf(Top).nregs - 1)
  <1>1. /\ writeback \in Seq(Nat \X DOMAIN Here.saves)
        /\ writeback # <<>> => \A m \in DOMAIN writeback : writeback[m][1] < Len(Instr.args)
    BY HereIsSound DEF Sound
  <1>2. DOMAIN Here.saves = X /\ X \subseteq Nat
    BY HereIsSound
  <1> HIDE DEF X
  <1>3. /\ writeback \in Seq(Nat \X Nat)
        /\ \A m \in DOMAIN writeback : writeback[m][1] \in Nat /\ writeback[m][2] \in X
        /\ (\E m \in DOMAIN writeback : TRUE) => writeback # <<>>
    BY <1>1, <1>2, LentPairs
  <1> QED BY <1>1, <1>3 DEF X

(* A call with something lent is refused for depth: the code leaves what   *)
(* it was about to lend to whatever call comes next.                       *)
LendsWithinDepth ==
  (outcome = Running /\ raising = NoError /\ Instr.op = "Call" /\ Len(frames) > MaxCalls)
    => writeback = <<>>

(* Call: the caller waits, and the callee begins with nothing armed.       *)
LEMMA CallKeepsHandlers ==
  ASSUME NEW K, HandlerInv(K), FrameInv', LendsWithinDepth, CallFunction
  PROVE  HandlerInv(K)'
  <1>1. outcome = Running /\ raising = NoError /\ Instr.op = "Call" /\ FrameInv
    BY DEF CallFunction, Runs, HandlerInv
  <1>2. CASE Len(frames) > MaxCalls
    <2>1. Raise("Depth") /\ "Depth" # NoError
      BY <1>2 DEF CallFunction, NoError
    <2> QED BY <1>1, <1>2, <2>1, RaiseOn DEF LendsWithinDepth
  <1>3. CASE ~ (Len(frames) > MaxCalls)
    <2> DEFINE f == [Top EXCEPT !.ip = ip + 1]
               g == Frame(height, Instr.fn, Instr.d, writeback)
               n == image[Instr.fn].nregs
    <2>1. /\ regs' = Entered(height, n) /\ frames' = Append(OnTop(f), g)
          /\ writeback' = <<>> /\ ip' = 0
          /\ UNCHANGED <<image, raising, inFlight, outcome>>
      BY <1>3 DEF CallFunction, FrameSize
    <2>2. /\ f.base = Top.base /\ f.ret = Top.ret /\ f.wb = Top.wb /\ f.chunk = Top.chunk
          /\ f.catch = Top.catch /\ f.pending = Top.pending /\ f.ip = ip + 1
      BY <1>1, TopFits DEF IsFrame
    <2>3. /\ g.base = height /\ g.chunk = Instr.fn /\ g.ret = Instr.d /\ g.wb = writeback
          /\ g.catch = NoHandler /\ g.pending = <<>>
      BY DEF Frame
    <2> HIDE DEF f, g
    <2>4. /\ Instr.fn \in DOMAIN image /\ Len(Instr.args) = image[Instr.fn].params
          /\ n \in Nat
      <3>1. InstructionFits(image, Top.chunk, ip + 1)
        BY <1>1, InstrFits, HereIsSound DEF Runs
      <3>2. Instr.fn \in DOMAIN image /\ Len(Instr.args) = image[Instr.fn].params
        BY <1>1, <3>1 DEF InstructionFits, Instr, Code, ChunkOf
      <3> QED BY <1>1, <3>2, ChunkSize DEF FrameInv
    <2>5. /\ Top.base \in Nat /\ height \in Nat /\ ChunkOf(Top).nregs \in Nat
          /\ Top.base + ChunkOf(Top).nregs <= height
      BY <1>1, TopIsPlaced
    <2>6. \A k \in DOMAIN Instr.args : Saving(Reg(Instr.args[k])) = Unit
      <3> SUFFICES ASSUME NEW k \in DOMAIN Instr.args
                   PROVE  Saving(Reg(Instr.args[k])) = Unit
        OBVIOUS
      <3>1. Instr.args[k] \in Moves(Instr)
        BY <1>1 DEF Moves
      <3> QED BY <1>1, <3>1, HereIsSound DEF Sound
    <2>7. /\ writeback \in Seq(Nat \X Nat)
          /\ \A m \in DOMAIN writeback :
               /\ writeback[m][1] \in 0..(image[Instr.fn].params - 1)
               /\ writeback[m][2] \in 0..(ChunkOf(Top).nregs - 1)
      <3>1. image[Instr.fn].params \in Nat
        BY <1>1, <2>4 DEF FrameInv, ImageFits, ChunkFits
      <3> QED BY <1>1, <2>4, <3>1, LentHere
    <2>8. Notes(image, g)
      <3>1. <<>> \in Seq({}) /\ \A e \in {} : e.kind # NoError
        BY EmptySeq
      <3>2. \E S : g.pending \in Seq(S) /\ \A e \in S : e.kind # NoError
        <4> WITNESS {}
        <4> QED BY <2>3, <3>1
      <3> QED BY <2>3, <2>7, <3>2 DEF Notes
    <2>9. Notes(image, f)
      BY <1>1, <2>2, TopNotes DEF Notes
    <2>10. \A s \in Nat : s < height =>
             regs'[s] = IF \E m \in DOMAIN writeback : Top.base + writeback[m][2] = s
                        THEN Unit ELSE regs[s]
      BY <2>1, <2>4, <2>5 DEF Entered
    <2>11. \A s \in Nat : s < Top.base => regs'[s] = regs[s]
      BY <2>5, <2>7, <2>10
    <2>12. Below(K, image, regs', OnTop(f)) /\ OnTop(f)[Len(OnTop(f))] = f
      BY <1>1, <2>2, <2>9, <2>11, BelowOnTop DEF HandlerInv
    <2>13. Waits(K, image, regs', f, g)
      <3>1. /\ Here \in K[f.chunk] /\ Here.at = ip /\ Here.lent = writeback
            /\ image[f.chunk].code[Here.at + 1] = Instr
        BY <1>1, <2>2, HereIsSound DEF Instr, Code, ChunkOf
      <3>2. Remembered(image, regs', f) = Without(Here.saves, Given(writeback))
        <4>1. \A r \in 0..(ChunkOf(Top).nregs - 1) :
                Saving(regs'[Top.base + r]) =
                  IF r \in Given(writeback) THEN Unit ELSE Saving(regs[Top.base + r])
          <5> SUFFICES ASSUME NEW r \in 0..(ChunkOf(Top).nregs - 1)
                       PROVE  Saving(regs'[Top.base + r]) =
                                IF r \in Given(writeback) THEN Unit ELSE Saving(regs[Top.base + r])
            OBVIOUS
          <5>1. (\E m \in DOMAIN writeback : Top.base + writeback[m][2] = Top.base + r)
                  <=> r \in Given(writeback)
            <6>1. \A m \in DOMAIN writeback :
                    Top.base + writeback[m][2] = Top.base + r <=> writeback[m][2] = r
              <7> SUFFICES ASSUME NEW m \in DOMAIN writeback
                           PROVE  Top.base + writeback[m][2] = Top.base + r
                                    <=> writeback[m][2] = r
                OBVIOUS
              <7> DEFINE q == writeback[m][2]
              <7>1. q \in Int /\ r \in Int /\ Top.base \in Int
                BY <2>5, <2>7
              <7> HIDE DEF q
              <7>2. Top.base + q = Top.base + r <=> q = r
                BY <7>1
              <7> QED BY <7>2 DEF q
            <6> QED BY <6>1 DEF Given
          <5>2. Top.base + r \in Nat /\ Top.base + r < height
            BY <2>5
          <5> QED BY <2>10, <5>1, <5>2, PlainValues
        <4> QED BY <1>1, <2>2, <4>1, RememberedWithout, HereIsSound DEF ChunkOf
      <3>3. HeldBy(image, regs', f, Here.at, <<>>) = Lends(Here)
        BY <1>1, <2>2, <3>1, <3>2, HereIsSound DEF HeldBy, Lends
      <3> QED BY <1>1, <2>2, <2>3, <3>1, <3>3 DEF Waits
    <2>14. Below(K, image, regs', Append(OnTop(f), g))
      <3> DEFINE S == Elements(frames) \cup {f, g}
                 T == OnTop(f)
      <3>1. /\ frames \in Seq(Elements(frames)) /\ frames # <<>> /\ Len(frames) \in Nat \ {0}
            /\ DOMAIN frames = 1..Len(frames)
        BY <1>1, StackFits
      <3>2. T \in Seq(S) /\ Len(T) = Len(frames) /\ T # <<>>
        <4>1. frames \in Seq(S) /\ f \in S /\ Len(frames) \in 1..Len(frames)
          BY <3>1, SeqMonotonic
        <4> HIDE DEF S
        <4>2. [frames EXCEPT ![Len(frames)] = f] \in Seq(S)
                /\ Len([frames EXCEPT ![Len(frames)] = f]) = Len(frames)
          BY <4>1, ExceptSeq
        <4> QED BY <3>1, <4>2, EmptySeq DEF OnTop
      <3>3. DOMAIN T = 1..Len(frames) /\ T[Len(T)] = f
        BY <2>12, <3>2, LenProperties
      <3>4. ASSUME NEW m \in DOMAIN T
            PROVE  T[m].base + image[T[m].chunk].nregs <= height
        <4>1. CASE m = Len(frames)
          BY <2>2, <2>5, <3>2, <3>3, <4>1 DEF ChunkOf
        <4>2. CASE m # Len(frames)
          <5>1. m < Len(frames) /\ Len(frames) \in DOMAIN T /\ m \in DOMAIN frames
            BY <3>1, <3>3, <4>2
          <5>2. T[m].base + image[T[m].chunk].nregs <= T[Len(frames)].base
            BY <2>12, <5>1 DEF Below
          <5>3. T[m] = frames[m]
            BY <3>1, <4>2, <5>1 DEF OnTop
          <5>4. T[m].base \in Nat /\ image[T[m].chunk].nregs \in Nat
            BY <1>1, <5>1, <5>3, StackFits DEF Placed
          <5>5. T[Len(frames)].base = Top.base
            BY <2>2, <3>2, <3>3
          <5> HIDE DEF T
          <5> QED BY <2>5, <5>2, <5>4, <5>5
        <4> QED BY <4>1, <4>2
      <3>5. g \in S
        OBVIOUS
      <3> HIDE DEF S, T
      <3>6. Below(K, image, regs', T) /\ T[Len(T)] = f
        BY <2>12 DEF T
      <3>7. Below(K, image, regs', Append(T, g))
        BY <2>3, <2>8, <2>13, <3>2, <3>4, <3>5, <3>6, BelowPushed
      <3> QED BY <3>7 DEF T
    <2>15. Top' = g
      <3> DEFINE S == Elements(frames) \cup {f, g}
      <3>1. OnTop(f) \in Seq(S) /\ g \in S
        <4>1. /\ frames \in Seq(S) /\ f \in S /\ Len(frames) \in 1..Len(frames)
          BY <1>1, StackFits, SeqMonotonic
        <4>2. g \in S
          OBVIOUS
        <4> HIDE DEF S
        <4> QED BY <4>1, <4>2, ExceptSeq DEF OnTop
      <3> HIDE DEF S
      <3> QED BY <2>1, <3>1, AppendProperties DEF Top
    <2>16. RunsOn(K, image, regs', g, 0, <<>>) /\ image[g.chunk].code[1].op # "TryLand"
      <3>1. \A r \in 0..(n - 1) : Saving(regs'[height + r]) = Unit
        <4> SUFFICES ASSUME NEW r \in 0..(n - 1) PROVE Saving(regs'[height + r]) = Unit
          OBVIOUS
        <4>1. height + r \in 0..(height + n - 1) /\ height + r >= height
              /\ (height + r) - height = r
          BY <2>4, <2>5
        <4>2. regs'[height + r] = IF r < Len(Instr.args) THEN Reg(Instr.args[r + 1]) ELSE Unit
          BY <2>1, <4>1 DEF Entered
        <4>3. r < Len(Instr.args) => Saving(Reg(Instr.args[r + 1])) = Unit
          BY <2>6
        <4> QED BY <4>2, <4>3, PlainValues
      <3> QED BY <2>3, <2>4, <3>1, FreshHolds, NoPending DEF HandlerInv
    <2>17. (Instr.op # "TryLand")'
      <3>1. ip' = 0 /\ image' = image /\ Top'.chunk = g.chunk
        BY <2>1, <2>15
      <3> HIDE DEF g
      <3> QED BY <2>16, <3>1 DEF Instr, Code, ChunkOf
    <2> QED BY <1>1, <2>1, <2>14, <2>15, <2>16, <2>17 DEF HandlerInv
  <1> QED BY <1>2, <1>3

(* TailCall: the frame begins again with nothing armed, still its caller's.*)
LEMMA TailCallKeepsHandlers ==
  ASSUME NEW K, HandlerInv(K), FrameInv', TailCall
  PROVE  HandlerInv(K)'
  <1> DEFINE f == [Top EXCEPT !.chunk = Instr.fn, !.catch = NoHandler]
             base == Top.base
             n == image[Instr.fn].nregs
             size == IF base + n > height THEN base + n ELSE height
  <1>1. outcome = Running /\ raising = NoError /\ Instr.op = "TailCall" /\ FrameInv
    BY DEF TailCall, Runs, HandlerInv
  <1>2. /\ regs' = [s \in 0..(size - 1) |->
                      IF s < base \/ s >= base + n THEN Grow(regs, height, size)[s]
                      ELSE IF s - base < Len(Instr.args) THEN Staged(s - base + 1)
                      ELSE Unit]
        /\ frames' = OnTop(f) /\ ip' = 0
        /\ UNCHANGED <<image, writeback, raising, outcome>>
    BY DEF TailCall, FrameSize
  <1>3. /\ f.base = base /\ f.ret = Top.ret /\ f.wb = Top.wb /\ f.chunk = Instr.fn
        /\ f.catch = NoHandler /\ f.pending = Top.pending
    BY <1>1, TopFits DEF IsFrame
  <1>4. /\ Instr.fn \in DOMAIN image /\ Len(Instr.args) = image[Instr.fn].params
        /\ n \in Nat /\ image[Instr.fn].params \in Nat
        /\ ChunkOf(Top).params \in Int
    <2>1. InstructionFits(image, Top.chunk, ip + 1)
      BY <1>1, InstrFits, HereIsSound DEF Runs
    <2>2. Instr.fn \in DOMAIN image /\ Len(Instr.args) = image[Instr.fn].params
      BY <1>1, <2>1 DEF InstructionFits, Instr, Code, ChunkOf
    <2>3. n \in Nat /\ image[Instr.fn].params \in Nat
      BY <1>1, <2>2 DEF FrameInv, ImageFits, ChunkFits
    <2> QED BY <1>1, <2>2, <2>3, TopIsPlaced
  <1>5. base \in Nat /\ height \in Nat /\ base <= height
    BY <1>1, TopIsPlaced
  <1>6. /\ writeback = <<>> /\ Here.tags = <<>>
        /\ image[Instr.fn].params >= ChunkOf(Top).params
        /\ \A k \in DOMAIN Instr.args : Saving(Reg(Instr.args[k])) = Unit
    <2>1. /\ writeback = <<>> /\ Here.tags = <<>>
          /\ image[Instr.fn].params >= ChunkOf(Top).params
      BY <1>1, HereIsSound DEF Sound
    <2> SUFFICES ASSUME NEW k \in DOMAIN Instr.args
                 PROVE  Saving(Reg(Instr.args[k])) = Unit
      BY <2>1
    <2>2. Instr.args[k] \in Moves(Instr)
      BY <1>1 DEF Moves
    <2> QED BY <1>1, <2>2, HereIsSound DEF Sound
  <1> HIDE DEF f, base, n
  <1>7. size \in Nat /\ base + n <= size /\ height <= size
    BY <1>4, <1>5
  <1> HIDE DEF size
  <1>8. Notes(image, f)
    <2>1. Notes(image, Top)
      BY <1>1, TopNotes
    <2>2. /\ \E S : f.pending \in Seq(S) /\ \A e \in S : e.kind # NoError
          /\ f.wb \in Seq(Nat \X Nat)
      BY <1>3, <2>1 DEF Notes
    <2>3. \A w \in DOMAIN f.wb : f.wb[w][1] \in 0..(image[f.chunk].params - 1)
      <3> SUFFICES ASSUME NEW w \in DOMAIN f.wb
                   PROVE  f.wb[w][1] \in 0..(image[f.chunk].params - 1)
        OBVIOUS
      <3>1. f.wb[w][1] \in 0..(ChunkOf(Top).params - 1)
        BY <1>3, <2>1 DEF Notes, ChunkOf
      <3> QED BY <1>3, <1>4, <1>6, <3>1
    <2> QED BY <2>2, <2>3 DEF Notes
  <1>9. \A s \in Nat : s < base => regs'[s] = regs[s]
    <2> SUFFICES ASSUME NEW s \in Nat, s < base PROVE regs'[s] = regs[s]
      OBVIOUS
    <2>1. s \in 0..(size - 1) /\ s < height
      BY <1>5, <1>7
    <2> QED BY <1>2, <2>1 DEF Grow
  <1>10. Below(K, image, regs', frames') /\ Top' = f
    BY <1>1, <1>2, <1>3, <1>8, <1>9, BelowOnTop DEF HandlerInv, Top, base
  <1>11. \A r \in 0..(n - 1) : Saving(regs'[base + r]) = Unit
    <2> SUFFICES ASSUME NEW r \in 0..(n - 1) PROVE Saving(regs'[base + r]) = Unit
      OBVIOUS
    <2>1. /\ base + r \in 0..(size - 1) /\ ~ (base + r < base \/ base + r >= base + n)
          /\ (base + r) - base = r
      BY <1>4, <1>5, <1>7
    <2>2. regs'[base + r] = IF r < Len(Instr.args) THEN Staged(r + 1) ELSE Unit
      BY <1>2, <2>1
    <2>3. r < Len(Instr.args) => Saving(Staged(r + 1)) = Unit
      BY <1>6, PlainValues DEF Staged
    <2> QED BY <2>2, <2>3, PlainValues
  <1>12. RunsOn(K, image, regs', f, 0, <<>>) /\ image[f.chunk].code[1].op # "TryLand"
    <2>1. Tags(f.pending) = <<>>
      BY <1>1, <1>3, <1>6, HereIsSound
    <2> QED BY <1>3, <1>4, <1>11, <2>1, FreshHolds DEF HandlerInv, n
  <1>13. (Instr.op # "TryLand")'
    BY <1>2, <1>10, <1>12 DEF Instr, Code, ChunkOf
  <1> QED BY <1>1, <1>2, <1>6, <1>10, <1>12, <1>13 DEF HandlerInv

-----------------------------------------------------------------------------

(* The invariant holds of the first frame.                                 *)
LEMMA InitHolds ==
  ASSUME NEW K, Init, HandlersKept(image, K)
  PROVE  HandlerInv(K)
  <1> DEFINE f == Frame(0, Main, 0, <<>>)
  <1>1. /\ FrameInv /\ image[Main].nregs \in Nat /\ Main \in DOMAIN image
    BY InitFits, ChunkSize DEF Init, ImageFits
  <1>2. /\ f.base = 0 /\ f.chunk = Main /\ f.catch = NoHandler /\ f.pending = <<>>
        /\ f.wb = <<>> /\ f.ip = 0
    BY DEF Frame
  <1>3. /\ Len(frames) = 1 /\ DOMAIN frames = {1} /\ frames[1] = f /\ Top = f
        /\ ip = 0 /\ writeback = <<>> /\ raising = NoError
    BY DEF Init, Boot, Top
  <1> HIDE DEF f
  <1>4. Notes(image, f)
    <2>1. \E S : f.pending \in Seq(S) /\ \A e \in S : e.kind # NoError
      <3> WITNESS {}
      <3>1. <<>> \in Seq({})
        BY EmptySeq
      <3> QED BY <1>2, <3>1
    <2>2. <<>> \in Seq(Nat \X Nat) /\ DOMAIN <<>> = {}
      <3> DEFINE A == Nat \X Nat
      <3> HIDE DEF A
      <3>1. <<>> \in Seq(A) /\ Len(<<>>) = 0
        BY EmptySeq
      <3>2. DOMAIN <<>> = 1..0
        BY <3>1, LenProperties
      <3> QED BY <3>1, <3>2 DEF A
    <2> QED BY <1>2, <2>1, <2>2 DEF Notes
  <1>5. Below(K, image, regs, frames)
    BY <1>3, <1>4 DEF Below
  <1>6. \A r \in 0..(image[Main].nregs - 1) : Saving(regs[0 + r]) = Unit
    BY <1>1, PlainValues DEF Init, Boot
  <1>7. RunsOn(K, image, regs, f, 0, <<>>) /\ image[f.chunk].code[1].op # "TryLand"
    BY <1>1, <1>2, <1>6, FreshHolds, NoPending
  <1>8. Instr.op # "TryLand"
    BY <1>2, <1>3, <1>7 DEF Instr, Code, ChunkOf
  <1> QED BY <1>1, <1>3, <1>5, <1>7, <1>8 DEF HandlerInv

(* Every step keeps it.                                                    *)
LEMMA StepHolds ==
  ASSUME NEW K, HandlerInv(K), LendsWithinDepth, [Next]_vars
  PROVE  HandlerInv(K)'
  <1>1. FrameInv'
    BY StepFits DEF HandlerInv
  <1>2. CASE UNCHANGED vars
    <2>1. Top' = Top /\ Instr' = Instr
      BY <1>2 DEF vars, Top, Instr, Code, ChunkOf
    <2> QED BY <1>1, <1>2, <2>1 DEF vars, HandlerInv
  <1>3. CASE Next
    BY <1>1, <1>3, ValuesKeepHandlers, JumpsKeepHandlers, CountersKeepHandlers,
       LendingKeepsHandlers, CallKeepsHandlers, TailCallKeepsHandlers,
       ReturningKeepsHandlers, EndingKeepsHandlers, ArmingKeepsHandlers,
       DisarmingKeepsHandlers, LandingKeepsHandlers, HandlingKeepsHandlers,
       RethrowKeepsHandlers, CatchingKeepsHandlers, UnwindingKeepsHandlers DEF Next
  <1> QED BY <1>2, <1>3

(***************************************************************************)
(* Whatever the program, and however deep it calls: if its code handles    *)
(* its `!?`s as HandlersKept asks of every place it can be in              *)
(* (emit_try_exits sees to it), a frame that is left by a return, a tail   *)
(* call or the end of the program has no handler armed and no error        *)
(* pending, through calls, lent arguments, errors and the clauses and `:>` *)
(* they land in.  Calls refused for depth with something lent are left     *)
(* out: the machine takes what is lent after it looks at the depth, and    *)
(* what such a call leaves behind is taken by the next one.                *)
(***************************************************************************)
THEOREM FramesAreLeftClosed ==
  ASSUME NEW CONSTANT K
  PROVE  Spec /\ HandlersKept(image, K) /\ []LendsWithinDepth => []NothingLeftOpen
  <1>1. HandlerInv(K) => NothingLeftOpen
    <2> SUFFICES ASSUME HandlerInv(K), outcome = Running, raising = NoError,
                        Instr.op \in {"Return", "TailCall", "Halt"}
                 PROVE  Top.catch = NoHandler /\ Top.pending = <<>>
      BY DEF NothingLeftOpen
    <2>1. Top.catch = NoHandler /\ Tags(Top.pending) = <<>>
      BY HereIsSound DEF Sound
    <2> QED BY <2>1, TopNotes, NoTags DEF Notes
  <1>2. Init /\ HandlersKept(image, K) => HandlerInv(K)
    BY InitHolds
  <1>3. HandlerInv(K) /\ LendsWithinDepth /\ [Next]_vars => HandlerInv(K)'
    BY StepHolds
  <1> QED BY <1>1, <1>2, <1>3, PTL DEF Spec

(* The next instruction is one of the chunk's.                             *)
InCode == outcome = Running /\ raising = NoError => ip + 1 \in DOMAIN Code

(***************************************************************************)
(* For such code every instruction the machine fetches is one of its       *)
(* chunk's, which the fetch does not check.                                *)
(***************************************************************************)
THEOREM TheMachineStaysInItsCode ==
  ASSUME NEW CONSTANT K
  PROVE  Spec /\ HandlersKept(image, K) /\ []LendsWithinDepth => []InCode
  <1>1. HandlerInv(K) => InCode
    BY HereIsSound DEF InCode
  <1>2. Init /\ HandlersKept(image, K) => HandlerInv(K)
    BY InitHolds
  <1>3. HandlerInv(K) /\ LendsWithinDepth /\ [Next]_vars => HandlerInv(K)'
    BY StepHolds
  <1> QED BY <1>1, <1>2, <1>3, PTL DEF Spec
=============================================================================
