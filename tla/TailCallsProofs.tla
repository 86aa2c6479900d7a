-------------------------- MODULE TailCallsProofs --------------------------
(***************************************************************************)
(* What TailCalls promises for any functions, arguments and depth: what a  *)
(* function asks belongs to the activation on its way out, and             *)
(* current_function is always the innermost function's name, so a function *)
(* asks for its own body.                                                  *)
(***************************************************************************)
EXTENDS TailCalls, SequenceTheorems, TLAPS

-----------------------------------------------------------------------------
(* The inductive invariant.                                                *)

\* An activation within the bounds.
Good(frame) == frame \in Frame /\ Len(frame.tries) <= MaxTries

\* The file's activation is at the bottom, and nowhere else.
FileAtBottom(s) ==
    /\ s \in Seq(Frame)
    /\ Len(s) \in 1 .. MaxCalls + 1
    /\ \A i \in 1 .. Len(s) : Good(s[i])
    /\ s[1].kind = "file"
    /\ \A i \in 2 .. Len(s) : s[i].kind # "file"

\* x is the name of the innermost function among the first n activations.
NameAt(s, n, x) ==
    \/ /\ \A i \in 1 .. n : s[i].kind # "function"
       /\ x = NoFunction
    \/ \E k \in 1 .. n :
          /\ s[k].kind = "function"
          /\ s[k].name = x
          /\ \A i \in 1 .. n : i > k => s[i].kind # "function"

\* Every function remembers the name that held where it was called, and x is
\* the one that holds at the top.
NamesKept(s, x) ==
    /\ \A i \in 2 .. Len(s) : s[i].kind = "function" => NameAt(s, i - 1, s[i].caller)
    /\ NameAt(s, Len(s), x)

Inv == FileAtBottom(frames) /\ NamesKept(frames, currentFunction)

-----------------------------------------------------------------------------
(* The stack of activations.                                               *)

\* The name that holds depends on the kinds and the names below it.
LEMMA NameOfPrefix ==
    ASSUME NEW s, NEW t, NEW n, NEW x, NameAt(s, n, x),
           \A i \in 1 .. n : s[i].kind = t[i].kind /\ s[i].name = t[i].name
    PROVE  NameAt(t, n, x)
BY Zenon DEF NameAt

\* An activation replaced by one of the same call.
LEMMA ReplacedKeeps ==
    ASSUME NEW s, FileAtBottom(s), NEW x, NamesKept(s, x),
           NEW h, Good(h), h.kind = s[Len(s)].kind, h.name = s[Len(s)].name,
           h.caller = s[Len(s)].caller
    PROVE  /\ FileAtBottom([s EXCEPT ![Len(s)] = h])
           /\ NamesKept([s EXCEPT ![Len(s)] = h], x)
<1> DEFINE t == [s EXCEPT ![Len(s)] = h]
<1>1. s \in Seq(Frame) /\ h \in Frame /\ Len(s) \in Nat /\ Len(s) >= 1
    BY LenProperties, ConstantsAssumption DEF FileAtBottom, Good
<1>2. t \in Seq(Frame) /\ Len(t) = Len(s)
    BY <1>1, ExceptSeq
<1>3. /\ \A i \in 1 .. Len(s) : i # Len(s) => t[i] = s[i]
      /\ t[Len(s)] = h
    BY <1>1, ExceptSeq
<1>4. \A i \in 1 .. Len(s) : /\ t[i].kind = s[i].kind /\ t[i].name = s[i].name
                             /\ t[i].caller = s[i].caller /\ Good(t[i])
    BY <1>3 DEF FileAtBottom
<1> HIDE DEF t
<1>5. FileAtBottom(t)
    BY <1>1, <1>2, <1>4 DEF FileAtBottom
<1>6. ASSUME NEW i \in 2 .. Len(t), t[i].kind = "function"
      PROVE  NameAt(t, i - 1, t[i].caller)
    <2>1. i \in 1 .. Len(s) /\ \A j \in 1 .. i - 1 : j \in 1 .. Len(s)
        BY <1>1, <1>2
    <2>2. NameAt(s, i - 1, s[i].caller)
        BY <1>2, <1>4, <1>6, <2>1 DEF NamesKept
    <2> QED BY <1>4, <2>1, <2>2, NameOfPrefix
<1>7. NameAt(t, Len(t), x)
    BY <1>2, <1>4, NameOfPrefix DEF NamesKept
<1> QED BY <1>5, <1>6, <1>7 DEF t, NamesKept

\* A call of a function, which takes its caller's name along.
LEMMA FunctionPushed ==
    ASSUME NEW s, FileAtBottom(s), NEW x, NamesKept(s, x), Len(s) <= MaxCalls,
           NEW h, Good(h), h.kind = "function", h.caller = x
    PROVE  FileAtBottom(Append(s, h)) /\ NamesKept(Append(s, h), h.name)
<1> DEFINE t == Append(s, h)
           n == Len(s)
<1>1. s \in Seq(Frame) /\ h \in Frame /\ n \in Nat /\ n >= 1 /\ MaxCalls \in Nat
    BY LenProperties, ConstantsAssumption DEF FileAtBottom, Good
<1>2. /\ t \in Seq(Frame) /\ Len(t) = n + 1
      /\ \A i \in 1 .. n : t[i] = s[i]
      /\ t[n + 1] = h
    BY <1>1, AppendProperties
<1> HIDE DEF t
<1>3. FileAtBottom(t)
    BY <1>1, <1>2 DEF FileAtBottom, n
<1>4. ASSUME NEW i \in 2 .. n, t[i].kind = "function"
      PROVE  NameAt(t, i - 1, t[i].caller)
    <2>1. i \in 1 .. n /\ \A j \in 1 .. i - 1 : j \in 1 .. n
        BY <1>1
    <2>2. NameAt(s, i - 1, s[i].caller)
        BY <1>2, <1>4, <2>1 DEF NamesKept
    <2> QED BY <1>2, <2>1, <2>2, NameOfPrefix
<1>5. NameAt(t, n, x)
    BY <1>2, NameOfPrefix DEF NamesKept
<1>6. NameAt(t, n + 1, h.name)
    BY <1>1, <1>2 DEF NameAt
<1>7. \A i \in 2 .. n + 1 : i = n + 1 \/ i \in 2 .. n
    BY <1>1
<1>8. (n + 1) - 1 = n
    BY <1>1
<1>9. \A i \in 2 .. n + 1 : t[i].kind = "function" => NameAt(t, i - 1, t[i].caller)
    BY <1>2, <1>4, <1>5, <1>7, <1>8
<1> QED BY <1>2, <1>3, <1>6, <1>9 DEF t, NamesKept

\* A body run as a value, which leaves the name as it is.
LEMMA ValuePushed ==
    ASSUME NEW s, FileAtBottom(s), NEW x, NamesKept(s, x), Len(s) <= MaxCalls,
           NEW h, Good(h), h.kind = "value"
    PROVE  FileAtBottom(Append(s, h)) /\ NamesKept(Append(s, h), x)
<1> DEFINE t == Append(s, h)
           n == Len(s)
<1>1. s \in Seq(Frame) /\ h \in Frame /\ n \in Nat /\ n >= 1 /\ MaxCalls \in Nat
    BY LenProperties, ConstantsAssumption DEF FileAtBottom, Good
<1>2. /\ t \in Seq(Frame) /\ Len(t) = n + 1
      /\ \A i \in 1 .. n : t[i] = s[i]
      /\ t[n + 1] = h
    BY <1>1, AppendProperties
<1> HIDE DEF t
<1>3. FileAtBottom(t)
    BY <1>1, <1>2 DEF FileAtBottom, n
<1>4. ASSUME NEW i \in 2 .. n, t[i].kind = "function"
      PROVE  NameAt(t, i - 1, t[i].caller)
    <2>1. i \in 1 .. n /\ \A j \in 1 .. i - 1 : j \in 1 .. n
        BY <1>1
    <2>2. NameAt(s, i - 1, s[i].caller)
        BY <1>2, <1>4, <2>1 DEF NamesKept
    <2> QED BY <1>2, <2>1, <2>2, NameOfPrefix
<1>5. NameAt(t, n, x)
    BY <1>2, NameOfPrefix DEF NamesKept
<1>6. NameAt(t, n + 1, x)
    BY <1>1, <1>2, <1>5 DEF NameAt
<1>7. \A i \in 2 .. n + 1 : i = n + 1 \/ i \in 2 .. n
    BY <1>1
<1>8. \A i \in 2 .. n + 1 : t[i].kind = "function" => NameAt(t, i - 1, t[i].caller)
    BY <1>2, <1>4, <1>7
<1> QED BY <1>2, <1>3, <1>6, <1>8 DEF t, NamesKept

\* The end of a call: the name is the caller's again.
LEMMA Popped ==
    ASSUME NEW s, FileAtBottom(s), NEW x, NamesKept(s, x), s[Len(s)].kind # "file"
    PROVE  LET t == SubSeq(s, 1, Len(s) - 1)
           IN  /\ FileAtBottom(t)
               /\ s[Len(s)].kind = "function" => NamesKept(t, s[Len(s)].caller)
               /\ s[Len(s)].kind # "function" => NamesKept(t, x)
<1> DEFINE t == SubSeq(s, 1, Len(s) - 1)
           n == Len(s) - 1
<1>1. s \in Seq(Frame) /\ n \in Nat /\ n >= 1 /\ Len(s) = n + 1 /\ n + 1 \in 2 .. n + 1
      /\ MaxCalls \in Nat /\ n <= MaxCalls
    <2>1. s \in Seq(Frame) /\ Len(s) \in Nat /\ MaxCalls \in Nat /\ Len(s) >= 1 /\ Len(s) <= MaxCalls + 1
        BY LenProperties, ConstantsAssumption DEF FileAtBottom
    <2>2. Len(s) # 1
        BY DEF FileAtBottom
    <2> QED BY <2>1, <2>2
<1>2. /\ t \in Seq(Frame) /\ Len(t) = n
      /\ \A i \in 1 .. n : t[i] = s[i]
    BY <1>1, SubSeqProperties
<1> HIDE DEF t, n
<1>3. \A i \in 1 .. n : i \in 1 .. n + 1
    BY <1>1
<1>4. FileAtBottom(t)
    BY <1>1, <1>2, <1>3 DEF FileAtBottom
<1>5. ASSUME NEW i \in 2 .. n, t[i].kind = "function"
      PROVE  NameAt(t, i - 1, t[i].caller)
    <2>1. i \in 1 .. n /\ i \in 2 .. n + 1 /\ \A j \in 1 .. i - 1 : j \in 1 .. n
        BY <1>1
    <2>2. NameAt(s, i - 1, s[i].caller)
        BY <1>1, <1>2, <1>5, <2>1 DEF NamesKept
    <2> QED BY <1>2, <2>1, <2>2, NameOfPrefix
<1>6. ASSUME s[n + 1].kind = "function" PROVE NameAt(t, n, s[n + 1].caller)
    <2>1. (n + 1) - 1 = n
        BY <1>1
    <2>2. NameAt(s, n, s[n + 1].caller)
        BY <1>1, <1>6, <2>1 DEF NamesKept
    <2> QED BY <1>2, <2>2, NameOfPrefix
<1>7. ASSUME s[n + 1].kind # "function" PROVE NameAt(t, n, x)
    <2>1. NameAt(s, n, x)
        BY <1>1, <1>7 DEF NamesKept, NameAt
    <2> QED BY <1>2, <2>1, NameOfPrefix
<1> QED BY <1>1, <1>2, <1>4, <1>5, <1>6, <1>7 DEF t, n, NamesKept

-----------------------------------------------------------------------------
(* The innermost `!?` of an activation.                                    *)

\* The activation at the top, as a record of this kind and of these parts.
LEMMA TopGood ==
    ASSUME FileAtBottom(frames)
    PROVE  /\ Good(Top) /\ Len(frames) \in 1 .. Len(frames) /\ Len(frames) \in Nat
           /\ Top.tries \in Seq(Try) /\ Len(Top.tries) \in Nat
           /\ InTry => Len(Top.tries) >= 1 /\ InnermostTry \in Try
<1>1. Len(frames) \in Nat /\ Len(frames) \in 1 .. Len(frames) /\ Good(Top)
    BY LenProperties, ConstantsAssumption DEF FileAtBottom, Top
<1>2. Top.tries \in Seq(Try) /\ Len(Top.tries) \in Nat
    BY <1>1, LenProperties DEF Good, Frame
<1>3. ASSUME InTry PROVE Len(Top.tries) >= 1 /\ InnermostTry \in Try
    <2>1. Len(Top.tries) >= 1
        BY <1>2, <1>3, EmptySeq DEF InTry
    <2>2. Len(Top.tries) \in 1 .. Len(Top.tries)
        BY <1>2, <2>1
    <2> QED BY <1>2, <2>1, <2>2, ElementOfSeq DEF InnermostTry
<1> QED BY <1>1, <1>2, <1>3

\* Another part of it runs.
LEMMA TryMoves ==
    ASSUME FileAtBottom(frames), InTry, NEW t \in Try
    PROVE  /\ Good(WithTry(t)) /\ WithTry(t).kind = Top.kind
           /\ WithTry(t).name = Top.name /\ WithTry(t).caller = Top.caller
<1> DEFINE ts == [Top.tries EXCEPT ![Len(Top.tries)] = t]
<1>1. Top \in Frame /\ Len(Top.tries) <= MaxTries /\ Top.tries \in Seq(Try)
      /\ Len(Top.tries) \in 1 .. Len(Top.tries)
    BY TopGood DEF Good
<1>2. ts \in Seq(Try) /\ Len(ts) = Len(Top.tries)
    BY <1>1, ExceptSeq
<1>3. WithTry(t) = [Top EXCEPT !.tries = ts]
    BY DEF WithTry
<1> HIDE DEF ts
<1> QED BY <1>1, <1>2, <1>3 DEF Good, Frame

\* It is left.
LEMMA TryLeft ==
    ASSUME FileAtBottom(frames), InTry
    PROVE  /\ Good(OutOfTry) /\ OutOfTry.kind = Top.kind
           /\ OutOfTry.name = Top.name /\ OutOfTry.caller = Top.caller
<1> DEFINE n == Len(Top.tries) - 1
           ts == SubSeq(Top.tries, 1, n)
<1>1. Top \in Frame /\ Len(Top.tries) <= MaxTries /\ Top.tries \in Seq(Try)
      /\ n \in Nat /\ Len(Top.tries) = n + 1 /\ MaxTries \in Nat
    BY TopGood, ConstantsAssumption DEF Good
<1>2. ts \in Seq(Try) /\ Len(ts) = n
    BY <1>1, SubSeqProperties
<1>3. OutOfTry = [Top EXCEPT !.tries = ts]
    BY DEF OutOfTry
<1> HIDE DEF ts, n
<1> QED BY <1>1, <1>2, <1>3 DEF Good, Frame

-----------------------------------------------------------------------------
(* Every step keeps the invariant.                                         *)

\* A new activation is within the bounds.
LEMMA ActivationGood ==
    ASSUME NEW kind \in {"file", "function", "value"}, NEW name \in Functions \union {NoFunction},
           NEW arg \in Values \union {NoFunction}, NEW consts \in SUBSET Names,
           NEW caller \in Functions \union {NoFunction}
    PROVE  /\ Good(Activation(kind, name, arg, consts, caller))
           /\ Activation(kind, name, arg, consts, caller).kind = kind
           /\ Activation(kind, name, arg, consts, caller).name = name
           /\ Activation(kind, name, arg, consts, caller).caller = caller
BY EmptySeq, ConstantsAssumption DEF Activation, Good, Frame

\* The name that holds is a function's, or none.
LEMMA NameTyped ==
    ASSUME Inv
    PROVE  currentFunction \in Functions \union {NoFunction}
<1>1. \A k \in 1 .. Len(frames) : frames[k].name \in Functions \union {NoFunction}
    BY DEF Inv, FileAtBottom, Good, Frame
<1> QED BY <1>1 DEF Inv, NamesKept, NameAt

\* At the beginning there is the file's activation and no name.
LEMMA InitInv == Init => Inv
<1> SUFFICES ASSUME Init PROVE Inv
    OBVIOUS
<1> DEFINE h == Activation("file", NoFunction, NoFunction, {}, NoFunction)
<1>1. Good(h) /\ h.kind = "file"
    BY ActivationGood
<1>2. h \in Frame
    BY <1>1 DEF Good
<1> HIDE DEF h
<1>3. frames = <<h>> /\ currentFunction = NoFunction
    BY DEF Init, h
<1>4. frames \in Seq(Frame) /\ Len(frames) = 1 /\ frames[1] = h
    BY <1>2, <1>3
<1>5. FileAtBottom(frames)
    BY <1>1, <1>4, ConstantsAssumption DEF FileAtBottom
<1>6. NamesKept(frames, currentFunction)
    BY <1>1, <1>3, <1>4 DEF NamesKept, NameAt
<1> QED BY <1>5, <1>6 DEF Inv

\* An activation that goes on as the same call.
LEMMA SameCall ==
    ASSUME Inv, NEW h, Good(h), h.kind = Top.kind, h.name = Top.name,
           h.caller = Top.caller, frames' = Replaced(h), currentFunction' = currentFunction
    PROVE  Inv'
BY ReplacedKeeps DEF Inv, Top, Replaced

\* A call takes the name along, an end gives it back, and no other step
\* changes which call an activation is.
LEMMA StepInv ==
    ASSUME Inv, [Next]_vars, args \in Values \union {NoFunction}, flow \in Flow
    PROVE  Inv'
<1> USE DEF Inv
<1>0. FileAtBottom(frames) /\ Good(Top) /\ Top.tries \in Seq(Try) /\ Len(Top.tries) \in Nat
    BY TopGood
<1>1. CASE UNCHANGED <<frames, currentFunction>>
    BY <1>1
<1>2. ASSUME NEW f \in Functions, NEW v \in Values, CallFunction(f, v) PROVE Inv'
    <2> DEFINE h == Activation("function", f, v, Top.consts, currentFunction)
    <2>0. Top.consts \in SUBSET Names
        BY <1>0 DEF Good, Frame
    <2>1. Good(h) /\ h.kind = "function" /\ h.caller = currentFunction /\ h.name = f
        BY <2>0, ActivationGood, NameTyped
    <2>2. frames' = Append(frames, h) /\ currentFunction' = f /\ ~(Len(frames) > MaxCalls)
        BY <1>2 DEF CallFunction, DepthSpent
    <2>3. Len(frames) <= MaxCalls
        BY <2>2, LenProperties, ConstantsAssumption DEF FileAtBottom
    <2> HIDE DEF h
    <2> QED BY <2>1, <2>2, <2>3, FunctionPushed
<1>3. ASSUME NEW v \in Values, CallValue(v) PROVE Inv'
    <2> DEFINE h == Activation("value", NoFunction, v, {}, NoFunction)
    <2>1. Good(h) /\ h.kind = "value"
        BY ActivationGood
    <2>2. frames' = Append(frames, h) /\ currentFunction' = currentFunction /\ ~(Len(frames) > MaxCalls)
        BY <1>3 DEF CallValue, DepthSpent
    <2>3. Len(frames) <= MaxCalls
        BY <2>2, LenProperties, ConstantsAssumption DEF FileAtBottom
    <2> HIDE DEF h
    <2> QED BY <2>1, <2>2, <2>3, ValuePushed
<1>4. ASSUME NEW c \in Names, Declare(c) PROVE Inv'
    <2> DEFINE h == [Top EXCEPT !.consts = @ \union {c}, !.turn = @ \union {c}]
    <2>1. Good(h) /\ h.kind = Top.kind /\ h.name = Top.name /\ h.caller = Top.caller
        BY <1>0 DEF Good, Frame
    <2>2. frames' = Replaced(h) /\ currentFunction' = currentFunction
        BY <1>4 DEF Declare
    <2> HIDE DEF h
    <2> QED BY <2>1, <2>2, SameCall
<1>5. CASE EnterTry
    <2> DEFINE ts == Append(Top.tries, [part |-> "body", owed |-> "none"])
               h == [Top EXCEPT !.tries = ts]
    <2>1. ts \in Seq(Try) /\ Len(ts) = Len(Top.tries) + 1 /\ Len(Top.tries) < MaxTries
        BY <1>0, <1>5, AppendProperties DEF EnterTry, Try, Flow
    <2>2. Len(ts) <= MaxTries
        BY <1>0, <2>1, ConstantsAssumption
    <2>3. Good(h) /\ h.kind = Top.kind /\ h.name = Top.name /\ h.caller = Top.caller
        <3> HIDE DEF ts
        <3> QED BY <1>0, <2>1, <2>2 DEF Good, Frame
    <2>4. frames' = Replaced(h) /\ currentFunction' = currentFunction
        BY <1>5 DEF EnterTry
    <2> HIDE DEF h
    <2> QED BY <2>3, <2>4, SameCall
<1>6. CASE Catch \/ RunFinally
    <2>1. InTry /\ InnermostTry \in Try
        BY <1>6, TopGood DEF Catch, RunFinally
    <2>2. PICK t \in Try : frames' = Replaced(WithTry(t)) /\ currentFunction' = currentFunction
        BY <1>6, <2>1 DEF Catch, RunFinally, Try
    <2> QED BY <2>1, <2>2, TryMoves, SameCall
<1>7. CASE LeaveTry \/ LeaveFinally
    <2>1. InTry /\ frames' = Replaced(OutOfTry) /\ currentFunction' = currentFunction
        BY <1>7 DEF LeaveTry, LeaveFinally
    <2> QED BY <2>1, TryLeft, SameCall
<1>8. CASE Restart
    <2> DEFINE h == [Top EXCEPT !.arg = args, !.turn = {}]
    <2>1. Good(h) /\ h.kind = Top.kind /\ h.name = Top.name /\ h.caller = Top.caller
        BY <1>0 DEF Good, Frame
    <2>2. frames' = Replaced(h) /\ currentFunction' = currentFunction
        BY <1>8 DEF Restart
    <2> HIDE DEF h
    <2> QED BY <2>1, <2>2, SameCall
<1>9. CASE FunctionReturns
    BY <1>9, Popped DEF FunctionReturns, BodyOver, Top, Below
<1>10. CASE ValueReturns
    BY <1>10, Popped DEF ValueReturns, BodyOver, Top, Below
<1>11. CASE CallFails
    BY <1>11, Popped DEF CallFails, NameBack, Top, Below
<1> QED
    BY <1>1, <1>2, <1>3, <1>4, <1>5, <1>6, <1>7, <1>8, <1>9, <1>10, <1>11
    DEF Next, vars, CallRefused, Ask, Return, Raise, DeclareRefused, FileEnds

-----------------------------------------------------------------------------
(* The request belongs to the activation on its way out.                   *)

\* While the request of a function stands nothing runs, so no step but the
\* restart it asks for can come next.
LEMMA RequestStep ==
    ASSUME Inv, RequestIsOwn, [Next]_vars
    PROVE  RequestIsOwn'
<1>1. ASSUME NEW f \in Functions, NEW v \in Values, Ask(f, v) PROVE RequestIsOwn'
    <2>1. /\ ~InTry
          /\ asker' = IF Top.kind = "function" THEN Len(frames) ELSE 0
        BY <1>1 DEF Ask, Asks
    <2>2. Top' = Top /\ InTry' = InTry
        BY <1>1 DEF Ask, Top, InTry
    <2>3. frames' = frames /\ flow' = "return"
        BY <1>1 DEF Ask
    <2> QED BY <2>1, <2>2, <2>3 DEF RequestIsOwn
<1>2. CASE UNCHANGED vars
    BY <1>2 DEF vars, RequestIsOwn, Top, InTry
<1>3. CASE Restart
    BY <1>3 DEF Restart, RequestIsOwn
<1>4. CASE FunctionReturns
    BY <1>4 DEF FunctionReturns, RequestIsOwn
<1>5. CASE FileEnds
    BY <1>5 DEF FileEnds, RequestIsOwn, Top, InTry
<1>6. ASSUME pending' = pending, asker' = asker, ~pending \/ asker = 0
      PROVE  RequestIsOwn'
    BY <1>6 DEF RequestIsOwn
<1>7. ASSUME pending, asker # 0,
                      \/ CallRefused \/ Return \/ Raise \/ EnterTry \/ Catch \/ RunFinally
                      \/ LeaveTry \/ LeaveFinally \/ ValueReturns \/ CallFails
                      \/ \E f \in Functions, v \in Values : CallFunction(f, v)
                      \/ \E v \in Values : CallValue(v)
                      \/ \E c \in Names : Declare(c) \/ DeclareRefused(c)
      PROVE  FALSE
    BY <1>7 DEF RequestIsOwn, Running, CallRefused, Return, Raise, EnterTry, Catch, RunFinally,
       LeaveTry, LeaveFinally, ValueReturns, BodyOver, CallFails, CallFunction, CallValue,
       Declare, DeclareRefused
<1>8. ASSUME \/ CallRefused \/ Return \/ Raise \/ EnterTry \/ Catch \/ RunFinally
             \/ LeaveTry \/ LeaveFinally \/ ValueReturns \/ CallFails
             \/ \E f \in Functions, v \in Values : CallFunction(f, v)
             \/ \E v \in Values : CallValue(v)
             \/ \E c \in Names : Declare(c) \/ DeclareRefused(c)
      PROVE  pending' = pending /\ asker' = asker
    BY <1>8 DEF CallRefused, Return, Raise, EnterTry, Catch, RunFinally,
       LeaveTry, LeaveFinally, ValueReturns, CallFails, CallFunction, CallValue,
       Declare, DeclareRefused
<1> QED BY Zenon, <1>1, <1>2, <1>3, <1>4, <1>5, <1>6, <1>7, <1>8 DEF Next

-----------------------------------------------------------------------------
(* The other variables, and the theorems.                                  *)

Small ==
    /\ args \in Values \union {NoFunction}
    /\ flow \in Flow
    /\ asker \in 0 .. MaxCalls + 1

Flags == pending \in BOOLEAN /\ ended \in BOOLEAN

\* The request's arguments are arguments, and an activation's place is one.
LEMMA SmallStep ==
    ASSUME Inv, Small, [Next]_vars
    PROVE  Small'
<1>1. Len(frames) \in 0 .. MaxCalls + 1
    BY ConstantsAssumption DEF Inv, FileAtBottom
<1>2. CASE LeaveFinally
    <2>1. InnermostTry \in Try
        BY <1>2, TopGood DEF LeaveFinally, Inv
    <2> QED BY <1>2, <2>1 DEF LeaveFinally, AfterFinally, Small, Try, Flow
<1>3. CASE ~LeaveFinally
    <2>1. flow' \in {flow, "none", "return", "error"}
        BY <1>3
        DEF Next, vars, CallRefused, CallFunction, CallValue, Ask, Return, Raise,
            Declare, DeclareRefused, EnterTry, Catch, RunFinally, LeaveTry, Restart,
            FunctionReturns, ValueReturns, CallFails, FileEnds
    <2>2. args' \in Values \union {args, NoFunction}
        BY <1>3
        DEF Next, vars, CallRefused, CallFunction, CallValue, Ask, Return, Raise,
            Declare, DeclareRefused, EnterTry, Catch, RunFinally, LeaveTry, Restart,
            FunctionReturns, ValueReturns, CallFails, FileEnds
    <2>3. asker' \in {asker, Len(frames), 0}
        BY <1>3
        DEF Next, vars, CallRefused, CallFunction, CallValue, Ask, Return, Raise,
            Declare, DeclareRefused, EnterTry, Catch, RunFinally, LeaveTry, Restart,
            FunctionReturns, ValueReturns, CallFails, FileEnds
    <2>4. 0 \in 0 .. MaxCalls + 1
        BY ConstantsAssumption
    <2> QED BY <1>1, <2>1, <2>2, <2>3, <2>4 DEF Small, Flow
<1> QED BY <1>2, <1>3

\* The flags stay Booleans.
LEMMA FlagsStep == Flags /\ [Next]_vars => Flags'
BY Zenon
DEF Flags, Next, vars, CallRefused, CallFunction, CallValue, Ask, Return, Raise,
    Declare, DeclareRefused, EnterTry, Catch, RunFinally, LeaveTry, LeaveFinally, Restart,
    FunctionReturns, ValueReturns, CallFails, FileEnds

\* The inductive invariant holds in every state of every run.
THEOREM InvHolds == Spec => [](Inv /\ Small)
<1>1. Init => Small
    BY ConstantsAssumption DEF Init, Small, Flow
<1>2. Inv /\ Small /\ [Next]_vars => (Inv /\ Small)'
    BY StepInv, SmallStep DEF Small
<1> QED BY <1>1, <1>2, InitInv, PTL DEF Spec

\* Nothing comes between what a function asks and the restart it asks for:
\* `<~ f(..)` takes the place of the call that made it, whatever bodies run as
\* values asked before.
THEOREM RequestIsOwnHolds == Spec => []RequestIsOwn
<1>1. Init => RequestIsOwn
    BY DEF Init, RequestIsOwn
<1>2. Inv /\ RequestIsOwn /\ [Next]_vars => RequestIsOwn'
    BY RequestStep
<1> QED BY <1>1, <1>2, InvHolds, PTL DEF Spec

\* current_function is the innermost function's name in every state, errors
\* and bodies run as values included.
THEOREM CurrentIsInnermostHolds == Spec => []CurrentIsInnermost
<1>1. Inv => CurrentIsInnermost
    <2> SUFFICES ASSUME Inv PROVE CurrentIsInnermost
        OBVIOUS
    <2>1. Len(frames) \in Nat /\ NameAt(frames, Len(frames), currentFunction)
        BY TopGood DEF Inv, NamesKept
    <2>2. CASE FunctionsIn(frames) = {}
        BY <2>1, <2>2 DEF NameAt, FunctionsIn, CurrentIsInnermost
    <2>3. CASE FunctionsIn(frames) # {}
        <3>1. PICK k \in 1 .. Len(frames) :
                /\ frames[k].kind = "function" /\ frames[k].name = currentFunction
                /\ \A i \in 1 .. Len(frames) : i > k => frames[i].kind # "function"
            BY <2>1, <2>3 DEF NameAt, FunctionsIn
        <3>2. k \in FunctionsIn(frames) /\ \A j \in FunctionsIn(frames) : j <= k
            BY <2>1, <3>1 DEF FunctionsIn
        <3> QED BY <2>3, <3>1, <3>2 DEF CurrentIsInnermost
    <2> QED BY <2>2, <2>3
<1> QED BY <1>1, InvHolds, PTL

\* Every variable keeps its type, and no more calls are active at once than
\* enter_call lets in.
THEOREM TypeCorrect == Spec => []TypeOK
<1>1. Init => Flags
    BY Zenon DEF Init, Flags
<1>2. Inv => /\ frames \in Seq(Frame) /\ Len(frames) \in 1 .. MaxCalls + 1
             /\ \A i \in 1 .. Len(frames) : Len(frames[i].tries) <= MaxTries
             /\ currentFunction \in Functions \union {NoFunction}
    BY NameTyped DEF Inv, FileAtBottom, Good
<1>3. Inv /\ Small /\ Flags => TypeOK
    BY Zenon, <1>2 DEF Small, Flags, TypeOK
<1> QED BY <1>1, <1>3, FlagsStep, InvHolds, PTL DEF Spec
=============================================================================
