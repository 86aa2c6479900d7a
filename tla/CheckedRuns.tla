----------------------------- MODULE CheckedRuns -----------------------------
(* The tree-walker running a program that `check` accepts, statement by      *)
(* statement, with every outcome a condition, a failure or a matched value   *)
(* can have; beside it what `check` said, so that the two can be compared.    *)
EXTENDS NameChecks

CONSTANTS
    Programs,       \* the programs, as written
    Scrutinees,     \* the values a `??` can meet: [kind, k]
    MaxTurns        \* turns of a loop

ASSUME TurnsAssumption == MaxTurns \in Nat

VARIABLES
    program,
    report,         \* what `check` says of it
    agenda,         \* what is still to be done, the next task first
    frame,          \* the running frame: scopes, loop depths, ended names
    globals,        \* the constants of the file
    ended,          \* the names some `\` has ended
    flow,           \* a jump, a return or an error under way
    event           \* what the last step did

vars == <<program, report, agenda, frame, globals, ended, flow, event>>

NoFlow == [k |-> "none", label |-> NoName]
Error == [k |-> "error", label |-> NoName]

\* A scope maps a name to the place that declared it; ended maps the names a
\* `\` took away to the scope and the declaration they had.
NewFrame(scope) == [scopes |-> <<scope>>, loops |-> <<>>, dead |-> <<>>]

Quiet == [began |-> <<>>, read |-> {}, missing |-> {}, stray |-> FALSE, unmatched |-> {}]

-----------------------------------------------------------------------------
(* Scopes *)

Depth == Len(frame.scopes)
HeldAt(f, x) == {i \in 1 .. Len(f.scopes) : x \in DOMAIN f.scopes[i]}

push_scope(f) == [f EXCEPT !.scopes = Append(@, <<>>)]
Kept(dead, depth) == Restrict(dead, {x \in DOMAIN dead : dead[x].place <= depth})
unwind_scopes_to(f, depth, loops) ==
    [scopes |-> SubSeq(f.scopes, 1, depth), loops |-> SubSeq(f.loops, 1, loops),
     dead |-> Kept(f.dead, depth)]
pop_scope(f) == unwind_scopes_to(f, Len(f.scopes) - 1, Len(f.loops))
push_loop_scope(f) ==
    [f EXCEPT !.scopes = Append(@, <<>>), !.loops = Append(@, Len(f.scopes) + 1)]
pop_loop_scope(f) == pop_scope([f EXCEPT !.loops = Front(@)])

insert(f, i, x, d) == [f EXCEPT !.scopes[i] = (x :> d) @@ @]

\* Where it is; else where `\` took it from; else here.
set_variable(f, x, at) ==
    LET g == [f EXCEPT !.dead = Restrict(@, DOMAIN @ \ {x})]
    IN CASE HeldAt(f, x) # {} -> g
         [] HeldAt(f, x) = {} /\ x \in DOMAIN f.dead -> insert(g, f.dead[x].place, x, f.dead[x].at)
         [] OTHER -> insert(g, Len(f.scopes), x, at)

set_above_nearest_loop(f, x, at) ==
    insert(f, IF Len(f.loops) >= 2 THEN f.loops[Len(f.loops) - 1] ELSE 1, x, at)

destroy_variable(f, x) ==
    IF HeldAt(f, x) = {} THEN f
    ELSE LET i == Max(HeldAt(f, x))
         IN [f EXCEPT !.scopes[i] = Restrict(@, DOMAIN @ \ {x}),
                      !.dead = (x :> [place |-> i, at |-> f.scopes[i][x]]) @@ @]

IsThere(x) == x \notin DOMAIN frame.dead /\ (HeldAt(frame, x) # {} \/ x \in DOMAIN globals)
BornAt(x) == IF HeldAt(frame, x) # {} THEN frame.scopes[Max(HeldAt(frame, x))][x] ELSE globals[x]

\* A loop's body has a scope of its own if it declares something there.
body_needs_own_scope(in) ==
    \E i \in 1 .. Len(in) :
      in[i].k = "const" \/ (in[i].k = "set" /\ HeldAt(frame, in[i].x) = {} /\ in[i].x \notin DOMAIN globals)

-----------------------------------------------------------------------------
(* Evaluating.  needs is a set of <<place, name>> that are read.             *)

Needs(at, on) == {<<at, x>> : x \in ToSet(on)}
Missing(needs) == {n \in needs : ~IsThere(n[2])}
Told(at, needs) == [Quiet EXCEPT !.began = at, !.read = {<<n[1], n[2], BornAt(n[2])>> : n \in needs}]
Evaluates(at, needs) == Missing(needs) = {} /\ event' = Told(at, needs)

\* The conditions up to the branch that is taken, or all of them.
NeedsUpTo(s, j) ==
    UNION {Needs(s.parts[i].at, s.parts[i].on) : i \in {m \in Conditions(s) : m <= j}}
Chosen(s) ==
    {j \in 1 .. Len(s.parts) : Reached(s, j) /\ s.parts[j].c # "#0"}

NeedsOf(s) ==
    IF s.k = "if" THEN {NeedsUpTo(s, j) : j \in {i \in Conditions(s) : Reached(s, i)}}
    ELSE {Needs(s.at, s.on)}

-----------------------------------------------------------------------------
(* Tasks *)

Do(do, of) == of @@ [do |-> do]
Run(in) == Do("run", [in |-> in])
Pop == [do |-> "pop"]
Close == [do |-> "close"]
Over == [do |-> "over"]

Head1 == agenda[1]
Rest == Tail(agenda)
Statement == agenda # <<>> /\ Head1.do = "run" /\ Head1.in # <<>> /\ flow = NoFlow
Now == Head1.in[1]
After == <<Run(Tail(Head1.in))>> \o Rest
Block(in) == <<Run(in), Pop>>

Unmoved == UNCHANGED <<program, report, globals>>
Same == UNCHANGED <<frame, ended, flow>> /\ Unmoved

\* A hot name that is nowhere is given its neutral value first.
Cold == Statement /\ Now.k = "hot" /\ HeldAt(frame, Now.x) = {}

Anchor ==
    /\ Cold
    /\ frame' = set_above_nearest_loop(frame, Now.x, Now.at)
    /\ event' = [Quiet EXCEPT !.began = Now.at]
    /\ UNCHANGED <<agenda, ended, flow>> /\ Unmoved

\* execute_assignment, execute_const_decl and their like.
Assign ==
    /\ Statement /\ Now.k \in Writes /\ ~Cold
    /\ Evaluates(Now.at, Needs(Now.at, Now.on))
    /\ agenda' = After
    /\ frame' = set_variable(frame, Now.x, Now.at)
    /\ globals' = IF Now.k = "const" /\ Depth = 1 /\ \A i \in 1 .. Len(agenda) : agenda[i].do # "back"
                  THEN (Now.x :> Now.at) @@ globals ELSE globals
    /\ UNCHANGED <<program, report, ended, flow>>

Output ==
    /\ Statement /\ Now.k = "read"
    /\ Evaluates(Now.at, Needs(Now.at, Now.on))
    /\ agenda' = After /\ Same

\* A second `\` is an error, and so is reading what is not there.
End ==
    /\ Statement /\ Now.k = "end"
    /\ agenda' = After
    /\ frame' = destroy_variable(frame, Now.x)
    /\ ended' = ended \cup {Now.x}
    /\ flow' = IF HeldAt(frame, Now.x) = {} /\ Now.x \in DOMAIN frame.dead THEN Error ELSE NoFlow
    /\ event' = [Quiet EXCEPT !.began = Now.at]
    /\ Unmoved

\* What an evaluation can end in: a name that is not there, or any failure.
Fail ==
    /\ Statement /\ ~Cold
    /\ \E needs \in NeedsOf(Now) :
         /\ Missing(needs) # {} \/ needs # {}
         /\ event' = [Quiet EXCEPT !.began = Now.at, !.missing = Missing(needs)]
    /\ flow' = Error
    /\ agenda' = After
    /\ UNCHANGED <<frame, ended>> /\ Unmoved

Jump ==
    /\ Statement /\ Now.k \in Jumps
    /\ Evaluates(Now.at, Needs(Now.at, Now.on))
    /\ flow' = [k |-> Now.k, label |-> Now.label]
    /\ agenda' = After
    /\ UNCHANGED <<frame, ended>> /\ Unmoved

\* A branch has a scope of its own if it assigns something.
needs_own_scope(in) == \E i \in 1 .. Len(in) : in[i].k \in {"set", "hot", "const"}
Branched(in) == IF needs_own_scope(in) THEN Block(in) ELSE <<Run(in)>>

\* The branch taken, or none where none needs to be.
If ==
    /\ Statement /\ Now.k = "if"
    /\ \/ \E j \in Chosen(Now) :
            /\ Evaluates(Now.at, NeedsUpTo(Now, j))
            /\ agenda' = Branched(Now.parts[j].in) \o After
            /\ frame' = IF needs_own_scope(Now.parts[j].in) THEN push_scope(frame) ELSE frame
       \/ /\ ~HasElse(Now) /\ Decides(Now) = {}
          /\ Evaluates(Now.at, NeedsUpTo(Now, Len(Now.parts)))
          /\ agenda' = After
          /\ UNCHANGED frame
    /\ UNCHANGED <<ended, flow>> /\ Unmoved

\* run_loop: the specifier is read, and whether the body has a scope decided.
Again(s, turns, own, first) == Do("again", [s |-> s, turns |-> turns, own |-> own, first |-> first])

Loop ==
    /\ Statement /\ Now.k = "loop"
    /\ Evaluates(Now.at, Needs(Now.at, Now.on))
    /\ frame' = push_loop_scope(frame)
    /\ agenda' = <<Again(Now, 0, body_needs_own_scope(Now.parts[1].in), TRUE), Over>> \o After
    /\ UNCHANGED <<ended, flow>> /\ Unmoved

Turning == agenda # <<>> /\ Head1.do = "again" /\ flow = NoFlow
Stops(s) == s.c \in {"#0", "?", "each"}

Turn ==
    /\ Turning /\ Head1.s.c # "#0" /\ Head1.turns < MaxTurns
    /\ LET s == Head1.s
           at == s.parts[1]
           f == IF s.x = NoName THEN frame ELSE set_variable(frame, s.x, s.at)
       IN /\ Evaluates(<<>>, IF s.c = "?" /\ ~Head1.first THEN Needs(s.at, s.on) ELSE {})
          /\ frame' = IF Head1.own THEN push_scope(f) ELSE f
          /\ agenda' = <<Run(at.in)>> \o (IF Head1.own THEN <<Pop>> ELSE <<>>)
                         \o <<Again(s, Head1.turns + 1, Head1.own, FALSE)>> \o Rest
    /\ UNCHANGED <<ended, flow>> /\ Unmoved

NoMoreTurns ==
    /\ Turning /\ Stops(Head1.s)
    /\ Evaluates(<<>>, IF Head1.s.c = "?" /\ ~Head1.first THEN Needs(Head1.s.at, Head1.s.on) ELSE {})
    /\ agenda' = Rest /\ Same

\* The condition of a later turn fails.
TurnFails ==
    /\ Turning /\ Head1.s.c = "?" /\ ~Head1.first
    /\ LET missing == Missing(Needs(Head1.s.at, Head1.s.on))
       IN missing # {} /\ event' = [Quiet EXCEPT !.missing = missing]
    /\ flow' = Error
    /\ agenda' = Rest
    /\ UNCHANGED <<frame, ended>> /\ Unmoved

LoopOver ==
    /\ agenda # <<>> /\ Head1.do = "over"
    /\ frame' = pop_loop_scope(frame)
    /\ agenda' = Rest
    /\ event' = Quiet
    /\ UNCHANGED <<ended, flow>> /\ Unmoved

\* pattern_matches.  Any value may come: values of two kinds are not equal, and
\* what is no number cannot be ordered with one, which is an error.
Equals(a, v) == v.kind = (IF a.op = "bool" THEN "bool" ELSE "num") /\ v.k = a.k
Refuses(a, v) == a.op \in {"<", "<=", ">", ">="} /\ v.kind # "num"
Matches(a, v) ==
    CASE a.op = "_" -> TRUE
      [] a.op = "error" -> v.kind = "error"
      [] a.op \in {"bool", "lit", "=="} -> Equals(a, v)
      [] a.op = "<>" -> ~Equals(a, v)
      [] OTHER -> /\ v.kind = "num"
                  /\ CASE a.op = "<" -> v.k < a.k [] a.op = "<=" -> v.k <= a.k
                       [] a.op = ">" -> v.k > a.k [] OTHER -> v.k >= a.k

\* The arms that would end the search: the first of them does.
Stopping(s, v) ==
    {j \in 1 .. Len(s.parts) : \E a \in s.parts[j].pats : Matches(a, v) \/ Refuses(a, v)}

\* eval_match; a refused comparison is one of the failures of Fail.
Match ==
    /\ Statement /\ Now.k = "match"
    /\ \E v \in Scrutinees :
         LET arm == Now.parts[Min(Stopping(Now, v))]
         IN /\ Stopping(Now, v) # {}
            /\ \E a \in arm.pats : Matches(a, v)
            /\ IF arm.x # NoName /\ v.kind = "error"
               THEN /\ frame' = push_scope(set_variable(push_scope(frame), arm.x, arm.at))
                    /\ agenda' = Block(arm.in) \o <<Close>> \o After
               ELSE /\ frame' = push_scope(frame)
                    /\ agenda' = Block(arm.in) \o After
    /\ Evaluates(Now.at, Needs(Now.at, Now.on))
    /\ UNCHANGED <<ended, flow>> /\ Unmoved

NoArm ==
    /\ Statement /\ Now.k = "match"
    /\ Missing(Needs(Now.at, Now.on)) = {}
    /\ \E v \in Scrutinees :
         /\ Stopping(Now, v) = {}
         /\ event' = [Told(Now.at, Needs(Now.at, Now.on)) EXCEPT
                        !.unmatched = {[value |-> v, arms |-> Alternatives(Now)]}]
    /\ flow' = Error
    /\ agenda' = After
    /\ UNCHANGED <<frame, ended>> /\ Unmoved

\* `>>| { }`, and a function's declaration, which runs nothing.
Tui ==
    /\ Statement /\ Now.k = "tui"
    /\ agenda' = Block(Now.parts[1].in) \o After
    /\ frame' = push_scope(frame)
    /\ event' = [Quiet EXCEPT !.began = Now.at]
    /\ UNCHANGED <<ended, flow>> /\ Unmoved

Declare ==
    /\ Statement /\ Now.k = "fun"
    /\ agenda' = After
    /\ event' = [Quiet EXCEPT !.began = Now.at] /\ Same

-----------------------------------------------------------------------------
(* Calls *)

Back(f) == Do("back", [frame |-> f])
Bound(p) == IF p.x = NoName THEN <<>> ELSE (p.x :> p.at)

Call ==
    /\ Statement /\ Now.k = "call"
    /\ Evaluates(Now.at, Needs(Now.at, Now.on))
    /\ \E i \in 1 .. Len(program) :
         /\ program[i].k = "fun" /\ program[i].x = Now.x
         /\ LET p == program[i].parts[1]
            IN /\ frame' = NewFrame(Bound(p))
               /\ agenda' = <<Run(p.in), Back(frame)>> \o After
    /\ UNCHANGED <<ended, flow>> /\ Unmoved

\* The names a straight body mentions, as they are where it is written.
Captured(p) ==
    LET names == {x \in UNION {ToSet(p.in[i].on) : i \in 1 .. Len(p.in)} : HeldAt(frame, x) # {}}
    IN [x \in names |-> BornAt(x)]

\* A block lambda is made and its operator calls it, or has nothing to call it
\* with.
Apply ==
    /\ Statement /\ Now.k = "lambda"
    /\ Evaluates(Now.at, Needs(Now.at, Now.on))
    /\ LET p == Now.parts[1]
       IN \/ /\ frame' = NewFrame(Bound(p) @@ Captured(p))
             /\ agenda' = <<Run(p.in), Back(frame)>> \o After
          \/ /\ agenda' = After /\ UNCHANGED frame
    /\ UNCHANGED <<ended, flow>> /\ Unmoved

\* A call is over: by its end, by `<~`, or by an error that goes on.
Return ==
    /\ agenda # <<>> /\ Head1.do = "back"
    /\ frame' = Head1.frame
    /\ flow' = IF flow.k = "error" THEN flow ELSE NoFlow
    /\ event' = [Quiet EXCEPT !.stray = flow.k \in {"break", "continue"}]
    /\ agenda' = Rest
    /\ UNCHANGED ended /\ Unmoved

-----------------------------------------------------------------------------
(* `!?`, its clauses and its `:>` *)

Tried(do, s) == Do(do, [s |-> s, depth |-> Depth, loops |-> Len(frame.loops)])

Try ==
    /\ Statement /\ Now.k = "try"
    /\ agenda' = Block(Now.parts[1].in) \o <<Tried("tried", Now)>> \o After
    /\ frame' = push_scope(frame)
    /\ event' = [Quiet EXCEPT !.began = Now.at]
    /\ UNCHANGED <<ended, flow>> /\ Unmoved

Clauses(s) == {j \in 1 .. Len(s.parts) : s.parts[j].role = "clause"}
Finally(s) == {j \in 1 .. Len(s.parts) : s.parts[j].role = "finally"}
Ends(do) == agenda # <<>> /\ Head1.do = do
Unwound == IF flow.k = "error" THEN unwind_scopes_to(frame, Head1.depth, Head1.loops) ELSE frame

\* The clause whose filter takes the error.
Catch ==
    /\ Ends("tried") /\ flow.k = "error"
    /\ \E j \in Clauses(Head1.s) :
         /\ agenda' = Block(Head1.s.parts[j].in) \o <<[Head1 EXCEPT !.do = "caught"]>> \o Rest
         /\ frame' = set_variable(push_scope(Unwound), "_err", Head1.s.parts[j].at)
    /\ flow' = NoFlow
    /\ event' = Quiet
    /\ UNCHANGED ended /\ Unmoved

\* No clause is left to run: `:>` runs, with what is under way set aside.
Finish ==
    /\ Ends("tried") \/ Ends("caught")
    /\ frame' = IF Finally(Head1.s) = {} THEN Unwound ELSE push_scope(Unwound)
    /\ IF Finally(Head1.s) = {}
       THEN agenda' = Rest /\ UNCHANGED flow
       ELSE /\ agenda' = Block(Head1.s.parts[Min(Finally(Head1.s))].in)
                           \o <<Do("cleanup", [was |-> flow, depth |-> Head1.depth, loops |-> Head1.loops])>> \o Rest
            /\ flow' = NoFlow
    /\ event' = Quiet
    /\ UNCHANGED ended /\ Unmoved

\* An error of the `:>` goes on; a jump in it does not, and what was set aside
\* comes back.
Resume ==
    /\ Ends("cleanup")
    /\ frame' = Unwound
    /\ flow' = IF flow.k = "error" THEN flow ELSE Head1.was
    /\ agenda' = Rest
    /\ event' = Quiet
    /\ UNCHANGED ended /\ Unmoved

-----------------------------------------------------------------------------
(* Blocks that end, and what is under way passing through.                   *)

Leave ==
    /\ agenda # <<>>
    /\ Head1.do = "run" /\ (flow # NoFlow \/ Head1.in = <<>>)
    /\ agenda' = Rest
    /\ event' = Quiet
    /\ UNCHANGED <<frame, ended, flow>> /\ Unmoved

\* An error leaves the scope of the block it was raised in.
LeaveBlock ==
    /\ agenda # <<>> /\ Head1.do \in {"pop", "close"}
    /\ frame' = IF Head1.do = "pop" /\ flow.k = "error" THEN frame ELSE pop_scope(frame)
    /\ agenda' = Rest
    /\ event' = Quiet
    /\ UNCHANGED <<ended, flow>> /\ Unmoved

\* handle_loop_control
Ours(s) == flow.label \in {NoName, s.label}
LoopControl ==
    /\ agenda # <<>> /\ Head1.do = "again" /\ flow # NoFlow
    /\ flow' = IF flow.k \in {"break", "continue"} /\ Ours(Head1.s) THEN NoFlow ELSE flow
    /\ agenda' = IF flow.k = "continue" /\ Ours(Head1.s) THEN agenda ELSE Rest
    /\ event' = Quiet
    /\ UNCHANGED <<frame, ended>> /\ Unmoved

\* At file level nothing is left of a jump; a return or an error ends the run.
Exit ==
    /\ agenda = <<>> /\ flow # NoFlow
    /\ event' = [Quiet EXCEPT !.stray = flow.k \in {"break", "continue"}]
    /\ flow' = NoFlow
    /\ UNCHANGED <<agenda, frame, ended>> /\ Unmoved

Init ==
    /\ program \in {p \in {WithSpans(q, <<>>) : q \in Programs} : Accepted(p)}
    /\ report = Report(program)
    /\ agenda = <<Run(program)>>
    /\ frame = NewFrame(<<>>)
    /\ globals = <<>> /\ ended = {} /\ flow = NoFlow /\ event = Quiet

Next ==
    \/ Anchor \/ Assign \/ Output \/ End \/ Fail \/ Jump \/ If \/ Loop \/ Turn \/ NoMoreTurns \/ TurnFails
    \/ LoopOver \/ Match \/ NoArm \/ Tui \/ Declare \/ Call \/ Apply \/ Return
    \/ Try \/ Catch \/ Finish \/ Resume \/ Leave \/ LeaveBlock \/ LoopControl \/ Exit

Spec == Init /\ [][Next]_vars

-----------------------------------------------------------------------------
(* What the warnings promise *)

\* A statement that is said to be unreachable, and what follows it in its
\* block, never begins.
AtOrAfter(at, u) ==
    /\ Len(at) >= Len(u) /\ SubSeq(at, 1, Len(u) - 1) = SubSeq(u, 1, Len(u) - 1)
    /\ at[Len(u)] >= u[Len(u)]
UnreachableNeverBegins == \A u \in report.unreachable : ~AtOrAfter(event.began, u)

\* Every statement of a block and of the blocks inside it.
RECURSIVE StatementsIn(_)
StatementsIn(in) ==
    ToSet(in) \cup UNION {UNION {StatementsIn(b) : b \in Blocks(in[i])} : i \in 1 .. Len(in)}

\* Every other number of a place is a statement's.
IsPartOf(at, of) == Len(at) > Len(of) /\ SubSeq(at, 1, Len(of)) = of
ComesAfter(at, of) ==
    \E n \in 1 .. Min({Len(at), Len(of)}) :
        n % 2 = 1 /\ SubSeq(at, 1, n - 1) = SubSeq(of, 1, n - 1) /\ at[n] > of[n]

\* What destroyed.rs:240-252 forgets of a `!?` with a `:>`: in the `:>`, what a
\* clause assigned; after the `!?`, what the `:>` assigned.
Forgotten(at, x) ==
    \E s \in {t \in StatementsIn(program) : t.k = "try"} : \E j \in Finally(s) :
      \/ IsPartOf(at, s.parts[j].at) /\ \E i \in Clauses(s) : x \in assigned_in(s.parts[i].in)
      \/ ComesAfter(at, s.at) /\ x \in assigned_in(s.parts[j].in)

\* A read of which it is said that it fails when it runs never finds a value,
\* but for what a `:>` or the clause before it has assigned.
DestroyedReadsFail ==
    \A r \in event.read : <<r[1], r[2]>> \in report.destroyed => Forgotten(r[1], r[2])

\* A variable of which it is said that nothing reads it is not read.
UnreadIsNotRead == \A r \in event.read : r[3] \notin report.unread

\* The arms #1 and #0 are taken for complete whatever is matched, and leave a
\* value that is no boolean without an arm.
LeftToBooleans(u) ==
    /\ u.value.kind # "bool"
    /\ \A k \in {0, 1} : [op |-> "bool", k |-> k] \in u.arms

\* A `??` of which nothing is said finds an arm for every value, but for those
\* two arms and a value that is no boolean.
EveryValueHasItsArm ==
    \A u \in event.unmatched : event.began \in report.incomplete \/ LeftToBooleans(u)

\* A statement that is warned of does not run, and a `??` that is not warned of
\* finds its arm: unreachable.rs:36-149 and match_coverage.rs:37-172.  That a
\* warned `??` must fail, or an unwarned statement run, nobody says.
BranchesAsWarned == UnreachableNeverBegins /\ EveryValueHasItsArm

\* In a program that is accepted a jump finds its loop.
JumpsFindTheirLoop == ~event.stray

\* In a program that is accepted a name that is read is there, unless a `\`
\* ended it.
OnlyTheEndedAreMissing == \A n \in event.missing : n[2] \in ended

\* So an accepted program fails for the sake of a jump or a name only where a
\* `\` ended the name: loop_context.rs:54-148 and type_check.rs:3039-3076.
AcceptedRunsOn == JumpsFindTheirLoop /\ OnlyTheEndedAreMissing
=============================================================================
