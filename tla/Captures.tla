------------------------------ MODULE Captures ------------------------------
(***************************************************************************)
(* What a lambda remembers of the names around it, in the two engines.     *)
(*                                                                         *)
(* A lambda takes copies of the outer names its body reads, and each       *)
(* engine finds them with a walk of its own over the syntax tree:          *)
(* collect_refs_* of the tree-walker and collect_free_* of the compiler.   *)
(* A third walk, scan_* of the last-use analysis, decides how long an      *)
(* outer name lives.  Here the three walks are tables of the parts of the  *)
(* tree each one enters, and the body is run against the copies, beside    *)
(* the values the same body would read if every name in view had been      *)
(* copied.                                                                 *)
(***************************************************************************)
EXTENDS Naturals, Sequences, FiniteSets, TLC

CONSTANTS
  Names,    \* the names in view where the lambda is written
  Lambdas   \* records [engine, block, in]: who runs the lambda, whether its
            \* body is a block, and the nodes of the body

Absent == "absent"

-----------------------------------------------------------------------------
(* A syntax tree: a node has a kind, the name it reads or stores, and its  *)
(* parts; a part has a role, the names it binds for itself, and nodes.     *)

Node(k, x, parts) == [k |-> k, x |-> x, parts |-> parts]
Part(role, brings, in) == [role |-> role, brings |-> brings, in |-> in]

(* The roles of a kind of node, in the order of the source.                *)
RolesOf ==
  [read |-> <<>>, text |-> <<>>, op |-> <<"operands">>, shell |-> <<"args">>,
   lambda |-> <<"value", "body">>,
   match |-> <<"scrutinee", "pattern", "value", "body">>,
   choose |-> <<"scrutinee", "pattern", "value", "body">>,
   assign |-> <<"value">>, destructure |-> <<"value">>, screen |-> <<"items">>,
   input |-> <<"prompt">>,
   if |-> <<"condition", "then", "elifCondition", "elif", "else">>,
   while |-> <<"condition", "body">>, each |-> <<"iterable", "body">>,
   try |-> <<"body", "clause", "finally">>, tui |-> <<"body">>]

Places == UNION {{k} \X {RolesOf[k][i] : i \in DOMAIN RolesOf[k]} :
                   k \in DOMAIN RolesOf}

BlockRoles == {"then", "elif", "else", "body", "clause", "finally"}

(* What a part binds: the iterator, `_err`, a parameter.                   *)
Brings(k, role) ==
  CASE k = "each" /\ role = "body" -> {"i"}
    [] k = "try" /\ role = "clause" -> {"_err"}
    [] k = "lambda" -> {"i"}
    [] OTHER -> {}

(* A node with `in` at one of its places and nothing at the others.        *)
Plug(place, in) ==
  LET k == place[1]
  IN  Node(k, IF k = "assign" THEN "own" ELSE "",
           [j \in DOMAIN RolesOf[k] |->
              LET role == RolesOf[k][j]
              IN  Part(role, Brings(k, role), IF role = place[2] THEN in ELSE <<>>)])

PartsOf(n) == {n.parts[j] : j \in DOMAIN n.parts}

(***************************************************************************)
(* The walks: the places each enters, and the kinds of node whose bound    *)
(* names it takes for local.                                               *)
(***************************************************************************)
TreeWalk ==
  [enters |-> {<<"op", "operands">>, <<"lambda", "value">>, <<"lambda", "body">>,
               <<"match", "scrutinee">>, <<"match", "value">>, <<"match", "body">>,
               <<"assign", "value">>, <<"destructure", "value">>,
               <<"if", "condition">>, <<"if", "then">>, <<"while", "body">>,
               <<"each", "body">>},
   binds |-> {"lambda"}]

MachineWalk ==
  [enters |-> Places \ {<<"shell", "args">>, <<"input", "prompt">>},
   binds |-> {"lambda", "each", "try"}]

WalkOf(engine) == IF engine = "tree" THEN TreeWalk ELSE MachineWalk

Entered(walk, n) == {p \in PartsOf(n) : <<n.k, p.role>> \in walk.enters}

RECURSIVE OwnAfter(_, _)

(* The names a statement leaves local to the block it stands in: a `>>|`   *)
(* shares the names of the block around it, every other block copies them. *)
OwnAfter(walk, n) ==
  IF n.k = "assign" THEN {n.x}
  ELSE IF n.k # "tui" THEN {}
  ELSE UNION {UNION {OwnAfter(walk, p.in[j]) : j \in DOMAIN p.in} :
                p \in Entered(walk, n)}

RECURSIVE FreeShared(_, _, _)

(* What Free would find if the branches shared one set of local names.     *)
FreeShared(walk, nodes, own) ==
  IF nodes = <<>> THEN {}
  ELSE LET n == Head(nodes)
           stored == {p.in[1].x : p \in {q \in PartsOf(n) :
                                           q.in # <<>> /\ q.in[1].k = "assign"}}
       IN  (IF n.k \in {"read", "text"} THEN {n.x} \ own ELSE {})
             \cup UNION {FreeShared(walk, p.in,
                                    own \cup IF n.k \in walk.binds THEN p.brings ELSE {}) :
                           p \in Entered(walk, n)}
             \cup FreeShared(walk, Tail(nodes), own \cup OwnAfter(walk, n) \cup stored)

RECURSIVE Free(_, _, _)

(* The names the nodes read from outside: own are the local ones so far.   *)
Free(walk, nodes, own) ==
  IF nodes = <<>> THEN {}
  ELSE LET n == Head(nodes)
       IN  (IF n.k \in {"read", "text"} THEN {n.x} \ own ELSE {})
             \cup UNION {Free(walk, p.in,
                              own \cup IF n.k \in walk.binds THEN p.brings ELSE {}) :
                           p \in Entered(walk, n)}
             \cup Free(walk, Tail(nodes), own \cup OwnAfter(walk, n))

RECURSIVE Mentions(_)

(* Every name a node mentions, wherever it stands (scan_expr, scan_stmt).  *)
Mentions(n) ==
  {n.x} \cup UNION {p.brings \cup UNION {Mentions(p.in[j]) : j \in DOMAIN p.in} :
                      p \in PartsOf(n)}

-----------------------------------------------------------------------------
(* Running a body.                                                         *)

VARIABLES
  lambda,   \* the lambda at work
  outer,    \* the names of the code around it: [some of Names -> value]
  made,     \* the copies taken, or <<>> before there are any
  phase,    \* "written", "made", "later", "running", "done"
  frames,   \* the calls, innermost first: the real scopes of each, innermost
            \* first, and what it would see if every name had been copied
  agenda,   \* what is left to run
  leaving,  \* "no", or what drops the agenda: "error", "jump"
  read      \* the last name read: what it gave and what it should have given

vars == <<lambda, outer, made, phase, frames, agenda, leaving, read>>

Only(f, S) == [x \in S \cap DOMAIN f |-> f[x]]

Lookup(scopes, x) ==
  LET holders == {j \in DOMAIN scopes : x \in DOMAIN scopes[j]}
  IN  IF holders = {} THEN Absent
      ELSE scopes[CHOOSE j \in holders : \A h \in holders : j <= h][x]

(* set_variable: the innermost scope that has the name, or the innermost.  *)
Store(scopes, x, v) ==
  LET holders == {j \in DOMAIN scopes : x \in DOMAIN scopes[j]}
      at == IF holders = {} THEN 1
            ELSE CHOOSE j \in holders : \A h \in holders : j <= h
  IN  [scopes EXCEPT ![at] = (x :> v) @@ @]

Visible(scopes) ==
  LET in == UNION {DOMAIN scopes[j] : j \in DOMAIN scopes}
  IN  [x \in in |-> Lookup(scopes, x)]

(* eval_lambda, capture_only; compile_lambda and MakeClosure               *)
CapturesOf(engine, lam, scopes) ==
  Only(Visible(scopes),
       Free(WalkOf(engine), lam.in, lam.brings))

(* eval_lambda_call_body, the call of a closure: the scopes the body runs  *)
(* on.  An expression with no copies runs on the scopes of its caller.     *)
CallScopes(engine, isBlock, copies, caller, params) ==
  IF engine = "tree" /\ ~ isBlock /\ DOMAIN copies = {}
  THEN <<params>> \o caller
  ELSE <<params @@ copies>>

(* What is left to run is a sequence of nodes and of these marks.          *)
Mark(k) == Node(k, "", <<>>)
MarkOf(k, parts) == Node(k, "", parts)
StoreMark(k, x) == Node(k, x, <<>>)

RECURSIVE InOrder(_)

InOrder(S) == IF S = {} THEN <<>>
              ELSE LET x == CHOOSE y \in S : TRUE IN <<x>> \o InOrder(S \ {x})

InScope(nodes) == <<Mark("open")>> \o nodes \o <<Mark("close")>>

(* A part as it runs: what it binds is stored, and a block has a scope.    *)
Run(p) ==
  LET names == InOrder(p.brings)
      binds == [j \in DOMAIN names |-> StoreMark("bind", names[j])]
  IN  CASE p.role = "clause" -> InScope(binds \o p.in)
        [] p.role \in BlockRoles \ {"clause"} -> binds \o InScope(p.in)
        [] OTHER -> p.in

PartOf(n, role) == CHOOSE p \in PartsOf(n) : p.role = role

RECURSIVE RunAll(_, _)

RunAll(n, roles) ==
  IF roles = <<>> THEN <<>>
  ELSE Run(PartOf(n, Head(roles))) \o RunAll(n, Tail(roles))

(* The roles a run goes through, for each way a node can go: the branches  *)
(* of a choice, no turn of a loop, one or two.                             *)
WaysThrough(k) ==
  CASE k = "if" -> {<<"condition", "then">>, <<"condition", "elifCondition", "elif">>,
                    <<"condition", "elifCondition", "else">>}
    [] k = "while" -> {<<"condition">>, <<"condition", "body", "condition">>,
                       <<"condition", "body", "condition", "body", "condition">>}
    [] k = "each" -> {<<"iterable">>, <<"iterable", "body">>,
                      <<"iterable", "body", "body">>}
    [] k \in {"match", "choose"} -> {<<"scrutinee", "pattern", "value">>,
                                     <<"scrutinee", "pattern", "body">>}
    [] OTHER -> {RolesOf[k]}

(* What running a node puts on the agenda in its place.                    *)
Plans(n) ==
  CASE n.k \in {"while", "each"} ->
         {InScope(RunAll(n, way) \o <<Mark("loopEnd")>>) : way \in WaysThrough(n.k)}
    [] n.k = "try" ->
         {Run(PartOf(n, "body")) \o <<MarkOf("clause", <<PartOf(n, "clause")>>),
                                      MarkOf("finally", <<PartOf(n, "finally")>>)>>}
    [] n.k = "assign" ->
         {RunAll(n, <<"value">>) \o <<StoreMark("store", n.x)>>}
    [] OTHER -> {RunAll(n, way) : way \in WaysThrough(n.k)}

-----------------------------------------------------------------------------
Init ==
  /\ lambda \in Lambdas
  /\ outer = [x \in Names |-> "then"]
  /\ made = <<>> /\ phase = "written" /\ frames = <<>> /\ agenda = <<>>
  /\ leaving = "no" /\ read = <<>>

(* The analysis ends the names no statement from here on mentions.         *)
FreeUnused ==
  /\ phase = "written"
  /\ outer' = Only(outer, UNION {Mentions(lambda.in[j]) : j \in DOMAIN lambda.in})
  /\ UNCHANGED <<lambda, made, phase, frames, agenda, leaving, read>>

Make ==
  /\ phase = "written"
  /\ made' = CapturesOf(lambda.engine, [in |-> lambda.in, brings |-> {}], <<outer>>)
  /\ phase' = "made"
  /\ UNCHANGED <<lambda, outer, frames, agenda, leaving, read>>

(* The code around the lambda gives its names other values, or ends them.  *)
GoOn ==
  /\ phase = "made"
  /\ outer' \in {[x \in DOMAIN outer |-> "later"], <<>>}
  /\ phase' = "later"
  /\ UNCHANGED <<lambda, made, frames, agenda, leaving, read>>

Call ==
  /\ phase = "later"
  /\ frames' = <<[scopes |-> CallScopes(lambda.engine, lambda.block, made,
                                        <<outer>>, <<>>),
                  due |-> [x \in Names |-> "then"]]>>
  /\ agenda' = lambda.in
  /\ phase' = "running"
  /\ UNCHANGED <<lambda, outer, made, leaving, read>>

Idle == UNCHANGED <<lambda, outer, made, phase>>
Running == phase = "running" /\ agenda # <<>>
Next0 == agenda[1]
Here == frames[1]

(* An identifier, or a `{name}` in a text: its value, or nothing to give.  *)
ReadName ==
  /\ Running /\ leaving = "no" /\ Next0.k \in {"read", "text"}
  /\ read' = [name |-> Next0.x, got |-> Lookup(Here.scopes, Next0.x),
              due |-> Here.due[Next0.x]]
  /\ agenda' = Tail(agenda)
  /\ Idle /\ UNCHANGED <<frames, leaving>>

(* A statement or an expression goes one of its ways.                      *)
RunNode ==
  /\ Running /\ leaving = "no"
  /\ Next0.k \in DOMAIN RolesOf \ {"read", "text", "lambda"}
  /\ \E plan \in Plans(Next0) : agenda' = plan \o Tail(agenda)
  /\ Idle /\ UNCHANGED <<frames, leaving, read>>

(* An assignment, or what a part binds: the iterator, `_err`.              *)
StoreName ==
  /\ Running /\ leaving = "no" /\ Next0.k \in {"store", "bind"}
  /\ LET v == Next0.k
     IN  frames' = [frames EXCEPT ![1].scopes = Store(@, Next0.x, v),
                                  ![1].due = (Next0.x :> v) @@ @]
  /\ agenda' = Tail(agenda)
  /\ Idle /\ UNCHANGED <<leaving, read>>

(* A lambda inside the body: made and called on the spot.                  *)
EnterLambda ==
  /\ Running /\ leaving = "no" /\ Next0.k = "lambda"
  /\ \E p \in PartsOf(Next0) :
       LET params == [x \in p.brings |-> "argument"]
           copies == CapturesOf(lambda.engine, p, Here.scopes)
       IN  /\ p.in # <<>>
           /\ frames' =
                <<[scopes |-> CallScopes(lambda.engine, p.role = "body", copies,
                                         Here.scopes, params),
                   due |-> params @@ Here.due]>> \o frames
           /\ agenda' = p.in \o <<Mark("leave")>> \o Tail(agenda)
  /\ Idle /\ UNCHANGED <<leaving, read>>

(* The marks of what is open.  In the machine a block has no scope, its    *)
(* names are registers of the call.                                        *)
OpenBlock ==
  /\ Running /\ Next0.k = "open"
  /\ frames' = IF lambda.engine = "machine" THEN frames
               ELSE [frames EXCEPT ![1].scopes = <<<<>>>> \o @]
  /\ agenda' = Tail(agenda)
  /\ Idle /\ UNCHANGED <<leaving, read>>

CloseBlock ==
  /\ Running /\ Next0.k = "close"
  /\ frames' = IF lambda.engine = "machine" THEN frames
               ELSE [frames EXCEPT ![1].scopes = Tail(@)]
  /\ agenda' = Tail(agenda)
  /\ Idle /\ UNCHANGED <<leaving, read>>

(* A call that shared its caller's scopes hands them back.                 *)
LeaveLambda ==
  /\ Running /\ Next0.k = "leave"
  /\ LET scopes == Here.scopes
     IN  frames' = IF Len(scopes) > 1
                   THEN [Tail(frames) EXCEPT ![1].scopes = Tail(scopes)]
                   ELSE Tail(frames)
  /\ agenda' = Tail(agenda)
  /\ Idle /\ UNCHANGED <<leaving, read>>

(* `:!` takes an error, `:>` runs whatever happens and then lets it go on. *)
TakeClause ==
  /\ Running /\ leaving = "error" /\ Next0.k = "clause"
  /\ agenda' = Run(Next0.parts[1]) \o Tail(agenda)
  /\ leaving' = "no"
  /\ Idle /\ UNCHANGED <<frames, read>>

RunFinally ==
  /\ Running /\ Next0.k = "finally"
  /\ agenda' = Run(Next0.parts[1]) \o <<StoreMark("resume", leaving)>> \o Tail(agenda)
  /\ leaving' = "no"
  /\ Idle /\ UNCHANGED <<frames, read>>

Resume ==
  /\ Running /\ leaving = "no" /\ Next0.k = "resume"
  /\ leaving' = Next0.x
  /\ agenda' = Tail(agenda)
  /\ Idle /\ UNCHANGED <<frames, read>>

EndLoop ==
  /\ Running /\ Next0.k = "loopEnd" /\ leaving # "error"
  /\ leaving' = "no"
  /\ agenda' = Tail(agenda)
  /\ Idle /\ UNCHANGED <<frames, read>>

(* What an error or a jump passes over.                                    *)
Drop ==
  /\ Running
  /\ \/ leaving = "no" /\ Next0.k = "clause"
     \/ /\ leaving # "no"
        /\ Next0.k \notin {"open", "close", "leave", "finally"}
        /\ ~ (leaving = "error" /\ Next0.k = "clause")
        /\ ~ (leaving = "jump" /\ Next0.k = "loopEnd")
  /\ agenda' = Tail(agenda)
  /\ Idle /\ UNCHANGED <<frames, leaving, read>>

(* Any step may fail or jump: to where something waits for it, a call that *)
(* nothing waits in reads no more names.                                   *)
Fail ==
  /\ Running /\ leaving = "no"
  /\ \E j \in DOMAIN agenda : agenda[j].k \in {"clause", "finally"}
  /\ leaving' = "error"
  /\ Idle /\ UNCHANGED <<frames, agenda, read>>

Jump ==
  /\ Running /\ leaving = "no"
  /\ \E j \in DOMAIN agenda :
       /\ agenda[j].k = "loopEnd"
       /\ \A h \in 1..j - 1 : agenda[h].k # "leave"
  /\ leaving' = "jump"
  /\ Idle /\ UNCHANGED <<frames, agenda, read>>

End ==
  /\ phase = "running" /\ agenda = <<>>
  /\ phase' = "done"
  /\ UNCHANGED <<lambda, outer, made, frames, agenda, leaving, read>>

Next ==
  \/ FreeUnused \/ Make \/ GoOn \/ Call \/ ReadName \/ RunNode \/ StoreName \/ EnterLambda
  \/ OpenBlock \/ CloseBlock \/ LeaveLambda
  \/ TakeClause \/ RunFinally \/ Resume \/ EndLoop \/ Drop \/ Fail \/ Jump \/ End

Spec == Init /\ [][Next]_vars

-----------------------------------------------------------------------------
(* A name the body reads, and has not itself given a value, has the value  *)
(* it had when the lambda was made, whatever became of the outer name and  *)
(* whichever way the body went: copying what the walk finds is as good as  *)
(* copying everything in view.                                             *)
ReadsItsSnapshot == read # <<>> => read.got = read.due

=============================================================================
