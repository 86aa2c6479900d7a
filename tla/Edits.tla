------------------------------- MODULE Edits -------------------------------
(***************************************************************************)
(* A variable holding a collection, and the statements that read it with a *)
(* `$` operator or edit it with one, run by both engines side by side: the *)
(* tree-walker's assignment (variables.rs) and the register VM's code for  *)
(* the same statement (compile_assignment_inner).                          *)
(*                                                                         *)
(* A statement is [form, name, args, flag, at]: `x op` (bare), `x = x op`  *)
(* (self) or `y = x op` (other), on x or, when `at` is a path, on the      *)
(* place in x it leads to.  flag says `[a:n]` of a range, ascending of a   *)
(* sort, and `[i>j]` of an update, whose args are its steps and its value. *)
(***************************************************************************)
EXTENDS TreeCollections

LOCAL VM == INSTANCE MachineCollections

CONSTANTS Seeds,  \* the values x starts with
          Turns,  \* the statements each turn chooses from, a sequence of sets
          Apart   \* whether those the engines are known to answer apart are run

ASSUME ApartAssumption == Apart \in BOOLEAN

VARIABLES home,     \* x is a "local" of the running function, or module "state"
          tree,     \* x, y and the outcome of the last statement, tree-walker
          machine,  \* the same in the VM
          turn,     \* how many statements ran
          ran,      \* the last of them, in a sequence
          before    \* x when it began

vars == <<home, tree, machine, turn, ran, before>>

(***************************************************************************)
(* Operands.  A call may write x, through `f(x<~)` or as module state, and *)
(* then answers or fails.                                                  *)
(***************************************************************************)
Literal(v) == [value |-> v]
Call(written, answer) == [sets |-> written, says |-> answer]
IsCall(operand) == "says" \in DOMAIN operand
AfterCall(operand, x) == IF operand.sets = <<>> THEN x ELSE operand.sets[1]

RECURSIVE Evaluated(_, _, _)

(* The operands left to right: their values, and what x is then.           *)
Evaluated(args, x, got) ==
  LET arg == Head(args)
  IN  CASE args = <<>> -> [x |-> x, args |-> Ok(got)]
        [] ~IsCall(arg) -> Evaluated(Tail(args), x, Append(got, arg.value))
        [] Failed(arg.says) -> [x |-> AfterCall(arg, x), args |-> arg.says]
        [] OTHER -> Evaluated(Tail(args), AfterCall(arg, x), Append(got, arg.says.got))

MayWrite(st) == \E i \in DOMAIN st.args : IsCall(st.args[i])

ConcatBuild(base, items) ==
  CASE base.kind = "String" -> Ok(Holding(base, base.items \o Joined(items)))
    [] base.kind = "Array" -> Ok(Holding(base, base.items \o items))
    [] OTHER -> Fail("Type")

(***************************************************************************)
(* The operator of a statement on a receiver and the values of its args.   *)
(***************************************************************************)
TreeOperator(st, c, a) ==
  CASE st.name = "length" -> eval_collection_length(c)
    [] st.name = "append" -> append_in(c, a[1])
    [] st.name = "concatBuild" -> ConcatBuild(c, a)
    [] st.name = "contains" -> eval_collection_contains(c, a[1])
    [] st.name = "findAll" -> eval_collection_find_all(c, a[1])
    [] st.name = "removeAt" -> remove_at_in(c, a[1])
    [] st.name = "removeValue" -> eval_collection_remove_value(c, a[1])
    [] st.name = "removeAll" -> eval_collection_remove_all(c, a[1])
    [] st.name = "insert" -> eval_collection_insert(c, a[1], a[2])
    [] st.name = "removeRange" -> eval_collection_remove_range(c, a[1], a[2], st.flag)
    [] st.name = "slice" -> eval_collection_slice(c, a[1], a[2], st.flag)
    [] st.name = "index" -> index_into(c, a[1])
    [] st.name = "nav" -> eval_deep_index(c, a)
    [] st.name = "flat" -> eval_flat_extract(c, [i \in DOMAIN a |-> a[i].items])
    [] st.name = "structured" ->
         eval_structured_extract(c, [i \in DOMAIN a |->
           [j \in DOMAIN a[i].items |-> a[i].items[j].items]])
    [] st.name = "map" -> eval_collection_map(c, a[1])
    [] st.name = "filter" -> eval_collection_filter(c, a[1])
    [] st.name = "reduce" -> eval_collection_reduce(c, a[1], a[2])
    [] st.name = "sort" -> eval_collection_sort(c, a[1], st.flag)
    [] st.name = "update" ->
         IF st.flag THEN eval_deep_update(c, Front(a), Last(a)) ELSE update_in(c, a[1], a[2])

MachineOperator(st, c, a) ==
  CASE st.name = "length" -> VM!vm_len(c)
    [] st.name = "append" -> VM!ArrayPush(c, a[1])
    [] st.name = "concatBuild" -> VM!ConcatBuild(c, a)
    [] st.name = "contains" -> VM!ArrayContains(c, a[1])
    [] st.name = "findAll" -> VM!StrFindPos(c, a[1])
    [] st.name = "removeAt" -> VM!ArrayRemove(c, a[1])
    [] st.name = "removeValue" -> VM!ArrayRemoveValue(c, a[1])
    [] st.name = "removeAll" -> VM!ArrayRemoveAll(c, a[1])
    [] st.name = "insert" -> VM!ArrayInsert(c, a[1], a[2])
    [] st.name = "removeRange" -> VM!compile_collection_remove_range(c, a[1], a[2], st.flag)
    [] st.name = "slice" -> VM!compile_collection_slice(c, a[1], a[2], st.flag)
    [] st.name = "index" -> VM!vm_index_get(c, a[1])
    [] st.name = "nav" -> VM!compile_nav_path(c, a)
    [] st.name = "flat" -> VM!compile_flat_extract(c, [i \in DOMAIN a |-> a[i].items])
    [] st.name = "structured" ->
         VM!compile_structured_extract(c, [i \in DOMAIN a |->
           [j \in DOMAIN a[i].items |-> a[i].items[j].items]])
    [] st.name = "map" -> VM!compile_hof_loop(0, c, Absent, a[1])
    [] st.name = "filter" -> VM!compile_hof_loop(1, c, Absent, a[1])
    [] st.name = "reduce" -> VM!compile_hof_loop(2, c, a[1], a[2])
    [] st.name = "sort" -> VM!ArraySort(c, st.flag, a[1])
    [] st.name = "update" -> VM!vm_deep_set_in(c, Front(a), Last(a))

(***************************************************************************)
(* `d.k op` is rewritten by the parser to `d = d[k]$~ (d.k op)`: the value *)
(* is read at the path and written back there (rewrite_edit_at_path).      *)
(***************************************************************************)
TreeReadAt(c, path) == IF Len(path) = 1 THEN index_into(c, path[1]) ELSE eval_deep_index(c, path)
MachineReadAt(c, path) ==
  IF Len(path) = 1 THEN VM!vm_index_get(c, path[1]) ELSE VM!compile_nav_path(c, path)

TreeBase(st, x) == IF st.at = <<>> THEN Ok(x) ELSE TreeReadAt(x, st.at)

-----------------------------------------------------------------------------
(* The tree-walker.                                                        *)

(* The shapes assign_append, assign_remove_at, assign_update and           *)
(* assign_concat_build take; the others are evaluated whole and assigned.  *)
OnReceiver(st) ==
  /\ st.form # "other"
  /\ st.at # <<>> \/ st.name \in {"append", "removeAt", "update", "concatBuild"}

(* A mutant of edit_receiver: the receiver is what the operands left.      *)
edit_receiver_late(st, x, written) == written

(* The receiver is read ahead when an operand may write it; it is the one  *)
(* edited when an operand did.                                             *)
edit_receiver(st, x, written) ==
  IF MayWrite(st) /\ written # x THEN x ELSE written

(* `$++` looks at its base before it runs an operand.                      *)
BaseRefused(st, c) == st.name = "concatBuild" /\ c.kind \notin {"Array", "String"}

Receiver(st, x, ev, base) ==
  IF st.at = <<>> /\ OnReceiver(st) THEN edit_receiver(st, x, ev.x) ELSE base

TreeResult(st, receiver, args) ==
  IF OnReceiver(st) /\ st.name = "update" /\ st.flag
  THEN deep_update_in(receiver, Front(args), Last(args))
  ELSE TreeOperator(st, receiver, args)

(* ev is what its operands evaluate to, base what it is an edit of.        *)
TreeValue(st, x, ev, base) ==
  CASE Failed(base) -> [x |-> x, result |-> base]
    [] BaseRefused(st, base.got) -> [x |-> x, result |-> Fail("Type")]
    [] Failed(ev.args) -> [x |-> ev.x, result |-> ev.args]
    [] OTHER -> [x |-> ev.x,
                 result |-> TreeResult(st, Receiver(st, x, ev, base.got), ev.args.got)]

(* What the statement assigns.                                             *)
TreePlaced(st, x, value) ==
  IF st.at = <<>> \/ Failed(value.result) THEN value.result
  ELSE deep_update_in(edit_receiver(st, x, value.x), st.at, value.result.got)

Target(st) == IF st.form = "other" THEN "y" ELSE "x"

Settled(st, s, x, result) ==
  LET after == [s EXCEPT !.x = x, !.said = result]
  IN  IF Failed(result) THEN after ELSE [after EXCEPT ![Target(st)] = result.got]

tuple_refused(st, x) == st.form = "bare" /\ x.kind = "Tuple"

TreeAssigned(st, s, value) == Settled(st, s, value.x, TreePlaced(st, s.x, value))

execute_assignment(st, s) ==
  IF tuple_refused(st, s.x) THEN [s EXCEPT !.said = Fail("_")]
  ELSE TreeAssigned(st, s, TreeValue(st, s.x, Evaluated(st.args, s.x, <<>>), TreeBase(st, s.x)))

-----------------------------------------------------------------------------
(* The VM.                                                                 *)

(* A local an operand writes is copied where it is read, and the edit runs *)
(* on the copy.                                                            *)
Pinned(st, where) == where = "local" /\ MayWrite(st)

(* What the operator finds in its receiver's register: a local is in its   *)
(* own, read when the operator runs; the rest was copied to a temporary.   *)
ReceiverRegister(st, where, x, written) ==
  IF where = "local" /\ ~Pinned(st, where) THEN written ELSE x

MachineBase(st, where, x, ev) ==
  IF st.at = <<>> THEN Ok(ReceiverRegister(st, where, x, ev.x)) ELSE MachineReadAt(x, st.at)

MachineValue(st, x, ev, base) ==
  CASE Failed(base) -> [x |-> x, result |-> base]
    [] Failed(ev.args) -> [x |-> ev.x, result |-> ev.args]
    [] OTHER -> [x |-> ev.x, result |-> MachineOperator(st, base.got, ev.args.got)]

MachinePlaced(st, where, x, value) ==
  IF st.at = <<>> \/ Failed(value.result) THEN value.result
  ELSE VM!vm_deep_set_in(ReceiverRegister(st, where, x, value.x), st.at, value.result.got)

Unit == [kind |-> "Unit"]

(* The edit of module state is reached when its operands are there.        *)
Reached(st, ev, value) ==
  IF st.at = <<>> THEN ~Failed(ev.args) ELSE ~Failed(value.result)

(* The slot lets go of the receiver for the edit, unless an operand wrote  *)
(* it meanwhile.                                                           *)
DetachGlobal(st, where, x, ev, value) ==
  where = "state" /\ OnReceiver(st) /\ Reached(st, ev, value) /\ value.x = x

(* A mutant of Raised: nothing is put back.                                *)
RaisedBare(detached, slot, register) == slot

(* A refused edit puts back what its register holds.                       *)
Raised(detached, slot, register) == IF detached THEN register ELSE slot

(* The instruction before a statement that edits in place.                *)
AssertMutable(st, register) == st.form = "bare" => register.kind # "Tuple"

Stored(st, s, detached, slot, result) ==
  Settled(st, s, IF Failed(result) THEN Raised(detached, slot, s.x) ELSE slot, result)

MachineStored(st, where, s, value, detached) ==
  Stored(st, s, detached, IF detached THEN Unit ELSE value.x,
         MachinePlaced(st, where, s.x, value))

MachineAssigned(st, where, s, ev, value) ==
  MachineStored(st, where, s, value, DetachGlobal(st, where, s.x, ev, value))

MachineEdited(st, where, s, ev) ==
  MachineAssigned(st, where, s, ev, MachineValue(st, s.x, ev, MachineBase(st, where, s.x, ev)))

compile_assignment_inner(st, where, s) ==
  IF ~AssertMutable(st, s.x) THEN [s EXCEPT !.said = Fail("_")]
  ELSE MachineEdited(st, where, s, Evaluated(st.args, s.x, <<>>))

-----------------------------------------------------------------------------
(* Statements the engines are known to answer apart are left out: see the  *)
(* README.                                                                 *)

TextInside(v) ==
  \/ v.kind = "String"
  \/ Sized(v) /\ \E i \in DOMAIN v.items : v.items[i].kind = "String"

(* The values of the operands, when none fails.                            *)
Answered(st) == \A i \in DOMAIN st.args : IsCall(st.args[i]) => ~Failed(st.args[i].says)
Answers(st) ==
  [i \in DOMAIN st.args |-> IF IsCall(st.args[i]) THEN st.args[i].says.got ELSE st.args[i].value]

(* The tree-walker's refusal is outside every family.                      *)
TreeHasNoFamily(st, c, values) ==
  IF st.name = "slice"
  THEN eval_collection_slice(c, values[1], values[2], st.flag) = Fail("_")
  ELSE st.name = "update" /\ st.flag /\ eval_deep_update(c, Front(values), Last(values)) = Fail("_")

ComparableOn(st, c, values) ==
  CASE st.name = "removeValue" -> c.kind # "Tuple"
    [] st.name = "concatBuild" ->
         c.kind = "String" => \A i \in DOMAIN st.args : Piece(values[i])
    [] st.name = "contains" -> c.kind = "String" => Piece(values[1])
    [] st.name \in {"nav", "flat", "structured"} -> ~TextInside(c)
    [] st.name \in {"slice", "removeRange"} ->
         /\ c.kind # "Dict" /\ (st.name = "removeRange" => Sized(c))
         /\ Bound(values[1]) /\ ~Bound(values[2]) => values[1] = Absent \/ values[1].n > 0
         /\ (values[2] = Absent /\ Sized(c)) => Size(c) > 0
         /\ ~TreeHasNoFamily(st, c, values)
    [] st.name = "update" ->
         /\ TextInside(c) => Piece(Last(values))
         /\ ~TreeHasNoFamily(st, c, values)
    [] OTHER -> TRUE

ComparableAt(st, base) ==
  ~Failed(base) => /\ BaseRefused(st, base.got) => ~MayWrite(st)
                   /\ Answered(st) => ComparableOn(st, base.got, Answers(st))

Comparable(st, x) ==
  (Len(st.at) > 1 => ~TextInside(x)) /\ ComparableAt(st, TreeBase(st, x))

Run(st) ==
  /\ tree' = execute_assignment(st, tree)
  /\ machine' = compile_assignment_inner(st, home, machine)
  /\ ran' = <<st>>
  /\ turn' = turn + 1
  /\ before' = tree.x
  /\ UNCHANGED home

Init ==
  /\ home \in {"local", "state"}
  /\ before \in Seeds
  /\ tree = [x |-> before, y |-> Unit, said |-> Ok(Unit)]
  /\ machine = tree
  /\ turn = 0
  /\ ran = <<>>

Next ==
  /\ turn < Len(Turns)
  /\ \E st \in {s \in Turns[turn + 1] : Apart \/ Comparable(s, tree.x)} : Run(st)

Spec == Init /\ [][Next]_vars

-----------------------------------------------------------------------------

(* The two engines hold the same values and raise errors of the same       *)
(* family, whatever the operator, the receiver and the operands.           *)
EnginesAgree == tree = machine

(* What the functional form makes of the receiver as it was, the operands  *)
(* having been what they answered.                                         *)
Derived(st, x) ==
  IF st.at = <<>> THEN TreeOperator(st, x, Answers(st))
  ELSE eval_deep_update(x, st.at, TreeOperator(st, TreeReadAt(x, st.at).got, Answers(st)).got)

(* An assignment is left to right: an edit in place leaves what the        *)
(* functional form derives from the receiver as it was before the operands *)
(* ran, and what an operand wrote into the receiver is overwritten         *)
(* (GLB-115).                                                              *)
LeftToRight ==
  \A i \in DOMAIN ran : \A s \in {tree, machine} :
    ~Failed(s.said) => Ok(s[Target(ran[i])]) = Derived(ran[i], before)

(* A statement that fails leaves both variables as they were, or as one of *)
(* its operands wrote the receiver: never half an edit, never a slot an    *)
(* edit took the value out of.                                             *)
Written(st) ==
  {st.args[i].sets[1] : i \in {j \in DOMAIN st.args : IsCall(st.args[j]) /\ st.args[j].sets # <<>>}}

LeftAlone(old, new) ==
  Failed(new.said) => new.y = old.y /\ new.x \in {old.x} \union Written(ran'[1])

RefusedEditLeavesReceiver == [][LeftAlone(tree, tree') /\ LeftAlone(machine, machine')]_vars

(* A slice reads the positions from its first bound to its second, in that *)
(* direction; a count is of positions upwards.                             *)
ReadsPositions(items, got, from, to, counted) ==
  LET first == IF from \in {Absent, Num(0)} THEN 1 ELSE At(from.n, Len(items))
      last == IF to = Absent THEN Len(items)
              ELSE IF counted THEN first + to.n - 1 ELSE At(to.n, Len(items))
      up == counted \/ first <= last \/ last = 0 \/ first > Len(items)
  IN  /\ Len(got) = IF up THEN last - first + 1 ELSE first - last + 1
      /\ \A k \in DOMAIN got : got[k] = items[IF up THEN first + k - 1 ELSE first - k + 1]

SlicesReadPositions ==
  \A i \in DOMAIN ran :
    ran[i].name = "slice" /\ ~Failed(machine.said)
      => ReadsPositions(before.items, machine.said.got.items,
                        Answers(ran[i])[1], Answers(ran[i])[2], ran[i].flag)

(* A sort permutes, orders by its comparator, and keeps the order elements *)
(* had when the comparator does not put either before the other.           *)
Precedes(fn, a, b) ==
  IF fn = Absent THEN NaturallyLess(a, b)
  ELSE Apply(fn, <<a, b>>).got.b /\ ~Apply(fn, <<b, a>>).got.b
Tied(fn, a, b) == ~Precedes(fn, a, b) /\ ~Precedes(fn, b, a)

SortsStably ==
  \A i \in DOMAIN ran :
    (/\ ran[i].name = "sort" /\ ran[i].at = <<>> /\ ran[i].flag /\ ~Failed(machine.said)
     /\ \A n \in DOMAIN before.items : before.items[n].kind = "Int")
      => LET fn == Answers(ran[i])[1]
             got == machine.said.got.items
         IN  /\ \A v \in ToSet(before.items) :
                   SelectSeq(got, LAMBDA a : Tied(fn, a, v))
                     = SelectSeq(before.items, LAMBDA a : Tied(fn, a, v))
             /\ \A k, l \in DOMAIN got : k < l => ~Precedes(fn, got[l], got[k])

(* `x[path]$~ v` writes one place: reading the path afterwards gives v,    *)
(* and every other first step reads what it read.                          *)
WritesOnePlace ==
  \A i \in DOMAIN ran :
    ran[i].name = "update" /\ ran[i].at = <<>> /\ ~Failed(machine.said)
      => LET path == Front(Answers(ran[i]))
             after == machine.said.got
             steps == IF before.kind = "Dict" THEN ToSet(before.keys)
                      ELSE {Num(n) : n \in 1 .. Size(before)}
         IN  ~TextInside(before)
               => /\ eval_deep_index(after, path) = Ok(Last(Answers(ran[i])))
                  /\ \A step \in steps :
                       \/ step = path[1]
                       \/ path[1].kind = "Int" /\ At(path[1].n, Size(before)) = step.n
                       \/ index_into(after, step) = index_into(before, step)

(* What comes out of a slice, a sort and an update is what each of them is *)
(* for, whichever way it is written.                                       *)
EditsByDefinition == SlicesReadPositions /\ SortsStably /\ WritesOnePlace
=============================================================================
