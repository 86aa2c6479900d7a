-------------------------- MODULE TreeCollections --------------------------
(***************************************************************************)
(* The `$` operators of the tree-walker, each on values already read:      *)
(* collection_ops.rs, index_nav.rs and the reads of expr_eval.rs.          *)
(***************************************************************************)
EXTENDS CollectionValues

RECURSIVE values_equal(_, _)

(* Two dictionaries are equal whatever the order of their keys.            *)
values_equal(a, b) ==
  /\ a.kind = b.kind
  /\ CASE Listed(a) ->
            /\ Size(a) = Size(b)
            /\ \A i \in 1 .. Size(a) : values_equal(a.items[i], b.items[i])
       [] a.kind = "Dict" ->
            /\ Size(a) = Size(b)
            /\ \A i \in 1 .. Size(a) :
                 LET j == KeyAt(b, a.keys[i])
                 IN  j # 0 /\ values_equal(a.items[i], b.items[j])
       [] OTHER -> a = b

Matches(items, v) == {i \in DOMAIN items : values_equal(items[i], v)}

-----------------------------------------------------------------------------
(* One receiver, one or two operands.                                      *)

eval_collection_length(c) ==
  IF Sized(c) THEN Ok(Num(Size(c))) ELSE Fail("Type")

append_in(c, element) ==
  CASE Listed(c) -> Ok(Holding(c, Append(c.items, element)))
    [] c.kind = "String" /\ Piece(element) -> Ok(Holding(c, c.items \o CharsOf(element)))
    [] OTHER -> Fail("Type")

remove_at_in(c, index) ==
  CASE c.kind = "Dict" /\ index.kind = "String" ->
         LET i == KeyAt(c, index) IN IF i = 0 THEN Fail("Key") ELSE Ok(Without(c, i))
    [] c.kind = "Dict" \/ index.kind # "Int" \/ ~Sized(c) -> Fail("Type")
    [] OTHER -> IF Inside(index.n, Size(c)) THEN Ok(Without(c, At(index.n, Size(c))))
                ELSE Fail("Index")

eval_collection_contains(c, element) ==
  CASE Listed(c) -> Ok(Bool(Matches(c.items, element) # {}))
    [] c.kind = "Dict" /\ element.kind = "String" -> Ok(Bool(KeyAt(c, element) # 0))
    [] c.kind = "String" /\ Piece(element) ->
         Ok(Bool(FoundAt(c.items, CharsOf(element)) # {}))
    [] OTHER -> Fail("Type")

(* The text a character of which makes way for a piece.                    *)
Respelled(c, i, v) ==
  Holding(c, SubSeq(c.items, 1, i - 1) \o CharsOf(v) \o SubSeq(c.items, i + 1, Size(c)))

(* A dictionary's key gets the value, at the end when it is a new one.     *)
KeySet(d, key, v) ==
  LET i == KeyAt(d, key)
  IN  IF i # 0 THEN [d EXCEPT !.items[i] = v]
      ELSE Dict(Append(d.keys, key), Append(d.items, v))

update_in(c, index, v) ==
  CASE ~Sized(c) -> Fail("Type")
    [] c.kind = "Dict" -> IF index.kind = "String" THEN Ok(KeySet(c, index, v)) ELSE Fail("Type")
    [] index.kind # "Int" \/ (c.kind = "String" /\ ~Piece(v)) -> Fail("Type")
    [] ~Inside(index.n, Size(c)) -> Fail("Index")
    [] OTHER -> Ok(IF c.kind = "String" THEN Respelled(c, At(index.n, Size(c)), v)
                   ELSE [c EXCEPT !.items[At(index.n, Size(c))] = v])

eval_collection_insert(c, index, element) ==
  CASE index.kind # "Int" -> Fail("Type")
    [] index.n <= 0 -> Fail("Index")
    [] ~Sized(c) \/ c.kind = "Dict" -> Fail("Type")
    [] index.n - 1 > Size(c) -> Fail("Index")
    [] c.kind = "String" ->
         IF Piece(element)
         THEN Ok(Holding(c, SubSeq(c.items, 1, index.n - 1) \o CharsOf(element)
                              \o SubSeq(c.items, index.n, Size(c))))
         ELSE Fail("Type")
    [] OTHER -> Ok(Holding(c, InsertAt(c.items, index.n, element)))

eval_collection_remove_value(c, v) ==
  CASE ~Sized(c) -> Fail("Type")
    [] c.kind # "String" ->
         LET S == Matches(c.items, v) IN Ok(IF S = {} THEN c ELSE Without(c, Least(S)))
    [] ~Piece(v) -> Fail("Type")
    [] OTHER ->
         LET p == CharsOf(v)
             S == FoundAt(c.items, p)
         IN  Ok(IF p = <<>> \/ S = {} THEN c
                ELSE Holding(c, Cut(c.items, Least(S), Least(S) + Len(p) - 1)))

eval_collection_remove_all(c, v) ==
  CASE ~Sized(c) -> Fail("Type")
    [] c.kind # "String" ->
         LET kept == Ascending(DOMAIN c.items \ Matches(c.items, v))
             Kept(s) == [j \in DOMAIN kept |-> s[kept[j]]]
         IN  Ok(IF c.kind = "Dict" THEN Dict(Kept(c.keys), Kept(c.items))
                ELSE Holding(c, Kept(c.items)))
    [] ~Piece(v) -> Fail("Type")
    [] OTHER -> Ok(IF CharsOf(v) = <<>> THEN c ELSE Holding(c, Erased(c.items, CharsOf(v))))

eval_collection_find_all(c, v) ==
  CASE Listed(c) -> Ok(Array(Nums(Ascending(Matches(c.items, v)))))
    [] c.kind = "String" /\ Piece(v) ->
         IF CharsOf(v) = <<>> THEN Fail("Index")
         ELSE Ok(Array(Nums(Ascending(FoundAt(c.items, CharsOf(v))))))
    [] OTHER -> Fail("Type")

-----------------------------------------------------------------------------
(* Ranges: `$[a..b]`, `$[a:n]`, `$-[a..b]`, `$-[a:n]`.                     *)

Bound(v) == v.kind \in {"Absent", "Int"}

(* The positions a slice takes, when its bounds are Ints.  A range written *)
(* downwards is read backwards; a count never is.                          *)
SliceOf(c, from, to, counted) ==
  LET len == Size(c)
      start == IF from = 0 THEN 0 ELSE IF from < 0 THEN len + from ELSE from - 1
      end == IF counted THEN start + to ELSE IF to < 0 THEN len + to + 1 ELSE to
      low == IF from = 0 THEN 1 ELSE At(from, len)
      high == At(to, len)
  IN  CASE counted /\ to < 0 -> Fail("Index")
        [] start < 0 \/ end < 0 \/ start > len \/ end > len -> Fail("Index")
        [] ~counted /\ low > high /\ high >= 1 /\ low <= len ->
             IF c.kind = "Dict" THEN Fail("Type")
             ELSE Ok(Holding(c, Reverse(SubSeq(c.items, high, low))))
        [] start > end -> Fail("_")
        [] c.kind = "Dict" -> Fail("Type")
        [] OTHER -> Ok(Holding(c, SubSeq(c.items, start + 1, end)))

eval_collection_slice(c, from, to, counted) ==
  IF ~Sized(c) \/ ~Bound(from) \/ ~Bound(to) THEN Fail("Type")
  ELSE SliceOf(c, IF from = Absent THEN 0 ELSE from.n,
               IF to = Absent THEN Size(c) ELSE to.n, counted)

RemoveRangeOf(c, start, end) ==
  CASE start > end \/ end > Size(c) -> Fail("Index")
    [] start = end -> Ok(c)
    [] c.kind = "Dict" -> Fail("Type")
    [] OTHER -> Ok(Holding(c, Cut(c.items, start + 1, end)))

eval_collection_remove_range(c, from, to, counted) ==
  CASE ~Sized(c) \/ ~Bound(from) -> Fail("Type")
    [] from # Absent /\ from.n <= 0 -> Fail("Index")
    [] ~Bound(to) -> Fail("Type")
    [] to # Absent /\ (to.n < 0 \/ (to.n = 0 /\ ~counted)) -> Fail("Index")
    [] OTHER ->
         LET start == IF from = Absent THEN 0 ELSE from.n - 1
             end == IF to = Absent THEN Size(c) ELSE to.n
         IN  RemoveRangeOf(c, start, IF counted THEN start + end ELSE end)

-----------------------------------------------------------------------------
(* Reads: one step, then paths of steps, a step being a value or a range.  *)

index_into(c, index) ==
  CASE c.kind = "Dict" /\ index.kind = "String" ->
         IF KeyAt(c, index) = 0 THEN Fail("Key") ELSE Ok(c.items[KeyAt(c, index)])
    [] c.kind = "Dict" \/ index.kind # "Int" \/ ~Sized(c) -> Fail("Type")
    [] OTHER -> IF Inside(index.n, Size(c)) THEN Ok(c.items[At(index.n, Size(c))])
                ELSE Fail("Index")

(* A step into a text reads a text of one character.                       *)
descend(c, n) ==
  CASE n = 0 -> Fail("Index")
    [] c.kind = "Dict" \/ ~Sized(c) -> Fail("Type")
    [] ~Inside(n, Size(c)) -> Fail("Index")
    [] c.kind = "String" -> Ok(Text(<<c.items[At(n, Size(c))]>>))
    [] OTHER -> Ok(c.items[At(n, Size(c))])

descend_key(c, key) ==
  CASE c.kind # "Dict" -> Fail("Type")
    [] KeyAt(c, key) = 0 -> Fail("Key")
    [] OTHER -> Ok(c.items[KeyAt(c, key)])

StepInto(c, step) ==
  CASE step.kind = "String" -> descend_key(c, step)
    [] step.kind = "Int" -> descend(c, step.n)
    [] OTHER -> Fail("Type")

RECURSIVE eval_deep_index(_, _)

eval_deep_index(c, steps) ==
  IF steps = <<>> THEN Ok(c)
  ELSE LET next == StepInto(c, Head(steps))
       IN  IF Failed(next) THEN next ELSE eval_deep_index(next.got, Tail(steps))

(* The values of results in order, or the first failure among them.        *)
RECURSIVE Gathered(_)
Gathered(results) ==
  IF results = <<>> THEN Ok(<<>>)
  ELSE LET first == Head(results)
           rest == Gathered(Tail(results))
       IN  CASE Failed(first) -> first
             [] Failed(rest) -> rest
             [] OTHER -> Ok(first.got \o rest.got)

RangeRefused(step) ==
  CASE step.from.kind # "Int" \/ step.to.kind # "Int" -> Fail("Type")
    [] step.from.n < 1 \/ step.to.n < 1 -> Fail("Index")
    [] OTHER -> Ok(step)

Positions(a, b) ==
  IF a <= b THEN [i \in 1 .. b - a + 1 |-> a + i - 1] ELSE [i \in 1 .. a - b + 1 |-> a - i + 1]

RECURSIVE walk_steps(_, _)

(* A range fans out: the steps after it are walked in every element.       *)
walk_steps(c, steps) ==
  IF steps = <<>> THEN Ok(<<c>>)
  ELSE LET step == Head(steps)
           Onward(next) == IF Failed(next) THEN next ELSE walk_steps(next.got, Tail(steps))
       IN  IF step.kind # "Range" THEN Onward(StepInto(c, step))
           ELSE IF Failed(RangeRefused(step)) THEN RangeRefused(step)
           ELSE LET at == Positions(step.from.n, step.to.n)
                IN  Gathered([i \in DOMAIN at |-> Onward(descend(c, at[i]))])

Wrapped(r) == IF Failed(r) THEN r ELSE Ok(Array(r.got))

eval_flat_extract(c, paths) ==
  Wrapped(Gathered([i \in DOMAIN paths |-> walk_steps(c, paths[i])]))

eval_structured_extract(c, groups) ==
  Wrapped(Gathered([i \in DOMAIN groups |->
    LET group == eval_flat_extract(c, groups[i])
    IN  IF Failed(group) THEN group ELSE Ok(<<group.got>>)]))

-----------------------------------------------------------------------------
(* `m[i>j]$~ v`: in place when every step is there, else on a copy.        *)

StepOk(step) == step.kind \in {"Int", "String"}

RECURSIVE deep_path_in_place(_, _)

deep_path_in_place(c, path) ==
  LET step == Head(path)
      there == \/ Listed(c) /\ step.kind = "Int" /\ Inside(step.n, Size(c))
               \/ c.kind = "Dict" /\ step.kind = "String" /\ KeyAt(c, step) # 0
  IN  IF Len(path) = 1 THEN there \/ (c.kind = "Dict" /\ step.kind = "String")
      ELSE there /\ deep_path_in_place(
                      c.items[IF c.kind = "Dict" THEN KeyAt(c, step) ELSE At(step.n, Size(c))],
                      Tail(path))

RECURSIVE InPlace(_, _, _)

InPlace(c, path, v) ==
  LET step == Head(path)
      i == IF c.kind = "Dict" THEN KeyAt(c, step) ELSE At(step.n, Size(c))
  IN  IF Len(path) > 1 THEN [c EXCEPT !.items[i] = InPlace(@, Tail(path), v)]
      ELSE IF c.kind = "Dict" THEN KeySet(c, step, v)
      ELSE [c EXCEPT !.items[i] = v]

get_at_step(c, step) ==
  CASE c.kind = "Dict" /\ step.kind = "String" -> descend_key(c, step)
    [] c.kind = "Dict" -> Fail("Type")
    [] step.kind = "String" -> Fail("_")
    [] OTHER -> index_into(c, step)

set_at_step(c, step, v) ==
  CASE c.kind = "Dict" /\ step.kind = "String" -> Ok(KeySet(c, step, v))
    [] c.kind # "Dict" /\ step.kind = "String" -> Fail("_")
    [] OTHER -> update_in(c, step, v)

RECURSIVE deep_update_value(_, _, _)

deep_update_value(c, path, v) ==
  LET step == Head(path)
      sub == get_at_step(c, step)
      inner == IF Len(path) = 1 THEN Ok(v) ELSE deep_update_value(sub.got, Tail(path), v)
  IN  CASE c.kind = "Dict" /\ step.kind = "Int" -> Fail("Type")
        [] c.kind = "Dict" /\ Len(path) = 1 -> set_at_step(c, step, v)
        [] Failed(sub) -> sub
        [] Failed(inner) -> inner
        [] OTHER -> set_at_step(c, step, inner.got)

(* The functional form never writes in place; the assignment to its own    *)
(* receiver does when it can.                                              *)
eval_deep_update(c, path, v) ==
  IF \A i \in DOMAIN path : StepOk(path[i]) THEN deep_update_value(c, path, v)
  ELSE Fail("Type")

deep_update_in(c, path, v) ==
  CASE \E i \in DOMAIN path : ~StepOk(path[i]) -> Fail("Type")
    [] deep_path_in_place(c, path) -> Ok(InPlace(c, path, v))
    [] OTHER -> deep_update_value(c, path, v)

-----------------------------------------------------------------------------
(* `$>`, `$|`, `$<` and `$^`.                                              *)

hof_items(c) == IF c.kind = "Dict" THEN c.keys ELSE c.items

RECURSIVE Joined(_)
Joined(pieces) == IF pieces = <<>> THEN <<>> ELSE CharsOf(Head(pieces)) \o Joined(Tail(pieces))

hof_rebuild(c, items) ==
  CASE c.kind = "Tuple" -> Tuple(items)
    [] c.kind = "String" /\ (\A i \in DOMAIN items : Piece(items[i])) -> Text(Joined(items))
    [] OTHER -> Array(items)

Rebuilt(c, r) == IF Failed(r) THEN r ELSE Ok(hof_rebuild(c, r.got))

eval_collection_map(c, fn) ==
  IF fn.kind # "Function" \/ ~Sized(c) THEN Fail("Type")
  ELSE Rebuilt(c, Gathered([i \in DOMAIN hof_items(c) |->
         LET said == Apply(fn, <<hof_items(c)[i]>>)
         IN  IF Failed(said) THEN said ELSE Ok(<<said.got>>)]))

eval_collection_filter(c, fn) ==
  IF fn.kind # "Function" \/ ~Sized(c) THEN Fail("Type")
  ELSE Rebuilt(c, Gathered([i \in DOMAIN hof_items(c) |->
         LET said == Apply(fn, <<hof_items(c)[i]>>)
         IN  CASE Failed(said) -> said
               [] said.got = Bool(TRUE) -> Ok(<<hof_items(c)[i]>>)
               [] said.got = Bool(FALSE) -> Ok(<<>>)
               [] OTHER -> Fail("Type")]))

RECURSIVE Accumulated(_, _, _)
Accumulated(acc, items, fn) ==
  IF items = <<>> THEN Ok(acc)
  ELSE LET said == Apply(fn, <<acc, Head(items)>>)
       IN  IF Failed(said) THEN said ELSE Accumulated(said.got, Tail(items), fn)

eval_collection_reduce(c, initial, fn) ==
  CASE fn.kind # "Function" -> Fail("Type")
    [] Params(fn) # 2 -> Fail("_")
    [] ~Sized(c) -> Fail("Type")
    [] OTHER -> Accumulated(initial, hof_items(c), fn)

sort_comparator_says(fn, a, b) == AsBool(Apply(fn, <<a, b>>))

(* Left unless only the right one has to come before.                      *)
EitherWay(first, second) ==
  CASE Failed(first) \/ first.got.b -> first
    [] Failed(second) -> second
    [] OTHER -> Ok(Bool(~second.got.b))

sort_takes_left(fn, left, right) ==
  EitherWay(sort_comparator_says(fn, left, right), sort_comparator_says(fn, right, left))

Onto(front, r) == IF Failed(r) THEN r ELSE Ok(front \o r.got)

RECURSIVE Merged(_, _, _, _)
(* takes is what sort_takes_left says of the two heads.                    *)
Merged(fn, left, right, takes) ==
  CASE left = <<>> \/ right = <<>> -> Ok(left \o right)
    [] Failed(takes) -> takes
    [] takes.got.b ->
         Onto(<<Head(left)>>, Merged(fn, Tail(left), right, sort_takes_left(fn, left[2], right[1])))
    [] OTHER ->
         Onto(<<Head(right)>>, Merged(fn, left, Tail(right), sort_takes_left(fn, left[1], right[2])))

Merge(fn, left, right) == Merged(fn, left, right, sort_takes_left(fn, left[1], right[1]))

Stretch(items, lo, hi) == SubSeq(items, lo + 1, IF hi > Len(items) THEN Len(items) ELSE hi)

RECURSIVE SortedRuns(_, _, _)
(* Runs of width 1, 2, 4, ... merged left to right.                        *)
SortedRuns(fn, r, width) ==
  IF Failed(r) \/ width >= Len(r.got) THEN r
  ELSE SortedRuns(fn, Gathered([k \in 1 .. (Len(r.got) - 1) \div (2 * width) + 1 |->
         LET lo == 2 * width * (k - 1)
         IN  Merge(fn, Stretch(r.got, lo, lo + width), Stretch(r.got, lo + width, lo + 2 * width))]),
                  2 * width)

eval_collection_sort(c, fn, ascending) ==
  CASE c.kind # "Array" -> Fail("Type")
    [] fn = Absent -> LET up == SortSeq(c.items, NaturallyLess)
                      IN  Ok(Array(IF ascending THEN up ELSE Reverse(up)))
    [] fn.kind # "Function" -> Fail("_")
    [] OTHER -> Wrapped(SortedRuns(fn, Ok(c.items), 1))
=============================================================================
