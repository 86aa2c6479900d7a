------------------------- MODULE MachineCollections -------------------------
(***************************************************************************)
(* The collection instructions of the register VM, each on the contents of *)
(* its registers: zymbol-vm/src/lib.rs, with the sequences of them the     *)
(* compiler emits where one operator takes several.                        *)
(***************************************************************************)
EXTENDS CollectionValues

RECURSIVE Equals(_, _)

Equals(a, b) ==
  CASE Listed(a) /\ a.kind = b.kind ->
         Size(a) = Size(b) /\ \A i \in 1 .. Size(a) : Equals(a.items[i], b.items[i])
    [] a.kind = "Dict" /\ b.kind = "Dict" ->
         /\ Size(a) = Size(b)
         /\ \A i \in 1 .. Size(a) : \E j \in 1 .. Size(b) :
              a.keys[i] = b.keys[j] /\ Equals(a.items[i], b.items[j])
    [] OTHER -> a = b

EqualTo(items, v) == {i \in DOMAIN items : Equals(v, items[i])}

(* Mutants of Resolved.                                                    *)
ResolvedZeroFirst(n, len) ==
  LET i == IF n < 0 THEN len + n ELSE IF n = 0 THEN 0 ELSE n - 1
  IN  IF i < 0 \/ i >= len THEN Fail("Index") ELSE Ok(i + 1)

ResolvedOneOff(n, len) ==
  LET i == IF n < 0 THEN len + n - 1 ELSE n - 1
  IN  IF n = 0 \/ i < 0 \/ i >= len THEN Fail("Index") ELSE Ok(i + 1)

(* `resolve`: an index of an instruction, or the refusal of one.           *)
Resolved(n, len) ==
  LET i == IF n < 0 THEN len + n ELSE n - 1
  IN  IF n = 0 \/ i < 0 \/ i >= len THEN Fail("Index") ELSE Ok(i + 1)

-----------------------------------------------------------------------------
vm_len(v) == IF Sized(v) THEN Ok(Num(Size(v))) ELSE Fail("Type")

vm_index_get(coll, index) ==
  CASE coll.kind = "Dict" /\ index.kind = "String" ->
         IF KeyAt(coll, index) = 0 THEN Fail("Key") ELSE Ok(coll.items[KeyAt(coll, index)])
    [] coll.kind = "Dict" \/ index.kind # "Int" \/ ~Sized(coll) -> Fail("Type")
    [] OTHER -> LET i == Resolved(index.n, Size(coll))
                IN  IF Failed(i) THEN i ELSE Ok(coll.items[i.got])

ArrayPush(arr, val) ==
  CASE Listed(arr) -> Ok(Holding(arr, arr.items \o <<val>>))
    [] arr.kind = "String" ->
         IF Piece(val) THEN Ok(Holding(arr, arr.items \o CharsOf(val))) ELSE Fail("Type")
    [] OTHER -> Fail("Type")

ConcatBuild(base, items) ==
  CASE base.kind = "Array" -> Ok(Array(base.items \o items))
    [] base.kind = "String" -> Ok(Text(base.items \o FlattenSeq([i \in DOMAIN items |-> CharsOf(items[i])])))
    [] OTHER -> Fail("Type")

ArrayRemove(arr, idx) ==
  CASE arr.kind = "Dict" /\ idx.kind = "String" ->
         IF KeyAt(arr, idx) = 0 THEN Fail("Key") ELSE Ok(Without(arr, KeyAt(arr, idx)))
    [] idx.kind # "Int" -> Fail("Type")
    [] ~(Listed(arr) \/ arr.kind = "String") -> Fail("Type")
    [] OTHER -> LET i == Resolved(idx.n, Size(arr))
                IN  IF Failed(i) THEN i ELSE Ok(Holding(arr, RemoveAt(arr.items, i.got)))

(* A positional tuple has no arm here.                                     *)
ArrayRemoveValue(arr, val) ==
  CASE arr.kind \in {"Array", "Dict"} ->
         LET S == EqualTo(arr.items, val) IN Ok(IF S = {} THEN arr ELSE Without(arr, Least(S)))
    [] arr.kind = "String" /\ Piece(val) ->
         LET p == CharsOf(val)
             S == {i \in 1 .. Size(arr) - Len(p) + 1 : SubSeq(arr.items, i, i + Len(p) - 1) = p}
         IN  Ok(IF p = <<>> \/ Len(p) > Size(arr) \/ S = {} THEN arr
                ELSE Holding(arr, SubSeq(arr.items, 1, Least(S) - 1)
                                    \o SubSeq(arr.items, Least(S) + Len(p), Size(arr))))
    [] OTHER -> Fail("Type")

ArrayRemoveAll(arr, val) ==
  LET Left(s) == [j \in 1 .. Cardinality(DOMAIN s \ EqualTo(arr.items, val)) |->
                    s[Ascending(DOMAIN s \ EqualTo(arr.items, val))[j]]]
  IN  CASE Listed(arr) -> Ok(Holding(arr, Left(arr.items)))
        [] arr.kind = "Dict" -> Ok(Dict(Left(arr.keys), Left(arr.items)))
        [] arr.kind = "String" /\ Piece(val) ->
             Ok(IF CharsOf(val) = <<>> THEN arr ELSE Holding(arr, Erased(arr.items, CharsOf(val))))
        [] OTHER -> Fail("Type")

ArrayInsert(arr, idx, val) ==
  CASE idx.kind # "Int" -> Fail("Type")
    [] idx.n <= 0 -> Fail("Index")
    [] ~(Listed(arr) \/ arr.kind = "String") -> Fail("Type")
    [] idx.n > Size(arr) + 1 -> Fail("Index")
    [] arr.kind = "String" /\ ~Piece(val) -> Fail("Type")
    [] OTHER -> Ok(Holding(arr, SubSeq(arr.items, 1, idx.n - 1)
                                  \o (IF Listed(arr) THEN <<val>> ELSE CharsOf(val))
                                  \o SubSeq(arr.items, idx.n, Size(arr))))

-----------------------------------------------------------------------------
(* Spans: what a slice or a removal covers, lo exclusive and hi inclusive. *)

(* A mutant of range_bounds: a bound from the end stops one short.         *)
range_bounds_short(lo, hi, len) ==
  LET a == IF lo = 0 THEN 0 ELSE IF lo < 0 THEN len + lo ELSE lo - 1
      b == IF hi < 0 THEN len + hi ELSE hi
  IN  IF a < 0 \/ b < 0 \/ a > len \/ b > len \/ a > b THEN Fail("Index") ELSE Ok(<<a, b>>)

range_bounds(lo, hi, len) ==
  LET a == IF lo = 0 THEN 0 ELSE IF lo < 0 THEN len + lo ELSE lo - 1
      b == IF hi < 0 THEN len + hi + 1 ELSE hi
  IN  IF a < 0 \/ b < 0 \/ a > len \/ b > len \/ a > b THEN Fail("Index") ELSE Ok(<<a, b>>)

count_span(lo, n, len) ==
  LET start == IF lo = 0 THEN 0 ELSE IF lo < 0 THEN len + lo ELSE lo - 1
  IN  IF n < 0 \/ start < 0 \/ start > len \/ start + n > len THEN Fail("Index")
      ELSE Ok(<<start, start + n>>)

(* The items a range of positions reads, downwards when it is written so.  *)
slice_span(lo, hi, items) ==
  LET len == Len(items)
      from == IF lo = 0 THEN 1 ELSE IF lo < 0 THEN len + lo + 1 ELSE lo
      to == IF hi < 0 THEN len + hi + 1 ELSE hi
      up == range_bounds(lo, hi, len)
  IN  CASE from > to /\ to >= 1 /\ from <= len ->
             Ok([k \in 1 .. from - to + 1 |-> items[from - k + 1]])
        [] Failed(up) -> up
        [] OTHER -> Ok(SubSeq(items, up.got[1] + 1, up.got[2]))

(* The bounds the compiler loads when they are not written.                *)
LowRegister(from) == IF from = Absent THEN Num(1) ELSE from
HighRegister(coll, to) == IF to = Absent THEN vm_len(coll) ELSE Ok(to)

ArraySlice(arr, lo, hi) ==
  CASE lo.kind # "Int" \/ hi.kind # "Int" -> Fail("Type")
    [] arr.kind = "Dict" \/ ~Sized(arr) -> Fail("Type")
    [] OTHER -> LET r == slice_span(lo.n, hi.n, arr.items)
                IN  IF Failed(r) THEN r ELSE Ok(Holding(arr, r.got))

ArraySliceCount(arr, lo, n) ==
  CASE lo.kind # "Int" \/ n.kind # "Int" -> Fail("Type")
    [] arr.kind = "Dict" \/ ~Sized(arr) -> Fail("Type")
    [] OTHER -> LET span == count_span(lo.n, n.n, Size(arr))
                IN  IF Failed(span) THEN span
                    ELSE Ok(Holding(arr, SubSeq(arr.items, span.got[1] + 1, span.got[2])))

compile_collection_slice(coll, from, to, counted) ==
  LET hi == HighRegister(coll, to)
  IN  CASE Failed(hi) -> hi
        [] counted -> ArraySliceCount(coll, LowRegister(from), hi.got)
        [] OTHER -> ArraySlice(coll, LowRegister(from), hi.got)

Drained(arr, span) ==
  CASE arr.kind = "Dict" \/ ~Sized(arr) -> Fail("Type")
    [] Failed(span) -> span
    [] OTHER -> Ok(Holding(arr, SubSeq(arr.items, 1, span.got[1])
                                  \o SubSeq(arr.items, span.got[2] + 1, Size(arr))))

ArrayRemoveRange(arr, lo, hi) ==
  CASE lo.kind # "Int" \/ hi.kind # "Int" -> Fail("Type")
    [] lo.n <= 0 \/ hi.n <= 0 -> Fail("Index")
    [] OTHER -> Drained(arr, IF Sized(arr) THEN range_bounds(lo.n, hi.n, Size(arr)) ELSE Ok(<<0, 0>>))

ArrayRemoveCount(arr, lo, n) ==
  CASE lo.kind # "Int" \/ n.kind # "Int" -> Fail("Type")
    [] lo.n <= 0 \/ n.n < 0 -> Fail("Index")
    [] OTHER -> Drained(arr, IF Sized(arr) /\ lo.n - 1 + n.n > Size(arr) THEN Fail("Index")
                             ELSE Ok(<<lo.n - 1, lo.n - 1 + n.n>>))

compile_collection_remove_range(coll, from, to, counted) ==
  LET hi == HighRegister(coll, to)
  IN  CASE Failed(hi) -> hi
        [] counted /\ to # Absent -> ArrayRemoveCount(coll, LowRegister(from), hi.got)
        [] OTHER -> ArrayRemoveRange(coll, LowRegister(from), hi.got)

-----------------------------------------------------------------------------
(* A text known when the program is compiled has an instruction of its own *)
(* to be searched with.                                                    *)

StrContains(s, elem) ==
  IF s.kind = "String" /\ Piece(elem)
  THEN Ok(Bool(\E i \in 0 .. Size(s) : \E j \in i .. Size(s) :
                 SubSeq(s.items, i + 1, j) = CharsOf(elem)))
  ELSE Fail("Type")

ArrayContains(arr, elem) ==
  CASE Listed(arr) -> Ok(Bool(\E i \in 1 .. Size(arr) : Equals(arr.items[i], elem)))
    [] arr.kind = "Dict" /\ elem.kind = "String" -> Ok(Bool(elem \in ToSet(arr.keys)))
    [] arr.kind = "String" ->
         IF Piece(elem) THEN StrContains(arr, elem) ELSE Ok(Bool(FALSE))
    [] OTHER -> Fail("Type")

StrFindPos(s, needle) ==
  CASE Listed(s) -> Ok(Array(Nums(Ascending(EqualTo(s.items, needle)))))
    [] s.kind = "String" /\ Piece(needle) ->
         LET p == CharsOf(needle)
         IN  IF p = <<>> THEN Fail("Index")
             ELSE Ok(Array(Nums(Ascending(
                    {i \in 1 .. Size(s) - Len(p) + 1 : SubSeq(s.items, i, i + Len(p) - 1) = p}))))
    [] OTHER -> Fail("Type")

-----------------------------------------------------------------------------
(* `DeepSet` and `SetOne`: the check of every step on the way down, and    *)
(* one write at the end of the path.                                       *)
RECURSIVE vm_deep_set_in(_, _, _)

vm_deep_set_in(col, path, v) ==
  LET step == Head(path)
      rest == Tail(path)
      i == IF step.kind = "Int" THEN Resolved(step.n, Size(col)) ELSE Fail("Type")
      Put(r, at) == IF Failed(r) THEN r ELSE Ok([col EXCEPT !.items[at] = r.got])
      Below(at) == vm_deep_set_in(col.items[at], rest, v)
  IN  CASE path = <<>> -> Ok(v)
        [] ~Sized(col) -> Fail("Type")
        [] col.kind = "Dict" ->
             (CASE step.kind # "String" -> Fail("Type")
                [] KeyAt(col, step) # 0 -> Put(Below(KeyAt(col, step)), KeyAt(col, step))
                [] rest # <<>> -> Fail("Key")
                [] OTHER -> Ok(Dict(Append(col.keys, step), Append(col.items, v))))
        [] Failed(i) -> i
        [] Listed(col) -> Put(Below(i.got), i.got)
        [] rest # <<>> \/ ~Piece(v) -> Fail("Type")
        [] OTHER -> Ok(Holding(col, SubSeq(col.items, 1, i.got - 1) \o CharsOf(v)
                                      \o SubSeq(col.items, i.got + 1, Size(col))))

-----------------------------------------------------------------------------
(* Navigation: `ArrayGet` per step, with the check a plain step owes.      *)

NavStepCheck(coll, idx) ==
  CASE coll.kind = "Dict" /\ idx.kind = "Int" -> Fail("Type")
    [] idx.kind \in {"Int", "String"} -> Ok(coll)
    [] OTHER -> Fail("Type")

RECURSIVE compile_nav_path(_, _)

compile_nav_path(base, steps) ==
  IF steps = <<>> THEN Ok(base)
  ELSE LET checked == NavStepCheck(base, Head(steps))
           next == vm_index_get(base, Head(steps))
       IN  CASE Failed(checked) -> checked
             [] Failed(next) -> next
             [] OTHER -> compile_nav_path(next.got, Tail(steps))

NavRangeCheck(a, b) ==
  CASE a.kind # "Int" \/ b.kind # "Int" -> Fail("Type")
    [] a.n < 1 \/ b.n < 1 -> Fail("Index")
    [] OTHER -> Ok(<<a.n, b.n>>)

RECURSIVE compile_nav_path_collect(_, _, _)

(* Pushes what the steps reach onto a register; a range is a counted loop, *)
(* here by its last position first: the loop up to there, then that one.   *)
compile_nav_path_collect(base, steps, collected) ==
  IF steps = <<>> THEN Ok(collected \o <<base>>)
  ELSE LET step == Head(steps)
           next == vm_index_get(base, step)
           bounds == NavRangeCheck(step.from, step.to)
           a == bounds.got[1]
           b == bounds.got[2]
           shorter == Span(step.from, Num(IF b > a THEN b - 1 ELSE b + 1))
           sofar == IF a = b THEN Ok(collected)
                    ELSE compile_nav_path_collect(base, <<shorter>> \o Tail(steps), collected)
           last == vm_index_get(base, Num(b))
       IN  IF step.kind # "Range"
           THEN IF Failed(next) THEN next
                ELSE compile_nav_path_collect(next.got, Tail(steps), collected)
           ELSE CASE Failed(bounds) -> bounds
                  [] Failed(sofar) -> sofar
                  [] Failed(last) -> last
                  [] OTHER -> compile_nav_path_collect(last.got, Tail(steps), sofar.got)

RECURSIVE Pushed(_, _, _)

Pushed(coll, paths, collected) ==
  IF paths = <<>> THEN Ok(collected)
  ELSE LET r == compile_nav_path_collect(coll, Head(paths), collected)
       IN  IF Failed(r) THEN r ELSE Pushed(coll, Tail(paths), r.got)

Collected(r) == IF Failed(r) THEN r ELSE Ok(Array(r.got))

compile_flat_extract(coll, paths) == Collected(Pushed(coll, paths, <<>>))

RECURSIVE Grouped(_, _, _)

Grouped(coll, groups, outer) ==
  IF groups = <<>> THEN Ok(outer)
  ELSE LET inner == Pushed(coll, Head(groups), <<>>)
       IN  IF Failed(inner) THEN inner
           ELSE Grouped(coll, Tail(groups), Append(outer, Array(inner.got)))

compile_structured_extract(coll, groups) == Collected(Grouped(coll, groups, <<>>))

-----------------------------------------------------------------------------
(* `$>` (0), `$|` (1) and `$<` (2): one HofNext per element.               *)

HofItems(coll, func, loop) ==
  CASE func.kind # "Function" -> Fail("Type")
    [] loop = 2 /\ Params(func) # 2 -> Fail("_")
    [] ~Sized(coll) -> Fail("Type")
    [] OTHER -> Ok(IF coll.kind = "Dict" THEN coll.keys ELSE coll.items)

RECURSIVE HofNext(_, _, _, _)

HofNext(loop, items, acc, func) ==
  IF items = <<>> THEN Ok(acc)
  ELSE LET elem == Head(items)
           Gather(v) == CASE loop = 0 -> Append(acc, v)
                          [] loop = 1 -> IF v.b THEN Append(acc, elem) ELSE acc
                          [] OTHER -> v
           After(out) == CASE Failed(out) -> out
                           [] loop = 1 /\ out.got.kind # "Bool" -> Fail("Type")
                           [] OTHER -> HofNext(loop, Tail(items), Gather(out.got), func)
       IN  After(Apply(func, IF loop = 2 THEN <<acc, elem>> ELSE <<elem>>))

HofRebuild(coll, results) ==
  LET texts == \A i \in DOMAIN results : Piece(results[i])
  IN  CASE coll.kind = "String" /\ texts ->
             Text(FlattenSeq([i \in DOMAIN results |-> CharsOf(results[i])]))
        [] coll.kind = "Tuple" -> Tuple(results)
        [] OTHER -> Array(results)

compile_hof_loop(loop, coll, initial, func) ==
  LET Done(items) == IF Failed(items) THEN items
                     ELSE HofNext(loop, items.got, IF loop = 2 THEN initial ELSE <<>>, func)
      Result(r) == IF Failed(r) \/ loop = 2 THEN r ELSE Ok(HofRebuild(coll, r.got))
  IN  Result(Done(HofItems(coll, func, loop)))

-----------------------------------------------------------------------------
(* `$^`: a merge of the items from lo on, by two cursors.                  *)

Compare(func, a, b) ==
  IF func.kind # "Function" THEN Fail("Type") ELSE AsBool(Apply(func, <<a, b>>))

(* A mutant of TakesLeft: the comparator is asked once.                    *)
TakesLeftAskingOnce(func, a, b) == Compare(func, a, b)

(* The second comparison is made when the first said no.                   *)
TakesLeft(func, a, b) ==
  LET asked(first, second) ==
        CASE Failed(first) \/ first.got.b -> first
          [] Failed(second) -> second
          [] OTHER -> Ok(Bool(~second.got.b))
  IN  asked(Compare(func, a, b), Compare(func, b, a))

Cursors(lo, width, n) ==
  LET Bounded(k) == IF k > n THEN n ELSE k
  IN  [i |-> lo + 1, mid |-> Bounded(lo + width),
       j |-> Bounded(lo + width) + 1, hi |-> Bounded(lo + 2 * width)]
LeftOn(at) == [at EXCEPT !.i = @ + 1]
RightOn(at) == [at EXCEPT !.j = @ + 1]

RECURSIVE MergeFrom(_, _, _, _, _)
(* takes is what the comparator says where the cursors are.                *)
MergeFrom(func, src, at, merged, takes) ==
  CASE at.i > at.mid \/ at.j > at.hi ->
         Ok(merged \o SubSeq(src, at.i, at.mid) \o SubSeq(src, at.j, at.hi))
    [] Failed(takes) -> takes
    [] takes.got.b -> MergeFrom(func, src, LeftOn(at), Append(merged, src[at.i]),
                                TakesLeft(func, src[at.i + 1], src[at.j]))
    [] OTHER -> MergeFrom(func, src, RightOn(at), Append(merged, src[at.j]),
                          TakesLeft(func, src[at.i], src[at.j + 1]))

MergeAt(func, src, at, merged) ==
  MergeFrom(func, src, at, merged, TakesLeft(func, src[at.i], src[at.j]))

RECURSIVE Passes(_, _, _, _, _)
Passes(func, src, width, lo, merged) ==
  CASE Failed(merged) -> merged
    [] width >= Len(src) -> Ok(src)
    [] lo >= Len(src) -> Passes(func, merged.got, 2 * width, 0, Ok(<<>>))
    [] OTHER -> Passes(func, src, width, lo + 2 * width,
                       MergeAt(func, src, Cursors(lo, width, Len(src)), merged.got))

ArraySort(arr, ascending, func) ==
  CASE arr.kind # "Array" -> Fail("Type")
    [] func = Absent ->
         LET up == SortSeq(arr.items, NaturallyLess)
         IN  Ok(Array(IF ascending THEN up ELSE Reverse(up)))
    [] OTHER -> Collected(Passes(func, arr.items, 1, 0, Ok(<<>>)))

=============================================================================
