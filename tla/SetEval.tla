------------------------------ MODULE SetEval ------------------------------
(***************************************************************************)
(* Sets of objects in a probe: probe_set_eval, probe_set_apply_filters and *)
(* probe_set_combine of worker.c, probe_cobj_combine_flags of probe-api.c. *)
(* A collected object is a flag and a list of items; an item stands for    *)
(* the address of its value, as SEXP_refcmp compares addresses and the     *)
(* item cache gives equal items one address.  The operations merge two     *)
(* lists in one pass and rely on their order.                              *)
(*                                                                         *)
(* cobjs are the objects whose set operation is still to come, in document *)
(* order; evaluated depth first, the last two are the operands of the next *)
(* operation.  extent is not in the code: what an unlimited collection     *)
(* would have found, to say what a flag promises.                          *)
(***************************************************************************)
EXTENDS Integers, Sequences, FiniteSets

CONSTANTS
  Items,              \* addresses of items
  Sort(_),            \* SEXP_list_sort
  MaxCobjs,           \* bound: nesting of sets
  Overlap             \* two values of a variable may select the same item

ItemsOf(l) == {l[k] : k \in DOMAIN l}
Ascending(l) == \A j, k \in DOMAIN l : j < k => l[j] < l[k]
Distinct(l) == \A j, k \in DOMAIN l : j # k => l[j] # l[k]

\* Lists without a repeated item.
Lists == {l \in UNION {[1 .. n -> Items] : n \in 0 .. Cardinality(Items)} : Distinct(l)}

ASSUME ItemsAssumption == Items \subseteq Nat /\ IsFiniteSet(Items)

ASSUME BoundAssumption == MaxCobjs \in Nat /\ Overlap \in BOOLEAN

ASSUME SortAssumption ==
  \A l \in Lists : LET s == Sort(l) IN
     s \in Lists /\ Ascending(s) /\ ItemsOf(s) = ItemsOf(l)

Flags == {"error", "complete", "incomplete", "does_not_exist",
          "not_collected", "not_applicable"}
Operations == {"union", "intersection", "complement"}

\* What a flag says of the items found and of those there are.
Promise(f, found, extent_) ==
  /\ f = "complete" => found = extent_
  /\ f = "incomplete" => found \subseteq extent_
  /\ f \in {"does_not_exist", "not_applicable"} => found = {} /\ extent_ = {}
  /\ f = "not_collected" => found = {}

VARIABLES
  cobjs,   \* collected objects; ready to be an operand of a set or not
  extent,  \* history: the items there are, for each of them
  merge    \* the operation under way, or NoMerge

vars == <<cobjs, extent, merge>>

NoMerge == [op |-> "none", i |-> 1, j |-> 1, res |-> <<>>]

Init == cobjs = <<>> /\ extent = <<>> /\ merge = NoMerge

Idle == merge = NoMerge
N == Len(cobjs)
Cobj(f, l, ready) == [flag |-> f, items |-> l, ready |-> ready]

-----------------------------------------------------------------------------
(* Objects.                                                                *)

\* probe_main and probe_cobj_compute_flag: items in the order of collection.
Collect ==
  /\ Idle /\ N < MaxCobjs
  /\ \E l \in Lists, f \in Flags, E \in SUBSET Items :
        /\ f = "complete" => l # <<>>
        /\ Promise(f, ItemsOf(l), E)
        /\ cobjs' = Append(cobjs, Cobj(f, l, FALSE))
        /\ extent' = Append(extent, E)
  /\ UNCHANGED merge

\* Variant: the items stay in the order of collection.
Sorted_NotAtAll(l) == l

Sorted(l) == Sort(l)

\* probe_worker_runfn sorts the items before the object is cached.
Store ==
  /\ Idle /\ N > 0 /\ ~cobjs[N].ready
  /\ cobjs' = [cobjs EXCEPT ![N] = Cobj(@.flag, Sorted(@.items), TRUE)]
  /\ UNCHANGED <<extent, merge>>

\* A complete object without items does not exist.
FlagOf(f, l) == IF f = "complete" /\ l = <<>> THEN "does_not_exist" ELSE f

\* probe_set_apply_filters: K are the items that no filter removes, h the
\* places where the list has one of them.
Filter ==
  /\ Idle /\ N > 0 /\ cobjs[N].ready
  /\ \E K \in SUBSET Items :
        LET l == cobjs[N].items
            places == {k \in DOMAIN l : l[k] \in K}
        IN \E h \in [1 .. Cardinality(places) -> places] :
             LET kept == [k \in DOMAIN h |-> l[h[k]]] IN
               /\ Ascending(h)
               /\ cobjs' = [cobjs EXCEPT ![N] = Cobj(FlagOf(@.flag, kept), kept, TRUE)]
               /\ extent' = [extent EXCEPT ![N] = @ \cap K]
  /\ UNCHANGED merge

\* An item that was not collected turns the object into an error.
FilterFails ==
  /\ Idle /\ N > 0 /\ cobjs[N].ready
  /\ cobjs[N].flag \in {"incomplete", "error"} /\ cobjs[N].items # <<>>
  /\ cobjs' = [cobjs EXCEPT ![N] = Cobj("error", <<>>, TRUE)]
  /\ UNCHANGED <<extent, merge>>

-----------------------------------------------------------------------------
(* probe_cobj_combine_flags.                                               *)

UnionFlag(f1, f2) ==
  LET either(f) == f \in {f1, f2} IN
  IF either("error") THEN "error"
  ELSE IF either("incomplete") THEN "incomplete"
  ELSE IF either("not_collected")
       THEN IF either("complete") \/ either("does_not_exist") THEN "incomplete"
            ELSE "not_collected"
  ELSE IF either("complete") THEN "complete"
  ELSE IF either("does_not_exist") THEN "does_not_exist"
  ELSE "not_applicable"

\* Variant: the table has no entry for a complete and an incomplete operand.
IntersectionFlag_Gap(f1, f2) ==
  IF f1 \in {"error", "does_not_exist"} THEN f1
  ELSE IF f2 \in {"error", "does_not_exist"} THEN f2
  ELSE IF f1 = "not_applicable" THEN f2
  ELSE IF f1 = "not_collected" THEN f1
  ELSE IF f1 = "incomplete" THEN IF f2 = "not_applicable" THEN f2 ELSE f1
  ELSE IF f2 = "incomplete" THEN "unknown"
  ELSE IF f2 = "not_applicable" THEN f1 ELSE f2

IntersectionFlag(f1, f2) ==
  IF f1 \in {"error", "does_not_exist"} THEN f1
  ELSE IF f2 \in {"error", "does_not_exist"} THEN f2
  ELSE IF f1 = "not_applicable" THEN f2
  ELSE IF f1 = "not_collected" THEN f1
  ELSE IF f1 = "incomplete" THEN IF f2 = "not_applicable" THEN f2 ELSE f1
  ELSE IF f2 = "not_applicable" THEN f1 ELSE f2

\* Variant: an incomplete second operand is as good as a complete one.
ComplementFlag_Incomplete(f1, f2) ==
  IF f1 = "does_not_exist" /\ f2 # "not_applicable" THEN f1
  ELSE IF f1 = "not_collected" /\ f2 \notin {"not_applicable", "error"} THEN f1
  ELSE IF f1 \in {"complete", "incomplete"}
          /\ f2 \in {"complete", "incomplete", "does_not_exist"} THEN f1
  ELSE "error"

ComplementFlag(f1, f2) ==
  IF f1 = "does_not_exist" /\ f2 # "not_applicable" THEN f1
  ELSE IF f1 = "not_collected" /\ f2 \notin {"not_applicable", "error"} THEN f1
  ELSE IF f1 \in {"complete", "incomplete"}
          /\ f2 \in {"complete", "does_not_exist"} THEN f1
  ELSE "error"

CombineFlags(op, f1, f2) ==
  IF op = "union" THEN UnionFlag(f1, f2)
  ELSE IF op = "intersection" THEN IntersectionFlag(f1, f2)
  ELSE ComplementFlag(f1, f2)

Combined(op, X, Y) ==
  IF op = "union" THEN X \cup Y
  ELSE IF op = "intersection" THEN X \cap Y
  ELSE X \ Y

-----------------------------------------------------------------------------
(* probe_set_combine: i and j are the places of the two iterators.         *)

a == cobjs[N - 1].items
b == cobjs[N].items

\* The operands of a set come from the cache.
StartSet ==
  /\ Idle /\ N > 1 /\ cobjs[N - 1].ready /\ cobjs[N].ready
  /\ \E op \in Operations : merge' = [NoMerge EXCEPT !.op = op]
  /\ UNCHANGED <<cobjs, extent>>

\* probe_worker unites what it collected for two values of the variables an
\* object refers to, in the order of collection.
StartUnion ==
  /\ Idle /\ N > 1 /\ ~cobjs[N - 1].ready /\ ~cobjs[N].ready
  /\ Overlap \/ ItemsOf(a) \cap ItemsOf(b) = {}
  /\ merge' = [NoMerge EXCEPT !.op = "union"]
  /\ UNCHANGED <<cobjs, extent>>

Both == ~Idle /\ merge.i <= Len(a) /\ merge.j <= Len(b)

Add(x) == Append(merge.res, x)

\* The item of the first operand is smaller ...
TakeFirst ==
  /\ Both /\ a[merge.i] < b[merge.j]
  /\ merge' = [merge EXCEPT !.i = @ + 1,
                            !.res = IF merge.op = "intersection" THEN @
                                    ELSE Add(a[merge.i])]
  /\ UNCHANGED <<cobjs, extent>>

\* ... the one of the second is smaller ...
TakeSecond ==
  /\ Both /\ a[merge.i] > b[merge.j]
  /\ merge' = [merge EXCEPT !.j = @ + 1,
                            !.res = IF merge.op = "union" THEN Add(b[merge.j])
                                    ELSE @]
  /\ UNCHANGED <<cobjs, extent>>

\* Variant: both iterators go on, the item is kept by every operation.
TakeBoth_Keep ==
  /\ Both /\ a[merge.i] = b[merge.j]
  /\ merge' = [merge EXCEPT !.i = @ + 1, !.j = @ + 1, !.res = Add(a[merge.i])]
  /\ UNCHANGED <<cobjs, extent>>

\* ... or they are the same item.
TakeBoth ==
  /\ Both /\ a[merge.i] = b[merge.j]
  /\ merge' = [merge EXCEPT !.i = @ + 1, !.j = @ + 1,
                            !.res = IF merge.op = "complement" THEN @
                                    ELSE Add(a[merge.i])]
  /\ UNCHANGED <<cobjs, extent>>

\* What is left of the first operand belongs to a union and a complement,
\* what is left of the second to a union.
RestOfFirst ==
  /\ ~Idle /\ merge.i <= Len(a) /\ merge.j > Len(b)
  /\ merge.op # "intersection"
  /\ merge' = [merge EXCEPT !.i = @ + 1, !.res = Add(a[merge.i])]
  /\ UNCHANGED <<cobjs, extent>>

RestOfSecond ==
  /\ ~Idle /\ merge.i > Len(a) /\ merge.j <= Len(b)
  /\ merge.op = "union"
  /\ merge' = [merge EXCEPT !.j = @ + 1, !.res = Add(b[merge.j])]
  /\ UNCHANGED <<cobjs, extent>>

MergeDone ==
  /\ ~Idle
  /\ merge.op = "union" => merge.i > Len(a) /\ merge.j > Len(b)
  /\ merge.op = "intersection" => merge.i > Len(a) \/ merge.j > Len(b)
  /\ merge.op = "complement" => merge.i > Len(a)

\* The result takes the place of the operands.  The flag is combined first
\* in the code and depends on the flags of the operands only.
Finish ==
  /\ MergeDone
  /\ LET f == CombineFlags(merge.op, cobjs[N - 1].flag, cobjs[N].flag)
     IN cobjs' = Append(SubSeq(cobjs, 1, N - 2),
                        Cobj(FlagOf(f, merge.res), merge.res, cobjs[N].ready))
  /\ extent' = Append(SubSeq(extent, 1, N - 2),
                      Combined(merge.op, extent[N - 1], extent[N]))
  /\ merge' = NoMerge

Next ==
  \/ Collect \/ Store \/ Filter \/ FilterFails
  \/ StartSet \/ StartUnion \/ TakeFirst \/ TakeSecond \/ TakeBoth \/ RestOfFirst \/ RestOfSecond
  \/ Finish

Spec == Init /\ [][Next]_vars

-----------------------------------------------------------------------------
(* Properties.                                                             *)

Cobjs == [flag : Flags, items : Seq(Items), ready : BOOLEAN]

TypeOK ==
  /\ cobjs \in Seq(Cobjs) /\ Len(extent) = N
  /\ extent \in Seq(SUBSET Items)
  /\ merge \in [op : Operations \cup {"none"}, i : Nat \ {0}, j : Nat \ {0},
                res : Seq(Items)]
  /\ ~Idle => /\ N > 1 /\ merge.op # "none"
              /\ merge.i <= Len(a) + 1 /\ merge.j <= Len(b) + 1

\* Every list that probe_set_combine will merge is in ascending order and
\* names no item twice, what its loops rely on without a check.
ReadyToMerge == \A k \in 1 .. N : cobjs[k].ready => Ascending(cobjs[k].items)

\* The flag of a set promises no more than its items keep: complete means
\* that every item there is was found, incomplete that no item is wrong,
\* does not exist that there is none, whatever the operation made of
\* operands that are incomplete, failed or were not collected.
FlagsKeepPromise ==
  \A k \in 1 .. N : Promise(cobjs[k].flag, ItemsOf(cobjs[k].items), extent[k])

-----------------------------------------------------------------------------
(* What the proofs add: the invariant of the merging loops.                *)

Taken(l, k) == {l[x] : x \in 1 .. k - 1}
Left(l, k) == {l[x] : x \in k .. Len(l)}

\* Stored lists ascend; those of one object only do not repeat an item.
Before(ready, x, y) == IF ready THEN x < y ELSE x # y
InOrder(ready, l) == \A j, k \in DOMAIN l : j < k => Before(ready, l[j], l[k])

ListsInOrder == \A k \in 1 .. N : InOrder(cobjs[k].ready, cobjs[k].items)

Operands ==
  ~Idle => /\ cobjs[N - 1].ready = cobjs[N].ready
           /\ cobjs[N].ready
              \/ (merge.op = "union" /\ ItemsOf(a) \cap ItemsOf(b) = {})

\* What an iterator has left behind comes before what the other has left.
Separated ==
  ~Idle =>
    /\ \A x \in Taken(a, merge.i), y \in Left(b, merge.j) : Before(cobjs[N].ready, x, y)
    /\ \A y \in Taken(b, merge.j), x \in Left(a, merge.i) : Before(cobjs[N].ready, y, x)

PartialResult ==
  ~Idle => /\ ItemsOf(merge.res) = Combined(merge.op, Taken(a, merge.i), Taken(b, merge.j))
           /\ InOrder(cobjs[N].ready, merge.res)

IInv == /\ TypeOK /\ ListsInOrder /\ Operands /\ Separated /\ PartialResult

-----------------------------------------------------------------------------
\* The merging loops compute the operations of the OVAL language.
Algebra == INSTANCE SetAlgebra WITH sets <- [k \in 1 .. N |-> ItemsOf(cobjs[k].items)]

ImplementsSetAlgebra == Algebra!Spec
=============================================================================
