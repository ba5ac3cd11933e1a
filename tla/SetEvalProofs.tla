--------------------------- MODULE SetEvalProofs ----------------------------
(***************************************************************************)
(* Proofs about SetEval.  The merging loops of probe_set_combine are the   *)
(* heart of it: Progress says what holds of two lists, two iterators and a *)
(* partial result, and the three ways to advance keep it, whether the      *)
(* lists ascend (operands of a set) or have no item in common (values of a *)
(* variable).  From it follow the inductive invariant IInv, that flags are *)
(* true, and that the objects behave as the sets of SetAlgebra.            *)
(***************************************************************************)
EXTENDS SetEval, TLAPS, FiniteSetTheorems

USE ItemsAssumption, BoundAssumption

-----------------------------------------------------------------------------
(* Lists and iterators.                                                    *)

\* The next item moves from what is left to what is taken.
LEMMA TakeNext ==
  ASSUME NEW l \in Seq(Items), NEW k \in 1 .. Len(l)
  PROVE  /\ Taken(l, k + 1) = Taken(l, k) \cup {l[k]}
         /\ Left(l, k) = Left(l, k + 1) \cup {l[k]}
<1>1. Len(l) \in Nat
  OBVIOUS
<1>2. 1 .. (k + 1) - 1 = 1 .. k - 1 \cup {k}
  BY <1>1
<1>3. k .. Len(l) = k + 1 .. Len(l) \cup {k}
  BY <1>1
<1>4. QED
  BY <1>2, <1>3 DEF Taken, Left

\* Taken and left together are the list.
LEMMA TakenAndLeft ==
  ASSUME NEW l \in Seq(Items), NEW k \in 1 .. Len(l) + 1
  PROVE  /\ ItemsOf(l) = Taken(l, k) \cup Left(l, k)
         /\ ItemsOf(l) \subseteq Items
         /\ k = 1 => Taken(l, k) = {}
         /\ k > Len(l) => Left(l, k) = {}
<1>1. Len(l) \in Nat /\ DOMAIN l = 1 .. Len(l)
  OBVIOUS
<1>2. 1 .. Len(l) = 1 .. k - 1 \cup k .. Len(l)
  BY <1>1
<1>3. \A x \in DOMAIN l : l[x] \in Items
  BY <1>1
<1>4. QED
  BY <1>1, <1>2, <1>3 DEF ItemsOf, Taken, Left

\* What an iterator has taken comes before what is left to it.
LEMMA TakenBeforeLeft ==
  ASSUME NEW ready, NEW l \in Seq(Items), InOrder(ready, l),
         NEW k \in 1 .. Len(l) + 1,
         NEW x \in Taken(l, k), NEW y \in Left(l, k)
  PROVE  Before(ready, x, y)
<1>1. Len(l) \in Nat /\ DOMAIN l = 1 .. Len(l)
  OBVIOUS
<1>2. PICK p \in 1 .. k - 1 : x = l[p]
  BY DEF Taken
<1>3. PICK q \in k .. Len(l) : y = l[q]
  BY DEF Left
<1>4. p \in DOMAIN l /\ q \in DOMAIN l /\ p < q
  BY <1>1
<1>5. QED
  BY <1>2, <1>3, <1>4 DEF InOrder

\* Items that are before each other differ.
LEMMA BeforeDiffers ==
  ASSUME NEW ready, NEW x \in Items, NEW y \in Items,
         Before(ready, x, y)
  PROVE  x # y
  BY DEF Before

\* Adding an item that comes after all others keeps a list in order.
LEMMA AddLast ==
  ASSUME NEW ready, NEW l \in Seq(Items), InOrder(ready, l),
         NEW x \in Items, \A y \in ItemsOf(l) : Before(ready, y, x)
  PROVE  /\ Append(l, x) \in Seq(Items)
         /\ InOrder(ready, Append(l, x))
         /\ ItemsOf(Append(l, x)) = ItemsOf(l) \cup {x}
<1> DEFINE m == Append(l, x)
<1>1. /\ Len(l) \in Nat /\ DOMAIN l = 1 .. Len(l)
      /\ m \in Seq(Items) /\ DOMAIN m = 1 .. Len(l) + 1
  OBVIOUS
<1>2. /\ \A k \in DOMAIN l : m[k] = l[k] /\ m[k] \in ItemsOf(l)
      /\ m[Len(l) + 1] = x
  BY <1>1 DEF ItemsOf
<1>3. DOMAIN m = DOMAIN l \cup {Len(l) + 1}
  BY <1>1
<1>4. ASSUME NEW j \in DOMAIN m, NEW k \in DOMAIN m, j < k
      PROVE  Before(ready, m[j], m[k])
  <2>1. j \in DOMAIN l
    BY <1>1, <1>4
  <2>2. CASE k \in DOMAIN l
    BY <1>2, <1>4, <2>1, <2>2 DEF InOrder
  <2>3. CASE k = Len(l) + 1
    BY <1>2, <2>1, <2>3
  <2>4. QED
    BY <1>3, <2>2, <2>3
<1>5. ItemsOf(m) = ItemsOf(l) \cup {x}
  BY <1>2, <1>3 DEF ItemsOf
<1>6. QED
  BY <1>1, <1>4, <1>5 DEF InOrder
-----------------------------------------------------------------------------
(* The merging loops.                                                      *)

Progress(ready, op, l, m, i, j, res) ==
  /\ \A x \in Taken(l, i), y \in Left(m, j) : Before(ready, x, y)
  /\ \A y \in Taken(m, j), x \in Left(l, i) : Before(ready, y, x)
  /\ ItemsOf(res) = Combined(op, Taken(l, i), Taken(m, j))
  /\ InOrder(ready, res)

\* What Progress says of a result makes every item of it come before what
\* is left of both lists.
LEMMA ResultBeforeLeft ==
  ASSUME NEW ready, NEW op \in Operations,
         NEW l \in Seq(Items), NEW m \in Seq(Items),
         InOrder(ready, l), InOrder(ready, m),
         NEW i \in 1 .. Len(l) + 1, NEW j \in 1 .. Len(m) + 1, NEW res,
         Progress(ready, op, l, m, i, j, res),
         NEW x \in ItemsOf(res), NEW y \in Left(l, i) \cup Left(m, j)
  PROVE  Before(ready, x, y)
<1>1. x \in Taken(l, i) \/ x \in Taken(m, j)
  BY DEF Progress, Combined, Operations
<1>2. CASE x \in Taken(l, i)
  BY <1>2, TakenBeforeLeft DEF Progress
<1>3. CASE x \in Taken(m, j)
  BY <1>3, TakenBeforeLeft DEF Progress
<1>4. QED
  BY <1>1, <1>2, <1>3

\* The first iterator goes on: its item belongs to a union and a complement.
LEMMA FirstTaken ==
  ASSUME NEW ready, NEW op \in Operations,
         NEW l \in Seq(Items), NEW m \in Seq(Items),
         InOrder(ready, l), InOrder(ready, m),
         NEW i \in 1 .. Len(l), NEW j \in 1 .. Len(m) + 1, NEW res \in Seq(Items),
         Progress(ready, op, l, m, i, j, res),
         \A y \in Left(m, j) : Before(ready, l[i], y),
         NEW new, new = IF op = "intersection" THEN res ELSE Append(res, l[i])
  PROVE  Progress(ready, op, l, m, i + 1, j, new) /\ new \in Seq(Items)
<1>1. Len(l) \in Nat /\ i \in 1 .. Len(l) + 1 /\ l[i] \in Items
  OBVIOUS
<1>2. /\ Taken(l, i + 1) = Taken(l, i) \cup {l[i]}
      /\ Left(l, i + 1) \subseteq Left(l, i) /\ l[i] \in Left(l, i)
  <2>1. /\ Taken(l, i + 1) = Taken(l, i) \cup {l[i]}
        /\ Left(l, i) = Left(l, i + 1) \cup {l[i]}
    BY TakeNext
  <2>2. QED
    BY <2>1
<1>3. \A x \in Taken(l, i + 1), y \in Left(m, j) : Before(ready, x, y)
  BY <1>2 DEF Progress
<1>4. \A y \in Taken(m, j), x \in Left(l, i + 1) : Before(ready, y, x)
  BY <1>2 DEF Progress
<1>5. l[i] \notin Taken(m, j)
  <2>1. \A y \in Taken(m, j) : Before(ready, y, l[i]) /\ y \in Items
    BY <1>2, TakenAndLeft DEF Progress
  <2>2. QED
    BY <1>1, <2>1, BeforeDiffers
<1>6. CASE op = "intersection"
  BY <1>2, <1>3, <1>4, <1>5, <1>6 DEF Progress, Combined
<1>7. CASE op # "intersection"
  <2>1. \A x \in ItemsOf(res) : Before(ready, x, l[i])
    BY <1>1, <1>2, ResultBeforeLeft
  <2>2. /\ new \in Seq(Items) /\ InOrder(ready, new)
        /\ ItemsOf(new) = ItemsOf(res) \cup {l[i]}
    <3>1. /\ new = Append(res, l[i]) /\ InOrder(ready, res) /\ l[i] \in Items
          /\ res \in Seq(Items)
      BY <1>1, <1>7 DEF Progress
    <3>2. PICK x \in Items : x = l[i]
      BY <3>1
    <3>3. \A y \in ItemsOf(res) : Before(ready, y, x)
      BY <2>1, <3>2
    <3>4. /\ Append(res, x) \in Seq(Items)
          /\ InOrder(ready, Append(res, x))
          /\ ItemsOf(Append(res, x)) = ItemsOf(res) \cup {x}
      BY <3>1, <3>3, AddLast
    <3>5. QED
      BY <3>1, <3>2, <3>4
  <2>3. ItemsOf(new) = Combined(op, Taken(l, i + 1), Taken(m, j))
    BY <1>2, <1>5, <1>7, <2>2 DEF Progress, Combined, Operations
  <2>4. QED
    BY <1>3, <1>4, <2>2, <2>3 DEF Progress
<1>8. QED
  BY <1>6, <1>7

\* The second iterator goes on: its item belongs to a union.
LEMMA SecondTaken ==
  ASSUME NEW ready, NEW op \in Operations,
         NEW l \in Seq(Items), NEW m \in Seq(Items),
         InOrder(ready, l), InOrder(ready, m),
         NEW i \in 1 .. Len(l) + 1, NEW j \in 1 .. Len(m), NEW res \in Seq(Items),
         Progress(ready, op, l, m, i, j, res),
         \A x \in Left(l, i) : Before(ready, m[j], x),
         NEW new, new = IF op = "union" THEN Append(res, m[j]) ELSE res
  PROVE  Progress(ready, op, l, m, i, j + 1, new) /\ new \in Seq(Items)
<1>1. Len(m) \in Nat /\ j \in 1 .. Len(m) + 1 /\ m[j] \in Items
  OBVIOUS
<1>2. /\ Taken(m, j + 1) = Taken(m, j) \cup {m[j]}
      /\ Left(m, j + 1) \subseteq Left(m, j) /\ m[j] \in Left(m, j)
  <2>1. /\ Taken(m, j + 1) = Taken(m, j) \cup {m[j]}
        /\ Left(m, j) = Left(m, j + 1) \cup {m[j]}
    BY TakeNext
  <2>2. QED
    BY <2>1
<1>3. \A x \in Taken(l, i), y \in Left(m, j + 1) : Before(ready, x, y)
  BY <1>2 DEF Progress
<1>4. \A y \in Taken(m, j + 1), x \in Left(l, i) : Before(ready, y, x)
  BY <1>2 DEF Progress
<1>5. m[j] \notin Taken(l, i)
  <2>1. \A x \in Taken(l, i) : Before(ready, x, m[j]) /\ x \in Items
    BY <1>2, TakenAndLeft DEF Progress
  <2>2. QED
    BY <1>1, <2>1, BeforeDiffers
<1>6. CASE op # "union"
  <2>1. new = res
    BY <1>6
  <2>2. Combined(op, Taken(l, i), Taken(m, j + 1)) = Combined(op, Taken(l, i), Taken(m, j))
    BY <1>2, <1>5, <1>6 DEF Combined
  <2>3. QED
    BY <1>3, <1>4, <2>1, <2>2 DEF Progress
<1>7. CASE op = "union"
  <2>1. \A x \in ItemsOf(res) : Before(ready, x, m[j])
    BY <1>1, <1>2, ResultBeforeLeft
  <2>2. /\ new \in Seq(Items) /\ InOrder(ready, new)
        /\ ItemsOf(new) = ItemsOf(res) \cup {m[j]}
    <3>1. /\ new = Append(res, m[j]) /\ InOrder(ready, res) /\ m[j] \in Items
          /\ res \in Seq(Items)
      BY <1>1, <1>7 DEF Progress
    <3>2. PICK x \in Items : x = m[j]
      BY <3>1
    <3>3. \A y \in ItemsOf(res) : Before(ready, y, x)
      BY <2>1, <3>2
    <3>4. /\ Append(res, x) \in Seq(Items)
          /\ InOrder(ready, Append(res, x))
          /\ ItemsOf(Append(res, x)) = ItemsOf(res) \cup {x}
      BY <3>1, <3>3, AddLast
    <3>5. QED
      BY <3>1, <3>2, <3>4
  <2>3. ItemsOf(new) = Combined(op, Taken(l, i), Taken(m, j + 1))
    BY <1>2, <1>7, <2>2 DEF Progress, Combined
  <2>4. QED
    BY <1>3, <1>4, <2>2, <2>3 DEF Progress
<1>8. QED
  BY <1>6, <1>7

\* Both are at the same item, which happens to ascending lists only.
LEMMA BothTaken ==
  ASSUME NEW op \in Operations, NEW l \in Seq(Items), NEW m \in Seq(Items),
         InOrder(TRUE, l), InOrder(TRUE, m),
         NEW i \in 1 .. Len(l), NEW j \in 1 .. Len(m), NEW res \in Seq(Items),
         Progress(TRUE, op, l, m, i, j, res), l[i] = m[j],
         NEW new, new = IF op = "complement" THEN res ELSE Append(res, l[i])
  PROVE  Progress(TRUE, op, l, m, i + 1, j + 1, new) /\ new \in Seq(Items)
<1>1. /\ Len(l) \in Nat /\ i \in 1 .. Len(l) + 1 /\ i + 1 \in 1 .. Len(l) + 1
      /\ Len(m) \in Nat /\ j \in 1 .. Len(m) + 1 /\ j + 1 \in 1 .. Len(m) + 1
      /\ l[i] \in Items
  OBVIOUS
<1>2. /\ Taken(l, i + 1) = Taken(l, i) \cup {l[i]}
      /\ Left(l, i) = Left(l, i + 1) \cup {l[i]}
      /\ Taken(m, j + 1) = Taken(m, j) \cup {l[i]}
      /\ Left(m, j) = Left(m, j + 1) \cup {l[i]}
  BY TakeNext
<1>3. /\ \A y \in Left(m, j + 1) : Before(TRUE, l[i], y)
      /\ \A x \in Left(l, i + 1) : Before(TRUE, l[i], x)
  BY <1>1, <1>2, TakenBeforeLeft
<1>4. /\ \A x \in Taken(l, i + 1), y \in Left(m, j + 1) : Before(TRUE, x, y)
      /\ \A y \in Taken(m, j + 1), x \in Left(l, i + 1) : Before(TRUE, y, x)
  BY <1>2, <1>3 DEF Progress
<1>5. l[i] \notin Taken(l, i) /\ l[i] \notin Taken(m, j)
  <2>1. \A y \in Taken(l, i) \cup Taken(m, j) : Before(TRUE, y, l[i]) /\ y \in Items
    BY <1>1, <1>2, TakenAndLeft, TakenBeforeLeft
  <2>2. QED
    BY <1>1, <2>1, BeforeDiffers
<1>6. CASE op = "complement"
  BY <1>2, <1>4, <1>5, <1>6 DEF Progress, Combined
<1>7. CASE op # "complement"
  <2>1. \A x \in ItemsOf(res) : Before(TRUE, x, l[i])
    BY <1>1, <1>2, ResultBeforeLeft
  <2>2. /\ new \in Seq(Items) /\ InOrder(TRUE, new)
        /\ ItemsOf(new) = ItemsOf(res) \cup {l[i]}
    <3>1. /\ new = Append(res, l[i]) /\ InOrder(TRUE, res) /\ l[i] \in Items
          /\ res \in Seq(Items)
      BY <1>1, <1>7 DEF Progress
    <3>2. PICK x \in Items : x = l[i]
      BY <3>1
    <3>3. \A y \in ItemsOf(res) : Before(TRUE, y, x)
      BY <2>1, <3>2
    <3>4. /\ Append(res, x) \in Seq(Items)
          /\ InOrder(TRUE, Append(res, x))
          /\ ItemsOf(Append(res, x)) = ItemsOf(res) \cup {x}
      BY <3>1, <3>3, AddLast
    <3>5. QED
      BY <3>1, <3>2, <3>4
  <2>3. ItemsOf(new) = Combined(op, Taken(l, i + 1), Taken(m, j + 1))
    BY <1>2, <1>5, <1>7, <2>2 DEF Progress, Combined, Operations
  <2>4. QED
    BY <1>4, <2>2, <2>3 DEF Progress
<1>8. QED
  BY <1>6, <1>7

\* When the loops end, the partial result is the result.
LEMMA AllTaken ==
  ASSUME NEW ready, NEW op \in Operations,
         NEW l \in Seq(Items), NEW m \in Seq(Items),
         NEW i \in 1 .. Len(l) + 1, NEW j \in 1 .. Len(m) + 1, NEW res,
         Progress(ready, op, l, m, i, j, res),
         op = "union" => i > Len(l) /\ j > Len(m),
         op = "intersection" => i > Len(l) \/ j > Len(m),
         op = "complement" => i > Len(l)
  PROVE  ItemsOf(res) = Combined(op, ItemsOf(l), ItemsOf(m))
<1>1. /\ ItemsOf(l) = Taken(l, i) \cup Left(l, i) /\ ItemsOf(l) \subseteq Items
      /\ ItemsOf(m) = Taken(m, j) \cup Left(m, j) /\ ItemsOf(m) \subseteq Items
      /\ i > Len(l) => Left(l, i) = {}
      /\ j > Len(m) => Left(m, j) = {}
  BY TakenAndLeft
<1>2. /\ Taken(l, i) \cap Left(m, j) = {}
      /\ Taken(m, j) \cap Left(l, i) = {}
  BY <1>1, BeforeDiffers DEF Progress
<1>3. CASE op = "union"
  BY <1>1, <1>3 DEF Progress, Combined
<1>4. CASE op = "intersection"
  BY <1>1, <1>2, <1>4 DEF Progress, Combined
<1>5. CASE op = "complement"
  BY <1>1, <1>2, <1>5 DEF Progress, Combined
<1>6. QED
  BY <1>3, <1>4, <1>5 DEF Operations
-----------------------------------------------------------------------------
(* Sorting and filtering.                                                  *)

\* The places of a list are as many as its length.
LEMMA SizeOfInterval ==
  ASSUME NEW n \in Nat
  PROVE  Cardinality(1 .. n) = n
  BY FS_Interval

\* A list without a repeated item is no longer than there are items, so the
\* assumption about Sort covers it.
LEMMA DistinctIsList ==
  ASSUME NEW l \in Seq(Items), InOrder(FALSE, l)
  PROVE  l \in Lists
<1>1. /\ Len(l) \in Nat /\ DOMAIN l = 1 .. Len(l)
      /\ l \in [1 .. Len(l) -> Items]
  OBVIOUS
<1>2. Distinct(l)
  <2> SUFFICES ASSUME NEW j \in DOMAIN l, NEW k \in DOMAIN l, j # k
               PROVE  l[j] # l[k]
    BY DEF Distinct
  <2>1. j < k \/ k < j
    BY <1>1
  <2>2. QED
    BY <2>1 DEF InOrder, Before
<1>3. l \in Injection(1 .. Len(l), Items)
  BY <1>1, <1>2 DEF Distinct, Injection, IsInjective
<1>4. Len(l) <= Cardinality(Items) /\ Cardinality(Items) \in Nat
  <2>1. Cardinality(1 .. Len(l)) = Len(l)
    BY <1>1, SizeOfInterval
  <2>2. QED
    BY <1>3, <2>1, FS_Injection, FS_CardinalityType
<1>5. Len(l) \in 0 .. Cardinality(Items)
  BY <1>1, <1>4
<1>6. QED
  BY <1>1, <1>2, <1>5 DEF Lists

\* A member of Lists is a sequence of items that does not repeat one.
LEMMA ListIsDistinct ==
  ASSUME NEW l \in Lists
  PROVE  l \in Seq(Items) /\ InOrder(FALSE, l)
<1>1. PICK n \in 0 .. Cardinality(Items) : l \in [1 .. n -> Items]
  BY DEF Lists
<1>2. n \in Nat
  BY <1>1, FS_CardinalityType
<1>3. l \in Seq(Items)
  BY <1>1, <1>2
<1>4. DOMAIN l \subseteq Nat
  BY <1>1, <1>2
<1>5. Distinct(l)
  BY DEF Lists
<1>6. QED
  BY <1>3, <1>4, <1>5 DEF InOrder, Before, Distinct

\* What probe_worker_runfn stores has the items collected and ascends.
LEMMA SortedAscends ==
  ASSUME NEW l \in Seq(Items), InOrder(FALSE, l)
  PROVE  /\ Sorted(l) \in Seq(Items)
         /\ InOrder(TRUE, Sorted(l))
         /\ ItemsOf(Sorted(l)) = ItemsOf(l)
<1>1. l \in Lists
  BY DistinctIsList
<1>2. /\ Sort(l) \in Lists /\ Ascending(Sort(l))
      /\ ItemsOf(Sort(l)) = ItemsOf(l)
  BY <1>1, SortAssumption
<1>3. QED
  BY <1>2, ListIsDistinct DEF Sorted, InOrder, Before, Ascending

\* The places of a list with an item in K, and the list of what is there.
Places(l, K) == {k \in DOMAIN l : l[k] \in K}
ItemsAt(l, h) == [k \in DOMAIN h |-> l[h[k]]]

\* What probe_set_apply_filters keeps of a list are its items in K, in order.
LEMMA KeptItems ==
  ASSUME NEW l \in Seq(Items), InOrder(TRUE, l), NEW K,
         NEW h \in [1 .. Cardinality(Places(l, K)) -> Places(l, K)], Ascending(h)
  PROVE  /\ ItemsAt(l, h) \in Seq(Items)
         /\ InOrder(TRUE, ItemsAt(l, h))
         /\ ItemsOf(ItemsAt(l, h)) = ItemsOf(l) \cap K
<1> DEFINE places == Places(l, K)
           kept == ItemsAt(l, h)
<1>1. /\ Len(l) \in Nat /\ DOMAIN l = 1 .. Len(l)
      /\ places \subseteq 1 .. Len(l)
      /\ \A k \in places : l[k] \in Items /\ l[k] \in K
      /\ \A k \in DOMAIN l : l[k] \in K => k \in places
  BY DEF Places
<1>2. IsFiniteSet(places) /\ Cardinality(places) \in Nat
  <2>1. IsFiniteSet(1 .. Len(l))
    BY <1>1, FS_Interval
  <2>2. IsFiniteSet(places)
    BY <1>1, <2>1, FS_Subset
  <2>3. QED
    BY <2>2, FS_CardinalityType
<1>3. /\ h \in [1 .. Cardinality(places) -> places]
      /\ DOMAIN h = 1 .. Cardinality(places)
      /\ kept = [k \in 1 .. Cardinality(places) |-> l[h[k]]] /\ DOMAIN kept = DOMAIN h
      /\ \A k \in DOMAIN h : h[k] \in places /\ kept[k] = l[h[k]]
  BY DEF ItemsAt
<1> HIDE DEF places, kept
<1>4. kept \in Seq(Items)
  <2>1. kept \in [1 .. Cardinality(places) -> Items]
    BY <1>1, <1>3
  <2>2. QED
    BY <1>2, <2>1
<1>5. InOrder(TRUE, kept)
  <2> SUFFICES ASSUME NEW j \in DOMAIN h, NEW k \in DOMAIN h, j < k
               PROVE  kept[j] < kept[k]
    BY <1>3 DEF InOrder, Before
  <2>1. h[j] < h[k] /\ h[j] \in DOMAIN l /\ h[k] \in DOMAIN l
    BY <1>1, <1>3 DEF Ascending
  <2>2. QED
    BY <1>3, <2>1 DEF InOrder, Before
<1>6. h \in Surjection(1 .. Cardinality(places), places)
  <2>1. \A j, k \in DOMAIN h : h[j] = h[k] => j = k
    <3> SUFFICES ASSUME NEW j \in DOMAIN h, NEW k \in DOMAIN h, j # k
                 PROVE  h[j] # h[k]
      OBVIOUS
    <3>a. j \in Nat /\ k \in Nat
      BY <1>2, <1>3
    <3>b. h[j] \in places /\ h[k] \in places /\ places \subseteq Nat
      BY <1>1, <1>3
    <3>1. j \in Nat /\ k \in Nat /\ h[j] \in Nat /\ h[k] \in Nat
      BY <3>a, <3>b
    <3>2. j < k \/ k < j
      BY <3>1
    <3>3. QED
      BY <3>1, <3>2 DEF Ascending
  <2>2. h \in Injection(1 .. Cardinality(places), places)
    BY <1>3, <2>1 DEF Injection, IsInjective
  <2>3. Cardinality(1 .. Cardinality(places)) = Cardinality(places)
    BY <1>2, FS_Interval
  <2>4. QED
    BY <1>2, <2>2, <2>3, FS_Injection
<1>7. \A p \in places : \E k \in DOMAIN h : h[k] = p
  BY <1>3, <1>6 DEF Surjection
<1>8. ItemsOf(kept) \subseteq ItemsOf(l) \cap K
  BY <1>1, <1>3 DEF ItemsOf
<1>9. ItemsOf(l) \cap K \subseteq ItemsOf(kept)
  <2> SUFFICES ASSUME NEW k \in DOMAIN l, l[k] \in K
               PROVE  l[k] \in ItemsOf(kept)
    BY DEF ItemsOf
  <2>1. PICK n \in DOMAIN h : h[n] = k
    BY <1>1, <1>7
  <2>2. QED
    BY <1>3, <2>1 DEF ItemsOf
<1>10. QED
  BY <1>4, <1>5, <1>8, <1>9 DEF kept
-----------------------------------------------------------------------------
(* The inductive invariant.                                                *)

\* What the invariant says of an operation under way.
LEMMA Operating ==
  ASSUME IInv, ~Idle
  PROVE  /\ N \in Nat /\ N > 1
         /\ cobjs[N - 1] \in Cobjs /\ cobjs[N] \in Cobjs
         /\ a \in Seq(Items) /\ InOrder(cobjs[N].ready, a)
         /\ b \in Seq(Items) /\ InOrder(cobjs[N].ready, b)
         /\ merge.op \in Operations
         /\ merge.i \in 1 .. Len(a) + 1 /\ merge.j \in 1 .. Len(b) + 1
         /\ merge.res \in Seq(Items)
         /\ Progress(cobjs[N].ready, merge.op, a, b, merge.i, merge.j, merge.res)
<1>1. cobjs \in Seq(Cobjs) /\ N \in Nat /\ N > 1
  BY DEF IInv, TypeOK, N
<1>2. cobjs[N - 1] \in Cobjs /\ cobjs[N] \in Cobjs
  BY <1>1 DEF N
<1>3. a \in Seq(Items) /\ b \in Seq(Items)
  BY <1>2 DEF Cobjs, a, b
<1>4. InOrder(cobjs[N - 1].ready, a) /\ InOrder(cobjs[N].ready, b)
  BY <1>1 DEF IInv, ListsInOrder, a, b
<1>5. cobjs[N - 1].ready = cobjs[N].ready
  BY DEF IInv, Operands
<1>6. /\ merge.op \in Operations /\ merge.res \in Seq(Items)
      /\ merge.i \in Nat \ {0} /\ merge.j \in Nat \ {0}
      /\ merge.i <= Len(a) + 1 /\ merge.j <= Len(b) + 1
  BY DEF IInv, TypeOK
<1>7. merge.i \in 1 .. Len(a) + 1 /\ merge.j \in 1 .. Len(b) + 1
  BY <1>3, <1>6
<1>8. Progress(cobjs[N].ready, merge.op, a, b, merge.i, merge.j, merge.res)
  BY DEF IInv, Separated, PartialResult, Progress
<1>9. QED
  BY <1>1, <1>2, <1>3, <1>4, <1>5, <1>6, <1>7, <1>8

\* A step of an iterator keeps the invariant if it keeps Progress.
LEMMA MergeKeeps ==
  ASSUME IInv, ~Idle, UNCHANGED <<cobjs, extent>>,
         NEW i, i \in 1 .. Len(a) + 1, NEW j, j \in 1 .. Len(b) + 1,
         NEW res, res \in Seq(Items),
         merge' = [op |-> merge.op, i |-> i, j |-> j, res |-> res],
         Progress(cobjs[N].ready, merge.op, a, b, i, j, res)
  PROVE  IInv'
<1>1. /\ merge'.op = merge.op /\ merge'.i = i /\ merge'.j = j /\ merge'.res = res
      /\ a' = a /\ b' = b /\ N' = N
  BY DEF a, b, N
<1>2. TypeOK'
  <2>1. /\ i \in Nat \ {0} /\ j \in Nat \ {0} /\ i <= Len(a) + 1 /\ j <= Len(b) + 1
        /\ merge.op \in Operations /\ merge.op # "none" /\ N > 1
    BY Operating DEF Operations
  <2>2. QED
    BY <1>1, <2>1 DEF IInv, TypeOK
<1>3. ListsInOrder'
  BY <1>1 DEF IInv, ListsInOrder
<1>4. Operands'
  BY <1>1 DEF IInv, Operands
<1>5. Separated' /\ PartialResult'
  BY <1>1 DEF Separated, PartialResult, Progress
<1>6. QED
  BY <1>2, <1>3, <1>4, <1>5 DEF IInv

\* Without an operation under way the lists need to be in order, no more.
LEMMA IdleKeeps ==
  ASSUME merge' = NoMerge, cobjs' \in Seq(Cobjs), N' = Len(extent'),
         extent' \in Seq(SUBSET Items),
         \A k \in 1 .. N' : InOrder(cobjs'[k].ready, cobjs'[k].items)
  PROVE  IInv'
<1>1. Idle' /\ (merge \in [op : Operations \cup {"none"}, i : Nat \ {0}, j : Nat \ {0},
                            res : Seq(Items)])'
  BY DEF Idle, NoMerge
<1>2. QED
  BY <1>1 DEF IInv, TypeOK, ListsInOrder, Operands, Separated, PartialResult

\* The last object gets another flag, list or state.
LEMMA LastReplaced ==
  ASSUME IInv, Idle, N > 0, UNCHANGED merge,
         NEW c, c \in Cobjs, InOrder(c.ready, c.items), NEW E, E \subseteq Items,
         cobjs' = [cobjs EXCEPT ![N] = c], extent' = [extent EXCEPT ![N] = E]
  PROVE  IInv'
<1>1. /\ cobjs \in Seq(Cobjs) /\ extent \in Seq(SUBSET Items)
      /\ N = Len(cobjs) /\ Len(extent) = Len(cobjs) /\ N \in 1 .. Len(cobjs)
  BY DEF IInv, TypeOK, N
<1>2. cobjs' \in Seq(Cobjs) /\ Len(cobjs') = Len(cobjs)
  BY <1>1
<1>3. extent' \in Seq(SUBSET Items) /\ Len(extent') = Len(extent)
  BY <1>1
<1>4. \A k \in 1 .. N : InOrder(cobjs'[k].ready, cobjs'[k].items)
  BY <1>1 DEF IInv, ListsInOrder
<1>5. N' = N
  BY <1>1, <1>2 DEF N
<1>6. QED
  BY <1>1, <1>2, <1>3, <1>4, <1>5, IdleKeeps DEF Idle

\* The last objects give way to a new one.
LEMMA Appended ==
  ASSUME IInv, merge' = NoMerge, NEW n, n \in 0 .. N,
         NEW c, c \in Cobjs, InOrder(c.ready, c.items), NEW E, E \subseteq Items,
         cobjs' = Append(SubSeq(cobjs, 1, n), c),
         extent' = Append(SubSeq(extent, 1, n), E)
  PROVE  IInv'
<1>1. /\ cobjs \in Seq(Cobjs) /\ extent \in Seq(SUBSET Items)
      /\ N = Len(cobjs) /\ Len(extent) = Len(cobjs) /\ N \in Nat /\ n \in Nat
  BY DEF IInv, TypeOK, N
<1>2. /\ SubSeq(cobjs, 1, n) \in Seq(Cobjs) /\ Len(SubSeq(cobjs, 1, n)) = n
      /\ \A k \in 1 .. n : SubSeq(cobjs, 1, n)[k] = cobjs[k]
  BY <1>1
<1>3. /\ SubSeq(extent, 1, n) \in Seq(SUBSET Items) /\ Len(SubSeq(extent, 1, n)) = n
  BY <1>1
<1>4. /\ cobjs' \in Seq(Cobjs) /\ Len(cobjs') = n + 1
      /\ extent' \in Seq(SUBSET Items) /\ Len(extent') = n + 1
      /\ cobjs'[n + 1] = c /\ \A k \in 1 .. n : cobjs'[k] = cobjs[k]
  BY <1>1, <1>2, <1>3
<1>5. N' = n + 1
  BY <1>4 DEF N
<1>6. \A k \in 1 .. n : k \in 1 .. N
  BY <1>1
<1>7. \A k \in 1 .. n + 1 : k = n + 1 \/ k \in 1 .. n
  BY <1>1
<1>8. \A k \in 1 .. n + 1 : InOrder(cobjs'[k].ready, cobjs'[k].items)
  BY <1>4, <1>6, <1>7 DEF IInv, ListsInOrder
<1>9. QED
  BY <1>4, <1>5, <1>8, IdleKeeps

\* The tables of probe_cobj_combine_flags have no gap.
LEMMA FlagsCombine ==
  ASSUME NEW op, NEW f1 \in Flags, NEW f2 \in Flags, NEW l
  PROVE  CombineFlags(op, f1, f2) \in Flags
         /\ FlagOf(CombineFlags(op, f1, f2), l) \in Flags
<1>1. UnionFlag(f1, f2) \in Flags
  BY DEF UnionFlag, Flags
<1>2. IntersectionFlag(f1, f2) \in Flags
  BY DEF IntersectionFlag, Flags
<1>3. ComplementFlag(f1, f2) \in Flags
  BY DEF ComplementFlag, Flags
<1>4. QED
  BY <1>1, <1>2, <1>3 DEF CombineFlags, FlagOf, Flags

-----------------------------------------------------------------------------
(* The actions keep it.                                                    *)

\* The fields of a collected object.
LEMMA CobjFields ==
  ASSUME NEW f \in Flags, NEW l \in Seq(Items), NEW r \in BOOLEAN
  PROVE  /\ Cobj(f, l, r) \in Cobjs
         /\ Cobj(f, l, r).flag = f /\ Cobj(f, l, r).items = l /\ Cobj(f, l, r).ready = r
  BY DEF Cobj, Cobjs

\* What the invariant says of the last object.
LEMMA LastCobj ==
  ASSUME IInv, N > 0
  PROVE  /\ N \in Nat /\ N = Len(cobjs) /\ N = Len(extent) /\ N \in 1 .. N
         /\ cobjs \in Seq(Cobjs) /\ extent \in Seq(SUBSET Items)
         /\ cobjs[N].flag \in Flags /\ cobjs[N].items \in Seq(Items)
         /\ cobjs[N].ready \in BOOLEAN
         /\ InOrder(cobjs[N].ready, cobjs[N].items)
         /\ extent[N] \subseteq Items
<1>1. /\ N \in Nat /\ N = Len(cobjs) /\ N = Len(extent) /\ N \in 1 .. N
      /\ cobjs \in Seq(Cobjs) /\ extent \in Seq(SUBSET Items)
  BY DEF IInv, TypeOK, N
<1>2. cobjs[N] \in Cobjs
  BY <1>1 DEF N
<1>a. extent[N] \subseteq Items
  BY <1>1
<1>3. InOrder(cobjs[N].ready, cobjs[N].items)
  BY <1>1 DEF IInv, ListsInOrder
<1>4. QED
  BY <1>1, <1>2, <1>a, <1>3 DEF Cobjs

\* A new object is in the order of collection and repeats no item.
LEMMA CollectKeeps == IInv /\ Collect => IInv'
<1> SUFFICES ASSUME IInv, Collect PROVE IInv'
  OBVIOUS
<1>1. PICK l \in Lists, f \in Flags, E \in SUBSET Items :
        /\ cobjs' = Append(cobjs, Cobj(f, l, FALSE))
        /\ extent' = Append(extent, E)
  BY DEF Collect
<1>2. /\ cobjs \in Seq(Cobjs) /\ extent \in Seq(SUBSET Items)
      /\ N = Len(cobjs) /\ Len(extent) = N /\ N \in 0 .. N
  BY DEF IInv, TypeOK, N
<1>3. SubSeq(cobjs, 1, N) = cobjs /\ SubSeq(extent, 1, N) = extent
  BY <1>2
<1>4. l \in Seq(Items) /\ InOrder(FALSE, l)
  BY ListIsDistinct
<1> DEFINE c == Cobj(f, l, FALSE)
<1>5. c \in Cobjs /\ c.items = l /\ c.ready = FALSE
  BY <1>4, CobjFields
<1>6. InOrder(c.ready, c.items)
  BY <1>4, <1>5
<1>7. merge' = NoMerge
  BY DEF Collect, Idle
<1> HIDE DEF c
<1>8. QED
  BY <1>1, <1>2, <1>3, <1>5, <1>6, <1>7, Appended DEF c

\* Storing an object sorts its items.
LEMMA StoreKeeps == IInv /\ Store => IInv'
<1> SUFFICES ASSUME IInv, Store PROVE IInv'
  OBVIOUS
<1> DEFINE c == Cobj(cobjs[N].flag, Sorted(cobjs[N].items), TRUE)
<1>1. Idle /\ N > 0 /\ ~cobjs[N].ready /\ UNCHANGED merge
      /\ cobjs' = [cobjs EXCEPT ![N] = c] /\ extent' = extent
  BY DEF Store
<1>2. /\ Sorted(cobjs[N].items) \in Seq(Items)
      /\ InOrder(TRUE, Sorted(cobjs[N].items))
  <2>1. InOrder(FALSE, cobjs[N].items) /\ cobjs[N].items \in Seq(Items)
    BY <1>1, LastCobj
  <2>2. PICK l \in Seq(Items) : l = cobjs[N].items
    BY <2>1
  <2>3. QED
    BY <2>1, <2>2, SortedAscends
<1>3. c \in Cobjs /\ c.items = Sorted(cobjs[N].items) /\ c.ready = TRUE
  BY <1>1, <1>2, LastCobj, CobjFields
<1>4. InOrder(c.ready, c.items)
  BY <1>2, <1>3
<1>5. extent' = [extent EXCEPT ![N] = extent[N]] /\ extent[N] \subseteq Items
  BY <1>1, LastCobj
<1> HIDE DEF c
<1>6. QED
  BY <1>1, <1>3, <1>4, <1>5, LastReplaced

\* Filters keep the order of the items they keep.
LEMMA FilterKeeps == IInv /\ Filter => IInv'
<1> SUFFICES ASSUME IInv, Filter PROVE IInv'
  OBVIOUS
<1> DEFINE l == cobjs[N].items
           c(h) == Cobj(FlagOf(cobjs[N].flag, ItemsAt(l, h)), ItemsAt(l, h), TRUE)
<1>1. Idle /\ N > 0 /\ cobjs[N].ready /\ UNCHANGED merge
  BY DEF Filter
<1>2. PICK K \in SUBSET Items :
        \E h \in [1 .. Cardinality(Places(l, K)) -> Places(l, K)] :
          /\ Ascending(h)
          /\ cobjs' = [cobjs EXCEPT ![N] = c(h)]
          /\ extent' = [extent EXCEPT ![N] = extent[N] \cap K]
  BY DEF Filter, Places, ItemsAt
<1>3. PICK h \in [1 .. Cardinality(Places(l, K)) -> Places(l, K)] :
          /\ Ascending(h)
          /\ cobjs' = [cobjs EXCEPT ![N] = c(h)]
          /\ extent' = [extent EXCEPT ![N] = extent[N] \cap K]
  BY <1>2
<1>4. l \in Seq(Items) /\ InOrder(TRUE, l)
  BY <1>1, LastCobj
<1>5. ItemsAt(l, h) \in Seq(Items) /\ InOrder(TRUE, ItemsAt(l, h))
  BY <1>3, <1>4, KeptItems
<1>6. FlagOf(cobjs[N].flag, ItemsAt(l, h)) \in Flags
  BY <1>1, LastCobj DEF FlagOf, Flags
<1>7. c(h) \in Cobjs /\ c(h).items = ItemsAt(l, h) /\ c(h).ready = TRUE
  BY <1>5, <1>6, CobjFields
<1>8. InOrder(c(h).ready, c(h).items)
  BY <1>5, <1>7
<1>9. extent[N] \cap K \subseteq Items
  OBVIOUS
<1> HIDE DEF c
<1>10. QED
  BY <1>1, <1>3, <1>7, <1>8, <1>9, LastReplaced

\* An empty list is in any order.
LEMMA EmptyInOrder ==
  ASSUME NEW ready
  PROVE  InOrder(ready, <<>>)
<1>1. \A k \in DOMAIN <<>> : FALSE
  OBVIOUS
<1>2. QED
  BY <1>1 DEF InOrder

\* A failed filter leaves no items.
LEMMA FilterFailsKeeps == IInv /\ FilterFails => IInv'
<1> SUFFICES ASSUME IInv, FilterFails PROVE IInv'
  OBVIOUS
<1> DEFINE c == Cobj("error", <<>>, TRUE)
<1>1. Idle /\ N > 0 /\ UNCHANGED merge
      /\ cobjs' = [cobjs EXCEPT ![N] = c] /\ extent' = extent
  BY DEF FilterFails
<1>2. c \in Cobjs /\ c.items = <<>> /\ c.ready = TRUE
  BY DEF Cobj, Cobjs, Flags
<1>3. InOrder(c.ready, c.items)
  BY <1>2, EmptyInOrder
<1>4. extent' = [extent EXCEPT ![N] = extent[N]] /\ extent[N] \subseteq Items
  BY <1>1, LastCobj
<1> HIDE DEF c
<1>5. QED
  BY <1>1, <1>2, <1>3, <1>4, LastReplaced

\* The smaller of two items comes before what is left of the other list.
LEMMA SmallerIsBefore ==
  ASSUME NEW ready, NEW l \in Seq(Items), NEW m \in Seq(Items), InOrder(ready, m),
         ready \/ ItemsOf(l) \cap ItemsOf(m) = {},
         NEW i \in 1 .. Len(l), NEW j \in 1 .. Len(m), l[i] < m[j]
  PROVE  \A y \in Left(m, j) : Before(ready, l[i], y)
<1> SUFFICES ASSUME NEW q \in j .. Len(m) PROVE Before(ready, l[i], m[q])
  BY DEF Left
<1>1. /\ DOMAIN l = 1 .. Len(l) /\ DOMAIN m = 1 .. Len(m)
      /\ i \in DOMAIN l /\ j \in DOMAIN m /\ q \in DOMAIN m
      /\ l[i] \in Nat /\ m[j] \in Nat /\ m[q] \in Nat
  <2>1. Len(l) \in Nat /\ Len(m) \in Nat /\ q \in 1 .. Len(m)
    OBVIOUS
  <2>2. DOMAIN l = 1 .. Len(l) /\ DOMAIN m = 1 .. Len(m)
    OBVIOUS
  <2>3. l[i] \in Items
    OBVIOUS
  <2>4. m[j] \in Items
    OBVIOUS
  <2>5. m[q] \in Items
    BY <2>1
  <2>6. QED
    BY <2>1, <2>2, <2>3, <2>4, <2>5
<1>2. CASE ready
  <2>1. q = j \/ j < q
    BY <1>1
  <2>2. m[q] = m[j] \/ m[j] < m[q]
    BY <1>1, <1>2, <2>1 DEF InOrder, Before
  <2>3. QED
    BY <1>1, <1>2, <2>2 DEF Before
<1>3. CASE ~ready
  <2>1. l[i] \in ItemsOf(l) /\ m[q] \in ItemsOf(m)
    BY <1>1 DEF ItemsOf
  <2>2. QED
    BY <1>3, <2>1 DEF Before
<1>4. QED
  BY <1>2, <1>3

\* The lists merged ascend or have nothing in common.
LEMMA ReadyOrDisjoint ==
  ASSUME IInv, ~Idle
  PROVE  cobjs[N].ready \/ (merge.op = "union" /\ ItemsOf(a) \cap ItemsOf(b) = {})
  BY DEF IInv, Operands

\* The record of the operation under way after a step of its iterators.
LEMMA MergeRecord ==
  ASSUME IInv, ~Idle
  PROVE  merge = [op |-> merge.op, i |-> merge.i, j |-> merge.j, res |-> merge.res]
  BY DEF IInv, TypeOK

\* The first iterator goes on.
LEMMA FirstKeeps == IInv /\ (TakeFirst \/ RestOfFirst) => IInv'
<1> SUFFICES ASSUME IInv, TakeFirst \/ RestOfFirst PROVE IInv'
  OBVIOUS
<1> DEFINE new == IF merge.op = "intersection" THEN merge.res
                  ELSE Append(merge.res, a[merge.i])
<1>1. ~Idle /\ UNCHANGED <<cobjs, extent>> /\ merge.i <= Len(a)
  BY DEF TakeFirst, RestOfFirst, Both
<1>2. /\ a \in Seq(Items) /\ b \in Seq(Items) /\ merge.op \in Operations
      /\ InOrder(cobjs[N].ready, a) /\ InOrder(cobjs[N].ready, b)
      /\ merge.i \in 1 .. Len(a) /\ merge.i + 1 \in 1 .. Len(a) + 1
      /\ merge.j \in 1 .. Len(b) + 1 /\ merge.res \in Seq(Items)
      /\ Progress(cobjs[N].ready, merge.op, a, b, merge.i, merge.j, merge.res)
  BY <1>1, Operating
<1>3. merge' = [op |-> merge.op, i |-> merge.i + 1, j |-> merge.j, res |-> new]
  BY <1>1, MergeRecord DEF TakeFirst, RestOfFirst, Add
<1>4. \A y \in Left(b, merge.j) : Before(cobjs[N].ready, a[merge.i], y)
  <2>1. CASE TakeFirst
    <3>1. merge.j \in 1 .. Len(b) /\ a[merge.i] < b[merge.j]
      BY <1>2, <2>1 DEF TakeFirst, Both
    <3>2. QED
      BY <1>1, <1>2, <3>1, ReadyOrDisjoint, SmallerIsBefore
  <2>2. CASE RestOfFirst
    BY <1>2, <2>2, TakenAndLeft DEF RestOfFirst
  <2>3. QED
    BY <2>1, <2>2
<1>5. /\ Progress(cobjs[N].ready, merge.op, a, b, merge.i + 1, merge.j, new)
      /\ new \in Seq(Items)
  BY <1>2, <1>4, FirstTaken
<1> HIDE DEF new
<1>6. QED
  BY <1>1, <1>2, <1>3, <1>5, MergeKeeps

\* The second iterator goes on.
LEMMA SecondKeeps == IInv /\ (TakeSecond \/ RestOfSecond) => IInv'
<1> SUFFICES ASSUME IInv, TakeSecond \/ RestOfSecond PROVE IInv'
  OBVIOUS
<1> DEFINE new == IF merge.op = "union" THEN Append(merge.res, b[merge.j])
                  ELSE merge.res
<1>1. ~Idle /\ UNCHANGED <<cobjs, extent>> /\ merge.j <= Len(b)
  BY DEF TakeSecond, RestOfSecond, Both
<1>2. /\ a \in Seq(Items) /\ b \in Seq(Items) /\ merge.op \in Operations
      /\ InOrder(cobjs[N].ready, a) /\ InOrder(cobjs[N].ready, b)
      /\ merge.i \in 1 .. Len(a) + 1 /\ merge.j + 1 \in 1 .. Len(b) + 1
      /\ merge.j \in 1 .. Len(b) /\ merge.res \in Seq(Items)
      /\ Progress(cobjs[N].ready, merge.op, a, b, merge.i, merge.j, merge.res)
  BY <1>1, Operating
<1>3. merge' = [op |-> merge.op, i |-> merge.i, j |-> merge.j + 1, res |-> new]
  BY <1>1, MergeRecord DEF TakeSecond, RestOfSecond, Add
<1>4. \A x \in Left(a, merge.i) : Before(cobjs[N].ready, b[merge.j], x)
  <2>1. CASE TakeSecond
    <3>1. merge.i \in 1 .. Len(a) /\ a[merge.i] > b[merge.j]
      BY <1>2, <2>1 DEF TakeSecond, Both
    <3>2. a[merge.i] \in Nat /\ b[merge.j] \in Nat
      <4>1. a[merge.i] \in Items /\ b[merge.j] \in Items
        BY <1>2, <3>1
      <4>2. QED
        BY <4>1
    <3>3. cobjs[N].ready \/ ItemsOf(b) \cap ItemsOf(a) = {}
      BY <1>1, ReadyOrDisjoint
    <3>4. QED
      BY <1>2, <3>1, <3>2, <3>3, SmallerIsBefore
  <2>2. CASE RestOfSecond
    BY <1>2, <2>2, TakenAndLeft DEF RestOfSecond
  <2>3. QED
    BY <2>1, <2>2
<1>5. /\ Progress(cobjs[N].ready, merge.op, a, b, merge.i, merge.j + 1, new)
      /\ new \in Seq(Items)
  BY <1>2, <1>4, SecondTaken
<1> HIDE DEF new
<1>6. QED
  BY <1>1, <1>2, <1>3, <1>5, MergeKeeps

\* Both iterators go on.
LEMMA BothKeeps == IInv /\ TakeBoth => IInv'
<1> SUFFICES ASSUME IInv, TakeBoth PROVE IInv'
  OBVIOUS
<1> DEFINE new == IF merge.op = "complement" THEN merge.res
                  ELSE Append(merge.res, a[merge.i])
<1>1. /\ ~Idle /\ UNCHANGED <<cobjs, extent>> /\ a[merge.i] = b[merge.j]
      /\ merge.i <= Len(a) /\ merge.j <= Len(b)
  BY DEF TakeBoth, Both
<1>2. /\ a \in Seq(Items) /\ b \in Seq(Items) /\ merge.op \in Operations
      /\ InOrder(cobjs[N].ready, a) /\ InOrder(cobjs[N].ready, b)
      /\ merge.i \in 1 .. Len(a) /\ merge.i + 1 \in 1 .. Len(a) + 1
      /\ merge.j \in 1 .. Len(b) /\ merge.j + 1 \in 1 .. Len(b) + 1
      /\ merge.res \in Seq(Items) /\ cobjs[N].ready \in BOOLEAN
      /\ Progress(cobjs[N].ready, merge.op, a, b, merge.i, merge.j, merge.res)
  <2>1. /\ a \in Seq(Items) /\ b \in Seq(Items) /\ merge.op \in Operations
        /\ InOrder(cobjs[N].ready, a) /\ InOrder(cobjs[N].ready, b)
        /\ merge.i \in 1 .. Len(a) + 1 /\ merge.j \in 1 .. Len(b) + 1
        /\ merge.res \in Seq(Items) /\ cobjs[N] \in Cobjs
        /\ Progress(cobjs[N].ready, merge.op, a, b, merge.i, merge.j, merge.res)
    BY <1>1, Operating
  <2>2. cobjs[N].ready \in BOOLEAN
    BY <2>1 DEF Cobjs
  <2>3. Len(a) \in Nat /\ Len(b) \in Nat
    BY <2>1
  <2>4. /\ merge.i \in 1 .. Len(a) /\ merge.i + 1 \in 1 .. Len(a) + 1
        /\ merge.j \in 1 .. Len(b) /\ merge.j + 1 \in 1 .. Len(b) + 1
    BY <1>1, <2>1, <2>3
  <2>5. QED
    BY <2>1, <2>2, <2>4
<1>3. merge' = [op |-> merge.op, i |-> merge.i + 1, j |-> merge.j + 1, res |-> new]
  BY <1>1, MergeRecord DEF TakeBoth, Add
<1>4. cobjs[N].ready = TRUE
  <2>1. a[merge.i] \in ItemsOf(a) /\ a[merge.i] \in ItemsOf(b)
    BY <1>1, <1>2 DEF ItemsOf
  <2>2. QED
    BY <1>1, <1>2, <2>1, ReadyOrDisjoint
<1>5. /\ Progress(TRUE, merge.op, a, b, merge.i + 1, merge.j + 1, new)
      /\ new \in Seq(Items)
  <2>1. /\ InOrder(TRUE, a) /\ InOrder(TRUE, b)
        /\ Progress(TRUE, merge.op, a, b, merge.i, merge.j, merge.res)
    BY <1>2, <1>4
  <2>2. QED
    BY <1>1, <1>2, <2>1, BothTaken
<1> HIDE DEF new
<1>6. QED
  BY <1>1, <1>2, <1>3, <1>4, <1>5, MergeKeeps

\* The result has the order and the state of the operands.
LEMMA FinishKeeps == IInv /\ Finish => IInv'
<1> SUFFICES ASSUME IInv, Finish PROVE IInv'
  OBVIOUS
<1> DEFINE f == FlagOf(CombineFlags(merge.op, cobjs[N - 1].flag, cobjs[N].flag), merge.res)
           c == Cobj(f, merge.res, cobjs[N].ready)
           E == Combined(merge.op, extent[N - 1], extent[N])
<1>1. /\ ~Idle /\ merge' = NoMerge
      /\ cobjs' = Append(SubSeq(cobjs, 1, N - 2), c)
      /\ extent' = Append(SubSeq(extent, 1, N - 2), E)
  BY DEF Finish, MergeDone
<1>2. /\ N \in Nat /\ N > 1 /\ N - 2 \in 0 .. N
      /\ cobjs[N - 1] \in Cobjs /\ cobjs[N] \in Cobjs /\ merge.res \in Seq(Items)
      /\ InOrder(cobjs[N].ready, merge.res)
  BY <1>1, Operating DEF Progress
<1>3. f \in Flags /\ cobjs[N].ready \in BOOLEAN
  BY <1>2, FlagsCombine DEF Cobjs
<1>4. E \subseteq Items
  <2>1. extent[N - 1] \in SUBSET Items /\ extent[N] \in SUBSET Items
    BY <1>2 DEF IInv, TypeOK
  <2>2. QED
    BY <2>1 DEF Combined
<1> HIDE DEF f, E
<1>5. c \in Cobjs /\ c.items = merge.res /\ c.ready = cobjs[N].ready
  BY <1>2, <1>3, CobjFields
<1>6. InOrder(c.ready, c.items)
  BY <1>2, <1>5
<1> HIDE DEF c
<1>7. QED
  BY <1>1, <1>2, <1>4, <1>5, <1>6, Appended

\* Two objects and more are two operands.
LEMMA OperandsExist ==
  ASSUME IInv, N > 1
  PROVE  /\ cobjs[N - 1].ready \in BOOLEAN /\ cobjs[N].ready \in BOOLEAN
         /\ cobjs[N - 1].flag \in Flags /\ cobjs[N].flag \in Flags
         /\ extent[N - 1] \subseteq Items /\ extent[N] \subseteq Items
<1>1. /\ cobjs \in Seq(Cobjs) /\ extent \in Seq(SUBSET Items)
      /\ N \in Nat /\ N = Len(cobjs) /\ N = Len(extent)
      /\ N - 1 \in 1 .. N /\ N \in 1 .. N
  BY DEF IInv, TypeOK, N
<1>2. cobjs[N - 1] \in Cobjs /\ cobjs[N] \in Cobjs
  BY <1>1 DEF N
<1>3. extent[N - 1] \in SUBSET Items /\ extent[N] \in SUBSET Items
  BY <1>1
<1>4. QED
  BY <1>2, <1>3 DEF Cobjs

\* An operation starts with nothing taken and an empty result.
LEMMA StartKeeps ==
  ASSUME IInv, Idle, N > 1, UNCHANGED <<cobjs, extent>>,
         NEW op, op \in Operations, merge' = [NoMerge EXCEPT !.op = op],
         cobjs[N - 1].ready = cobjs[N].ready,
         cobjs[N].ready \/ (op = "union" /\ ItemsOf(a) \cap ItemsOf(b) = {})
  PROVE  IInv'
<1>1. /\ merge' = [op |-> op, i |-> 1, j |-> 1, res |-> <<>>]
      /\ merge'.op = op /\ merge'.i = 1 /\ merge'.j = 1 /\ merge'.res = <<>>
      /\ N' = N /\ a' = a /\ b' = b
  BY DEF NoMerge, N, a, b
<1>2. cobjs \in Seq(Cobjs) /\ N = Len(cobjs)
  BY DEF IInv, TypeOK, N
<1>3. cobjs[N - 1] \in Cobjs /\ cobjs[N] \in Cobjs
  BY <1>2
<1>4. a \in Seq(Items) /\ b \in Seq(Items) /\ 1 \in 1 .. Len(a) + 1 /\ 1 \in 1 .. Len(b) + 1
  BY <1>3 DEF Cobjs, a, b
<1>5. Taken(a, 1) = {} /\ Taken(b, 1) = {}
  BY <1>4, TakenAndLeft
<1>6. TypeOK'
  <2>1. op # "none" /\ op \in Operations \cup {"none"} /\ <<>> \in Seq(Items)
    BY DEF Operations
  <2>2. merge' \in [op : Operations \cup {"none"}, i : Nat \ {0}, j : Nat \ {0},
                   res : Seq(Items)]
    <3>1. 1 \in Nat \ {0}
      OBVIOUS
    <3>2. [op |-> op, i |-> 1, j |-> 1, res |-> <<>>]
             \in [op : Operations \cup {"none"}, i : Nat \ {0}, j : Nat \ {0}, res : Seq(Items)]
      BY <2>1, <3>1, Zenon
    <3>3. QED
      BY <1>1, <3>2
  <2>3. 1 <= Len(a) + 1 /\ 1 <= Len(b) + 1
    BY <1>4
  <2>4. /\ cobjs' \in Seq(Cobjs) /\ Len(extent') = N'
        /\ extent' \in Seq(SUBSET Items)
    BY <1>1 DEF IInv, TypeOK
  <2>5. QED
    BY <1>1, <2>1, <2>2, <2>3, <2>4 DEF TypeOK
<1>7. ListsInOrder'
  BY <1>1 DEF IInv, ListsInOrder
<1>8. Operands'
  BY <1>1 DEF Operands
<1>9. Separated'
  BY <1>1, <1>5 DEF Separated
<1>10. PartialResult'
  <2>1. ItemsOf(<<>>) = {}
    <3>1. \A k \in DOMAIN <<>> : FALSE
      OBVIOUS
    <3>2. QED
      BY <3>1 DEF ItemsOf
  <2>2. Combined(op, {}, {}) = {}
    BY DEF Combined
  <2>3. InOrder(cobjs[N].ready, <<>>)
    BY EmptyInOrder
  <2>4. QED
    BY <1>1, <1>5, <2>1, <2>2, <2>3 DEF PartialResult
<1>11. QED
  BY <1>6, <1>7, <1>8, <1>9, <1>10 DEF IInv

\* The operands of a set come from the cache, where lists ascend.
LEMMA StartSetKeeps == IInv /\ StartSet => IInv'
<1> SUFFICES ASSUME IInv, StartSet PROVE IInv'
  OBVIOUS
<1>1. PICK op \in Operations : merge' = [NoMerge EXCEPT !.op = op]
  BY DEF StartSet
<1>2. N > 1 => cobjs[N - 1].ready \in BOOLEAN /\ cobjs[N].ready \in BOOLEAN
  BY OperandsExist
<1>3. /\ Idle /\ N > 1 /\ UNCHANGED <<cobjs, extent>>
      /\ cobjs[N - 1].ready = cobjs[N].ready /\ cobjs[N].ready
  BY <1>2 DEF StartSet
<1>4. QED
  BY <1>1, <1>3, StartKeeps

\* The objects of two values of a variable are not stored and select disjoint
\* items, so their union starts in order too.
LEMMA StartUnionKeeps == IInv /\ ~Overlap /\ StartUnion => IInv'
<1> SUFFICES ASSUME IInv, ~Overlap, StartUnion PROVE IInv'
  OBVIOUS
<1>1. N > 1 => cobjs[N - 1].ready \in BOOLEAN /\ cobjs[N].ready \in BOOLEAN
  BY OperandsExist
<1>2. /\ Idle /\ N > 1 /\ UNCHANGED <<cobjs, extent>>
      /\ cobjs[N - 1].ready = cobjs[N].ready
      /\ ItemsOf(a) \cap ItemsOf(b) = {}
      /\ "union" \in Operations /\ merge' = [NoMerge EXCEPT !.op = "union"]
  BY <1>1 DEF StartUnion, Operations
<1>3. QED
  BY <1>2, StartKeeps
-----------------------------------------------------------------------------
(* What holds of every behaviour.                                          *)

\* IInv is an invariant if the values of a variable select disjoint items.
THEOREM IInvHolds == ASSUME ~Overlap PROVE Spec => []IInv
<1>1. Init => IInv
  <2> SUFFICES ASSUME Init PROVE IInv
    OBVIOUS
  <2>1. cobjs = <<>> /\ extent = <<>> /\ Idle /\ N = 0
    BY DEF Init, Idle, N
  <2>2. cobjs \in Seq(Cobjs) /\ extent \in Seq(SUBSET Items) /\ Len(extent) = N
    BY <2>1
  <2>3. merge \in [op : Operations \cup {"none"}, i : Nat \ {0}, j : Nat \ {0},
                   res : Seq(Items)]
    BY DEF Init, NoMerge
  <2>4. ListsInOrder
    BY <2>1 DEF ListsInOrder
  <2>5. QED
    BY <2>1, <2>2, <2>3, <2>4 DEF IInv, TypeOK, Operands, Separated, PartialResult
<1>2. IInv /\ [Next]_vars => IInv'
  <2> SUFFICES ASSUME IInv, [Next]_vars PROVE IInv'
    OBVIOUS
  <2>1. CASE Collect
    BY <2>1, CollectKeeps
  <2>2. CASE Store
    BY <2>2, StoreKeeps
  <2>3. CASE Filter
    BY <2>3, FilterKeeps
  <2>4. CASE FilterFails
    BY <2>4, FilterFailsKeeps
  <2>5. CASE StartSet
    BY <2>5, StartSetKeeps
  <2>6. CASE StartUnion
    BY <2>6, StartUnionKeeps
  <2>7. CASE TakeFirst \/ RestOfFirst
    BY <2>7, FirstKeeps
  <2>8. CASE TakeSecond \/ RestOfSecond
    BY <2>8, SecondKeeps
  <2>9. CASE TakeBoth
    BY <2>9, BothKeeps
  <2>10. CASE Finish
    BY <2>10, FinishKeeps
  <2>11. CASE UNCHANGED vars
    BY <2>11 DEF vars, IInv, TypeOK, ListsInOrder, Operands, Separated, PartialResult,
                 Idle, N, a, b
  <2>12. QED
    BY <2>1, <2>2, <2>3, <2>4, <2>5, <2>6, <2>7, <2>8, <2>9, <2>10, <2>11 DEF Next
<1>3. QED
  BY <1>1, <1>2, PTL DEF Spec

\* The iterators of a merge stay within their lists.
THEOREM TypeCorrect == ASSUME ~Overlap PROVE Spec => []TypeOK
<1>1. IInv => TypeOK
  BY DEF IInv
<1>2. QED
  BY <1>1, IInvHolds, PTL

\* Whatever probe_set_combine is given, it is ascending: a list sorted before
\* it is cached stays so through every filter and every operation.
THEOREM OperandsAscend == ASSUME ~Overlap PROVE Spec => []ReadyToMerge
<1>1. IInv => ReadyToMerge
  <2> SUFFICES ASSUME IInv, NEW k \in 1 .. N, cobjs[k].ready
               PROVE  Ascending(cobjs[k].items)
    BY DEF ReadyToMerge
  <2>1. InOrder(cobjs[k].ready, cobjs[k].items)
    BY DEF IInv, ListsInOrder
  <2>2. QED
    BY <2>1 DEF InOrder, Before, Ascending
<1>2. QED
  BY <1>1, IInvHolds, PTL

-----------------------------------------------------------------------------
(* Flags.                                                                  *)

\* Every table of probe_cobj_combine_flags is right about the operation.
LEMMA CombinedPromise ==
  ASSUME NEW op \in Operations, NEW f1 \in Flags, NEW f2 \in Flags,
         NEW X, NEW Y, NEW E1, NEW E2, Promise(f1, X, E1), Promise(f2, Y, E2)
  PROVE  Promise(CombineFlags(op, f1, f2), Combined(op, X, Y), Combined(op, E1, E2))
<1>1. /\ f1 \in {"complete", "does_not_exist", "not_applicable"} => X = E1
      /\ f1 # "error" => X \subseteq E1
      /\ f1 \in {"does_not_exist", "not_applicable"} => X = {} /\ E1 = {}
      /\ f1 = "not_collected" => X = {}
  BY DEF Promise, Flags
<1>2. /\ f2 \in {"complete", "does_not_exist", "not_applicable"} => Y = E2
      /\ f2 # "error" => Y \subseteq E2
      /\ f2 \in {"does_not_exist", "not_applicable"} => Y = {} /\ E2 = {}
      /\ f2 = "not_collected" => Y = {}
  BY DEF Promise, Flags
<1>3. Promise(UnionFlag(f1, f2), X \cup Y, E1 \cup E2)
  <2> DEFINE f == UnionFlag(f1, f2)
  <2>1. /\ f = "complete" => X = E1 /\ Y = E2
        /\ f = "incomplete" => X \subseteq E1 /\ Y \subseteq E2
        /\ f \in {"does_not_exist", "not_applicable"} =>
              X = {} /\ Y = {} /\ E1 = {} /\ E2 = {}
        /\ f = "not_collected" => X = {} /\ Y = {}
    BY <1>1, <1>2 DEF UnionFlag, Flags
  <2> HIDE DEF f
  <2>2. Promise(f, X \cup Y, E1 \cup E2)
    BY <2>1 DEF Promise
  <2>3. QED
    BY <2>2 DEF f
<1>4. Promise(IntersectionFlag(f1, f2), X \cap Y, E1 \cap E2)
  <2> DEFINE f == IntersectionFlag(f1, f2)
  <2>1. /\ f = "complete" => X = E1 /\ Y = E2
        /\ f = "incomplete" => X \subseteq E1 /\ Y \subseteq E2
        /\ f \in {"does_not_exist", "not_applicable"} =>
              (X = {} /\ E1 = {}) \/ (Y = {} /\ E2 = {})
        /\ f = "not_collected" => X = {} \/ Y = {}
    BY <1>1, <1>2 DEF IntersectionFlag, Flags
  <2> HIDE DEF f
  <2>2. Promise(f, X \cap Y, E1 \cap E2)
    BY <2>1 DEF Promise
  <2>3. QED
    BY <2>2 DEF f
<1>5. Promise(ComplementFlag(f1, f2), X \ Y, E1 \ E2)
  <2> DEFINE f == ComplementFlag(f1, f2)
  <2>1. /\ f = "complete" => X = E1 /\ Y = E2
        /\ f = "incomplete" => X \subseteq E1 /\ Y = E2
        /\ f \in {"does_not_exist", "not_applicable"} => X = {} /\ E1 = {}
        /\ f = "not_collected" => X = {}
    BY <1>1, <1>2 DEF ComplementFlag, Flags
  <2> HIDE DEF f
  <2>2. Promise(f, X \ Y, E1 \ E2)
    BY <2>1 DEF Promise
  <2>3. QED
    BY <2>2 DEF f
<1>6. QED
  BY <1>3, <1>4, <1>5 DEF CombineFlags, Combined, Operations

\* A complete object without items does not exist, and its promise says so.
LEMMA EmptyPromise ==
  ASSUME NEW f, NEW l, NEW E, Promise(f, ItemsOf(l), E)
  PROVE  Promise(FlagOf(f, l), ItemsOf(l), E)
<1>1. CASE f = "complete" /\ l = <<>>
  <2>1. \A k \in DOMAIN <<>> : FALSE
    OBVIOUS
  <2>2. ItemsOf(l) = {} /\ E = {}
    BY <1>1, <2>1 DEF ItemsOf, Promise
  <2>3. QED
    BY <1>1, <2>2 DEF FlagOf, Promise
<1>2. CASE ~(f = "complete" /\ l = <<>>)
  BY <1>2 DEF FlagOf
<1>3. QED
  BY <1>1, <1>2

\* The result of an operation is the operation of the results.
LEMMA ResultOfMerge ==
  ASSUME IInv, MergeDone
  PROVE  ItemsOf(merge.res) = Combined(merge.op, ItemsOf(a), ItemsOf(b))
<1>1. ~Idle
  BY DEF MergeDone
<1>2. QED
  BY <1>1, Operating, AllTaken DEF MergeDone

\* The promise of the last object is enough if the others are untouched.
LEMMA LastPromise ==
  ASSUME IInv, FlagsKeepPromise, NEW n, n \in 0 .. N, N' = n + 1,
         \A k \in 1 .. n : cobjs'[k] = cobjs[k] /\ extent'[k] = extent[k],
         Promise(cobjs'[n + 1].flag, ItemsOf(cobjs'[n + 1].items), extent'[n + 1])
  PROVE  FlagsKeepPromise'
<1>1. N \in Nat /\ n \in Nat
  BY DEF IInv, TypeOK, N
<1>2. \A k \in 1 .. n : k \in 1 .. N
  BY <1>1
<1>3. \A k \in 1 .. n + 1 : k = n + 1 \/ k \in 1 .. n
  BY <1>1
<1>4. \A k \in 1 .. n + 1 : Promise(cobjs'[k].flag, ItemsOf(cobjs'[k].items), extent'[k])
  BY <1>2, <1>3 DEF FlagsKeepPromise
<1>5. QED
  BY <1>4 DEF FlagsKeepPromise

\* So it is if the last object is replaced ...
LEMMA ReplacedPromise ==
  ASSUME IInv, FlagsKeepPromise, N > 0,
         NEW f, NEW l, NEW r, NEW E, Promise(f, ItemsOf(l), E),
         cobjs' = [cobjs EXCEPT ![N] = Cobj(f, l, r)],
         extent' = [extent EXCEPT ![N] = E]
  PROVE  FlagsKeepPromise'
<1>1. /\ cobjs \in Seq(Cobjs) /\ extent \in Seq(SUBSET Items)
      /\ N = Len(cobjs) /\ Len(extent) = Len(cobjs) /\ N \in Nat
      /\ N \in 1 .. N /\ N - 1 \in 0 .. N /\ (N - 1) + 1 = N
  BY DEF IInv, TypeOK, N
<1>2. /\ N' = N /\ cobjs'[N] = Cobj(f, l, r)
      /\ \A k \in 1 .. N - 1 : cobjs'[k] = cobjs[k]
  BY <1>1 DEF N
<1>3. extent'[N] = E /\ \A k \in 1 .. N - 1 : extent'[k] = extent[k]
  BY <1>1
<1>4. cobjs'[N].flag = f /\ cobjs'[N].items = l
  BY <1>2 DEF Cobj
<1>5. PICK n \in 0 .. N : n = N - 1 /\ n + 1 = N
  BY <1>1
<1>6. N' = n + 1 /\ \A k \in 1 .. n : cobjs'[k] = cobjs[k] /\ extent'[k] = extent[k]
  BY <1>2, <1>3, <1>5
<1>7. Promise(cobjs'[n + 1].flag, ItemsOf(cobjs'[n + 1].items), extent'[n + 1])
  BY <1>3, <1>4, <1>5
<1>8. QED
  BY <1>6, <1>7, LastPromise

\* ... and if it is appended to the first n.
LEMMA AppendedPromise ==
  ASSUME IInv, FlagsKeepPromise, NEW n, n \in 0 .. N,
         NEW f, NEW l, NEW r, NEW E, Promise(f, ItemsOf(l), E),
         cobjs' = Append(SubSeq(cobjs, 1, n), Cobj(f, l, r)),
         extent' = Append(SubSeq(extent, 1, n), E)
  PROVE  FlagsKeepPromise'
<1>1. /\ cobjs \in Seq(Cobjs) /\ extent \in Seq(SUBSET Items)
      /\ N = Len(cobjs) /\ Len(extent) = Len(cobjs) /\ N \in Nat /\ n \in Nat
  BY DEF IInv, TypeOK, N
<1>2. /\ SubSeq(cobjs, 1, n) \in Seq(Cobjs) /\ Len(SubSeq(cobjs, 1, n)) = n
      /\ \A k \in 1 .. n : SubSeq(cobjs, 1, n)[k] = cobjs[k]
  BY <1>1
<1>3. /\ SubSeq(extent, 1, n) \in Seq(SUBSET Items) /\ Len(SubSeq(extent, 1, n)) = n
      /\ \A k \in 1 .. n : SubSeq(extent, 1, n)[k] = extent[k]
  BY <1>1
<1>4. /\ N' = n + 1 /\ cobjs'[n + 1] = Cobj(f, l, r)
      /\ \A k \in 1 .. n : cobjs'[k] = cobjs[k]
  BY <1>1, <1>2 DEF N
<1>5. extent'[n + 1] = E /\ \A k \in 1 .. n : extent'[k] = extent[k]
  BY <1>1, <1>3
<1>6. cobjs'[n + 1].flag = f /\ cobjs'[n + 1].items = l
  BY <1>4 DEF Cobj
<1>7. QED
  BY <1>4, <1>5, <1>6, LastPromise

\* No step makes a flag promise more than its object keeps.
LEMMA PromiseKept == IInv /\ ~Overlap /\ FlagsKeepPromise /\ [Next]_vars => FlagsKeepPromise'
<1> SUFFICES ASSUME IInv, ~Overlap, FlagsKeepPromise, [Next]_vars
             PROVE  FlagsKeepPromise'
  OBVIOUS
<1>1. CASE UNCHANGED <<cobjs, extent>>
  BY <1>1 DEF FlagsKeepPromise, N
<1>2. CASE Collect
  <2>1. PICK l \in Lists, f \in Flags, E \in SUBSET Items :
          /\ Promise(f, ItemsOf(l), E)
          /\ cobjs' = Append(cobjs, Cobj(f, l, FALSE))
          /\ extent' = Append(extent, E)
    BY <1>2 DEF Collect
  <2>2. /\ cobjs \in Seq(Cobjs) /\ extent \in Seq(SUBSET Items)
        /\ N = Len(cobjs) /\ Len(extent) = N /\ N \in 0 .. N
    BY DEF IInv, TypeOK, N
  <2>3. SubSeq(cobjs, 1, N) = cobjs /\ SubSeq(extent, 1, N) = extent
    BY <2>2
  <2>4. QED
    BY <2>1, <2>2, <2>3, AppendedPromise
<1>3. CASE Store
  <2>1. /\ N > 0 /\ ~cobjs[N].ready /\ UNCHANGED extent
        /\ cobjs' = [cobjs EXCEPT ![N] =
                       Cobj(cobjs[N].flag, Sorted(cobjs[N].items), TRUE)]
    BY <1>3 DEF Store
  <2>2. /\ N \in 1 .. N /\ cobjs[N].items \in Seq(Items) /\ InOrder(FALSE, cobjs[N].items)
        /\ extent' = [extent EXCEPT ![N] = extent[N]]
    <3>1. /\ N \in 1 .. N /\ cobjs[N].items \in Seq(Items) /\ cobjs[N].ready \in BOOLEAN
          /\ InOrder(cobjs[N].ready, cobjs[N].items)
          /\ extent' = [extent EXCEPT ![N] = extent[N]]
      BY <2>1, LastCobj
    <3>2. cobjs[N].ready = FALSE
      BY <2>1, <3>1
    <3>3. QED
      BY <3>1, <3>2
  <2>3. ItemsOf(Sorted(cobjs[N].items)) = ItemsOf(cobjs[N].items)
    <3>1. PICK l \in Seq(Items) : l = cobjs[N].items
      BY <2>2
    <3>2. QED
      BY <2>2, <3>1, SortedAscends
  <2>4. Promise(cobjs[N].flag, ItemsOf(Sorted(cobjs[N].items)), extent[N])
    BY <2>2, <2>3 DEF FlagsKeepPromise
  <2>5. QED
    BY <2>1, <2>2, <2>4, ReplacedPromise
<1>4. CASE Filter
  <2> DEFINE l == cobjs[N].items
             c(h) == Cobj(FlagOf(cobjs[N].flag, ItemsAt(l, h)), ItemsAt(l, h), TRUE)
  <2>1. N > 0 /\ cobjs[N].ready
    BY <1>4 DEF Filter
  <2>2. PICK K \in SUBSET Items :
          \E h \in [1 .. Cardinality(Places(l, K)) -> Places(l, K)] :
            /\ Ascending(h)
            /\ cobjs' = [cobjs EXCEPT ![N] = c(h)]
            /\ extent' = [extent EXCEPT ![N] = extent[N] \cap K]
    BY <1>4 DEF Filter, Places, ItemsAt
  <2>3. PICK h \in [1 .. Cardinality(Places(l, K)) -> Places(l, K)] :
            /\ Ascending(h)
            /\ cobjs' = [cobjs EXCEPT ![N] = c(h)]
            /\ extent' = [extent EXCEPT ![N] = extent[N] \cap K]
    BY <2>2
  <2>4. l \in Seq(Items) /\ InOrder(TRUE, l) /\ N \in 1 .. N
    BY <2>1, LastCobj
  <2>5. ItemsOf(ItemsAt(l, h)) = ItemsOf(l) \cap K
    BY <2>3, <2>4, KeptItems
  <2>6. Promise(cobjs[N].flag, ItemsOf(l), extent[N])
    BY <2>4 DEF FlagsKeepPromise
  <2>7. Promise(cobjs[N].flag, ItemsOf(ItemsAt(l, h)), extent[N] \cap K)
    BY <2>5, <2>6 DEF Promise
  <2>8. Promise(FlagOf(cobjs[N].flag, ItemsAt(l, h)), ItemsOf(ItemsAt(l, h)), extent[N] \cap K)
    BY <2>7, EmptyPromise
  <2> HIDE DEF l
  <2>9. QED
    BY <2>1, <2>3, <2>8, ReplacedPromise
<1>5. CASE FilterFails
  <2>1. /\ N > 0 /\ UNCHANGED extent /\ cobjs' = [cobjs EXCEPT ![N] = Cobj("error", <<>>, TRUE)]
    BY <1>5 DEF FilterFails
  <2>2. extent' = [extent EXCEPT ![N] = extent[N]]
    BY <2>1, LastCobj
  <2>3. Promise("error", ItemsOf(<<>>), extent[N])
    BY DEF Promise
  <2>4. QED
    BY <2>1, <2>2, <2>3, ReplacedPromise
<1>6. CASE Finish
  <2> DEFINE f == CombineFlags(merge.op, cobjs[N - 1].flag, cobjs[N].flag)
             E == Combined(merge.op, extent[N - 1], extent[N])
  <2>1. /\ MergeDone /\ ~Idle
        /\ cobjs' = Append(SubSeq(cobjs, 1, N - 2),
                           Cobj(FlagOf(f, merge.res), merge.res, cobjs[N].ready))
        /\ extent' = Append(SubSeq(extent, 1, N - 2), E)
    BY <1>6 DEF Finish, MergeDone
  <2>2. /\ N \in Nat /\ N > 1 /\ N - 2 \in 0 .. N /\ N - 1 \in 1 .. N /\ N \in 1 .. N
        /\ merge.op \in Operations
        /\ cobjs[N - 1].flag \in Flags /\ cobjs[N].flag \in Flags
    <3>1. N \in Nat /\ N > 1 /\ merge.op \in Operations
      BY <2>1, Operating
    <3>2. cobjs[N - 1].flag \in Flags /\ cobjs[N].flag \in Flags
      BY <3>1, OperandsExist
    <3>3. QED
      BY <3>1, <3>2
  <2>3. /\ Promise(cobjs[N - 1].flag, ItemsOf(a), extent[N - 1])
        /\ Promise(cobjs[N].flag, ItemsOf(b), extent[N])
    BY <2>2 DEF FlagsKeepPromise, a, b
  <2>4. Promise(f, Combined(merge.op, ItemsOf(a), ItemsOf(b)), E)
    BY <2>2, <2>3, CombinedPromise
  <2>5. Promise(f, ItemsOf(merge.res), E)
    BY <2>1, <2>4, ResultOfMerge
  <2> HIDE DEF f, E
  <2>6. Promise(FlagOf(f, merge.res), ItemsOf(merge.res), E)
    BY <2>5, EmptyPromise
  <2>7. QED
    BY <2>1, <2>2, <2>6, AppendedPromise
<1>7. QED
  BY <1>1, <1>2, <1>3, <1>4, <1>5, <1>6
     DEF Next, vars, StartSet, StartUnion, TakeFirst, TakeSecond, TakeBoth,
         RestOfFirst, RestOfSecond

\* What a flag says of a set is true, whatever was combined to it.
THEOREM FlagsAreTrue == ASSUME ~Overlap PROVE Spec => []FlagsKeepPromise
<1>1. Init => FlagsKeepPromise
  BY DEF Init, FlagsKeepPromise, N
<1>2. IInv /\ FlagsKeepPromise /\ [Next]_vars => FlagsKeepPromise'
  BY PromiseKept
<1>3. QED
  BY <1>1, <1>2, IInvHolds, PTL DEF Spec

-----------------------------------------------------------------------------
(* The refinement.                                                         *)

\* The sets that objects stand for.
SetsOf(cs) == [k \in 1 .. Len(cs) |-> ItemsOf(cs[k].items)]

\* Sequences of the same length with the same elements are the same.
LEMMA SameSequence ==
  ASSUME NEW S, NEW s \in Seq(S), NEW t \in Seq(S), Len(s) = Len(t),
         \A k \in 1 .. Len(s) : s[k] = t[k]
  PROVE  s = t
  OBVIOUS

\* They are a sequence as long as that of the objects.
LEMMA SetsType ==
  ASSUME NEW cs \in Seq(Cobjs)
  PROVE  /\ SetsOf(cs) \in Seq(SUBSET Items) /\ Len(SetsOf(cs)) = Len(cs) /\ Len(cs) \in Nat
         /\ \A k \in 1 .. Len(cs) : SetsOf(cs)[k] = ItemsOf(cs[k].items)
                                   /\ SetsOf(cs)[k] \subseteq Items
<1>1. Len(cs) \in Nat
  OBVIOUS
<1>2. \A k \in 1 .. Len(cs) : ItemsOf(cs[k].items) \subseteq Items
  <2> SUFFICES ASSUME NEW k \in 1 .. Len(cs) PROVE ItemsOf(cs[k].items) \subseteq Items
    OBVIOUS
  <2>1. cs[k] \in Cobjs
    OBVIOUS
  <2>2. cs[k].items \in Seq(Items)
    BY <2>1 DEF Cobjs
  <2>3. QED
    BY <2>2 DEF ItemsOf
<1>3. SetsOf(cs) \in [1 .. Len(cs) -> SUBSET Items]
  BY <1>2 DEF SetsOf
<1>4. QED
  BY <1>1, <1>2, <1>3 DEF SetsOf

\* A new object after the first n is a new set after the first n.
LEMMA SetAppended ==
  ASSUME NEW cs \in Seq(Cobjs), NEW n \in 0 .. Len(cs), NEW c \in Cobjs
  PROVE  SetsOf(Append(SubSeq(cs, 1, n), c)) = Append(SubSeq(SetsOf(cs), 1, n), ItemsOf(c.items))
<1> DEFINE new == Append(SubSeq(cs, 1, n), c)
           sets == SetsOf(cs)
           X == ItemsOf(c.items)
<1>1. /\ sets \in Seq(SUBSET Items) /\ Len(sets) = Len(cs) /\ Len(cs) \in Nat /\ n \in Nat
      /\ \A k \in 1 .. n : k \in 1 .. Len(cs)
      /\ \A k \in 1 .. Len(cs) : sets[k] = ItemsOf(cs[k].items)
  BY SetsType
<1>2. /\ SubSeq(cs, 1, n) \in Seq(Cobjs) /\ Len(SubSeq(cs, 1, n)) = n
      /\ \A k \in 1 .. n : SubSeq(cs, 1, n)[k] = cs[k]
  BY <1>1
<1>3. /\ new \in Seq(Cobjs) /\ Len(new) = n + 1 /\ new[n + 1] = c
      /\ \A k \in 1 .. n : new[k] = cs[k]
  BY <1>1, <1>2
<1> HIDE DEF new, sets, X
<1>4. /\ SubSeq(sets, 1, n) \in Seq(SUBSET Items) /\ Len(SubSeq(sets, 1, n)) = n
      /\ \A k \in 1 .. n : SubSeq(sets, 1, n)[k] = sets[k]
  BY <1>1
<1>5. X \subseteq Items
  <2>1. c.items \in Seq(Items)
    BY DEF Cobjs
  <2>2. QED
    BY <2>1 DEF ItemsOf, X
<1>6. /\ Append(SubSeq(sets, 1, n), X) \in Seq(SUBSET Items)
      /\ Len(Append(SubSeq(sets, 1, n), X)) = n + 1
      /\ Append(SubSeq(sets, 1, n), X)[n + 1] = X
      /\ \A k \in 1 .. n : Append(SubSeq(sets, 1, n), X)[k] = sets[k]
  BY <1>1, <1>4, <1>5
<1>7. /\ SetsOf(new) \in Seq(SUBSET Items) /\ Len(SetsOf(new)) = n + 1
      /\ \A k \in 1 .. n + 1 : SetsOf(new)[k] = ItemsOf(new[k].items)
  BY <1>3, SetsType
<1>8. \A k \in 1 .. n + 1 : k = n + 1 \/ k \in 1 .. n
  BY <1>1
<1>9. \A k \in 1 .. n + 1 : SetsOf(new)[k] = Append(SubSeq(sets, 1, n), X)[k]
  BY <1>1, <1>3, <1>6, <1>7, <1>8 DEF X
<1>10. SetsOf(new) = Append(SubSeq(sets, 1, n), X)
  BY <1>6, <1>7, <1>9, SameSequence
<1>11. QED
  BY <1>10 DEF new, sets, X

\* Another last object is another last set.
LEMMA SetReplaced ==
  ASSUME NEW cs \in Seq(Cobjs), cs # <<>>, NEW c \in Cobjs
  PROVE  /\ SetsOf([cs EXCEPT ![Len(cs)] = c])
               = [SetsOf(cs) EXCEPT ![Len(cs)] = ItemsOf(c.items)]
         /\ ItemsOf(c.items) = ItemsOf(cs[Len(cs)].items)
               => SetsOf([cs EXCEPT ![Len(cs)] = c]) = SetsOf(cs)
<1> DEFINE new == [cs EXCEPT ![Len(cs)] = c]
<1>1. /\ new \in Seq(Cobjs) /\ Len(new) = Len(cs) /\ Len(cs) \in 1 .. Len(cs)
      /\ \A k \in 1 .. Len(cs) : new[k] = IF k = Len(cs) THEN c ELSE cs[k]
  OBVIOUS
<1> HIDE DEF new
<1>2. SetsOf(new) = [SetsOf(cs) EXCEPT ![Len(cs)] = ItemsOf(c.items)]
  BY <1>1 DEF SetsOf
<1>3. ItemsOf(c.items) = ItemsOf(cs[Len(cs)].items) => SetsOf(new) = SetsOf(cs)
  BY <1>1 DEF SetsOf
<1>4. QED
  BY <1>2, <1>3 DEF new

\* Every step of the code is a step of the algebra or leaves its sets alone.
LEMMA StepRefines ==
  ASSUME IInv, [Next]_vars
  PROVE  \/ Algebra!Next
         \/ SetsOf(cobjs)' = SetsOf(cobjs)
<1>1. /\ cobjs \in Seq(Cobjs) /\ extent \in Seq(SUBSET Items)
      /\ N = Len(cobjs) /\ N \in Nat
  BY DEF IInv, TypeOK, N
<1>2. /\ SetsOf(cobjs) \in Seq(SUBSET Items) /\ Len(SetsOf(cobjs)) = N
      /\ \A k \in 1 .. N : SetsOf(cobjs)[k] = ItemsOf(cobjs[k].items)
                          /\ SetsOf(cobjs)[k] \subseteq Items
  BY <1>1, SetsType
<1>3. CASE UNCHANGED cobjs
  BY <1>3 DEF SetsOf
<1>4. CASE Collect
  <2>1. PICK l \in Lists, f \in Flags : cobjs' = Append(cobjs, Cobj(f, l, FALSE))
    BY <1>4 DEF Collect
  <2> DEFINE c == Cobj(f, l, FALSE)
  <2>2. l \in Seq(Items)
    BY ListIsDistinct
  <2>3. c \in Cobjs /\ c.items = l
    BY <2>2, CobjFields
  <2>4. ItemsOf(l) \in SUBSET Items
    BY <2>2 DEF ItemsOf
  <2>5. SubSeq(cobjs, 1, N) = cobjs /\ SubSeq(SetsOf(cobjs), 1, N) = SetsOf(cobjs)
        /\ N \in 0 .. Len(cobjs)
    BY <1>1, <1>2
  <2>6. SetsOf(Append(SubSeq(cobjs, 1, N), c)) = Append(SubSeq(SetsOf(cobjs), 1, N), ItemsOf(c.items))
    BY <1>1, <2>3, <2>5, SetAppended
  <2>7. SetsOf(cobjs') = Append(SetsOf(cobjs), ItemsOf(l))
    BY <2>1, <2>3, <2>5, <2>6
  <2>8. Algebra!Collect
    BY <2>4, <2>7 DEF Algebra!Collect, SetsOf, N
  <2>9. QED
    BY <2>8 DEF Algebra!Next
<1>5. CASE Store
  <2> DEFINE c == Cobj(cobjs[N].flag, Sorted(cobjs[N].items), TRUE)
  <2>1. N > 0 /\ ~cobjs[N].ready /\ cobjs' = [cobjs EXCEPT ![N] = c]
    BY <1>5 DEF Store
  <2>2. /\ cobjs[N].items \in Seq(Items) /\ cobjs[N].flag \in Flags
        /\ cobjs[N].ready \in BOOLEAN /\ InOrder(cobjs[N].ready, cobjs[N].items)
    BY <2>1, LastCobj
  <2>3. cobjs[N].ready = FALSE
    BY <2>1, <2>2
  <2>4. /\ Sorted(cobjs[N].items) \in Seq(Items)
        /\ ItemsOf(Sorted(cobjs[N].items)) = ItemsOf(cobjs[N].items)
    <3>1. PICK l \in Seq(Items) : l = cobjs[N].items /\ InOrder(FALSE, l)
      BY <2>2, <2>3
    <3>2. QED
      BY <3>1, SortedAscends
  <2>5. c \in Cobjs /\ ItemsOf(c.items) = ItemsOf(cobjs[N].items)
    BY <2>2, <2>4, CobjFields
  <2> HIDE DEF c
  <2>6. SetsOf(cobjs') = SetsOf(cobjs)
    <3>1. /\ cobjs # <<>> /\ cobjs' = [cobjs EXCEPT ![Len(cobjs)] = c]
          /\ ItemsOf(c.items) = ItemsOf(cobjs[Len(cobjs)].items)
      BY <1>1, <2>1, <2>5
    <3>2. SetsOf([cobjs EXCEPT ![Len(cobjs)] = c]) = SetsOf(cobjs)
      BY <1>1, <2>5, <3>1, SetReplaced
    <3>3. QED
      BY <3>1, <3>2
  <2>7. QED
    BY <2>6
<1>6. ASSUME NEW K \in SUBSET Items, NEW c \in Cobjs, N > 0,
             cobjs' = [cobjs EXCEPT ![N] = c],
             ItemsOf(c.items) = ItemsOf(cobjs[N].items) \cap K
      PROVE  Algebra!Filter
  <2>1. SetsOf(cobjs') = [SetsOf(cobjs) EXCEPT ![N] = ItemsOf(c.items)]
    <3>1. cobjs # <<>> /\ cobjs' = [cobjs EXCEPT ![Len(cobjs)] = c]
      BY <1>1, <1>6
    <3>2. SetsOf([cobjs EXCEPT ![Len(cobjs)] = c])
            = [SetsOf(cobjs) EXCEPT ![Len(cobjs)] = ItemsOf(c.items)]
      BY <1>1, <3>1, SetReplaced
    <3>3. QED
      BY <1>1, <3>1, <3>2
  <2>2. SetsOf(cobjs)[N] = ItemsOf(cobjs[N].items)
    BY <1>1, <1>2, <1>6
  <2>3. SetsOf(cobjs') = [SetsOf(cobjs) EXCEPT ![Len(SetsOf(cobjs))] = @ \cap K]
    BY <1>2, <1>6, <2>1, <2>2
  <2>4. SetsOf(cobjs) # <<>>
    BY <1>2, <1>6
  <2>5. QED
    BY <2>3, <2>4 DEF Algebra!Filter, SetsOf, N
<1>7. CASE Filter
  <2> DEFINE l == cobjs[N].items
             c(h) == Cobj(FlagOf(cobjs[N].flag, ItemsAt(l, h)), ItemsAt(l, h), TRUE)
  <2>1. N > 0 /\ cobjs[N].ready
    BY <1>7 DEF Filter
  <2>2. PICK K \in SUBSET Items :
          \E h \in [1 .. Cardinality(Places(l, K)) -> Places(l, K)] :
            Ascending(h) /\ cobjs' = [cobjs EXCEPT ![N] = c(h)]
    BY <1>7 DEF Filter, Places, ItemsAt
  <2>3. PICK h \in [1 .. Cardinality(Places(l, K)) -> Places(l, K)] :
            Ascending(h) /\ cobjs' = [cobjs EXCEPT ![N] = c(h)]
    BY <2>2
  <2>4. l \in Seq(Items) /\ InOrder(TRUE, l) /\ cobjs[N].flag \in Flags
    BY <2>1, LastCobj
  <2>5. ItemsAt(l, h) \in Seq(Items) /\ ItemsOf(ItemsAt(l, h)) = ItemsOf(l) \cap K
    BY <2>3, <2>4, KeptItems
  <2>6. FlagOf(cobjs[N].flag, ItemsAt(l, h)) \in Flags
    BY <2>4 DEF FlagOf, Flags
  <2>7. c(h) \in Cobjs /\ c(h).items = ItemsAt(l, h)
    BY <2>5, <2>6, CobjFields
  <2>8. ItemsOf(c(h).items) = ItemsOf(cobjs[N].items) \cap K
    BY <2>5, <2>7
  <2> HIDE DEF c, l
  <2>9. QED
    BY <1>6, <2>1, <2>3, <2>7, <2>8 DEF Algebra!Next
<1>8. CASE FilterFails
  <2> DEFINE c == Cobj("error", <<>>, TRUE)
  <2>1. N > 0 /\ cobjs' = [cobjs EXCEPT ![N] = c]
    BY <1>8 DEF FilterFails
  <2>2. c \in Cobjs /\ c.items = <<>>
    BY DEF Cobj, Cobjs, Flags
  <2>3. \A k \in DOMAIN <<>> : FALSE
    OBVIOUS
  <2>4. ItemsOf(c.items) = ItemsOf(cobjs[N].items) \cap {}
    BY <2>2, <2>3 DEF ItemsOf
  <2> HIDE DEF c
  <2>5. QED
    BY <1>6, <2>1, <2>2, <2>4 DEF Algebra!Next
<1>9. CASE Finish
  <2> DEFINE f == FlagOf(CombineFlags(merge.op, cobjs[N - 1].flag, cobjs[N].flag), merge.res)
             c == Cobj(f, merge.res, cobjs[N].ready)
  <2>1. MergeDone /\ ~Idle /\ cobjs' = Append(SubSeq(cobjs, 1, N - 2), c)
    BY <1>9 DEF Finish, MergeDone
  <2>2. /\ N > 1 /\ N - 2 \in 0 .. Len(cobjs) /\ N - 1 \in 1 .. N /\ N \in 1 .. N
        /\ merge.op \in Operations /\ merge.res \in Seq(Items)
        /\ cobjs[N - 1].flag \in Flags /\ cobjs[N].flag \in Flags
        /\ cobjs[N].ready \in BOOLEAN
    BY <1>1, <2>1, Operating, OperandsExist
  <2>3. f \in Flags
    BY <2>2, FlagsCombine
  <2> HIDE DEF f
  <2>4. c \in Cobjs /\ c.items = merge.res
    BY <2>2, <2>3, CobjFields
  <2>5. /\ SetsOf(cobjs)[N - 1] = ItemsOf(a) /\ SetsOf(cobjs)[N] = ItemsOf(b)
    BY <1>2, <2>2 DEF a, b
  <2>6. ItemsOf(c.items)
          = Algebra!Apply(merge.op, SetsOf(cobjs)[N - 1], SetsOf(cobjs)[N])
    BY <2>1, <2>4, <2>5, ResultOfMerge DEF Combined, Algebra!Apply
  <2> HIDE DEF c
  <2>7. SetsOf(cobjs') = Append(SubSeq(SetsOf(cobjs), 1, N - 2), ItemsOf(c.items))
    BY <1>1, <2>1, <2>2, <2>4, SetAppended
  <2>8. Algebra!Combine
    <3>1. merge.op \in Algebra!Operations
      BY <2>2 DEF Operations, Algebra!Operations
    <3>2. SetsOf(cobjs') =
            Append(SubSeq(SetsOf(cobjs), 1, Len(SetsOf(cobjs)) - 2),
                   Algebra!Apply(merge.op, SetsOf(cobjs)[Len(SetsOf(cobjs)) - 1],
                                 SetsOf(cobjs)[Len(SetsOf(cobjs))]))
      BY <1>2, <2>6, <2>7
    <3>3. Len(SetsOf(cobjs)) > 1
      BY <1>2, <2>2
    <3>4. QED
      BY <3>1, <3>2, <3>3 DEF Algebra!Combine, SetsOf, N
  <2>9. QED
    BY <2>8 DEF Algebra!Next
<1>10. QED
  BY <1>3, <1>4, <1>5, <1>7, <1>8, <1>9
     DEF Next, vars, StartSet, StartUnion, TakeFirst, TakeSecond, TakeBoth,
         RestOfFirst, RestOfSecond

\* One pass over sorted lists computes the operations of the language: the
\* objects of a probe behave as the sets that their items form.
THEOREM SetAlgebraImplemented == ASSUME ~Overlap PROVE Spec => ImplementsSetAlgebra
<1>1. Init => Algebra!Init
  BY DEF Init, Algebra!Init, N
<1>2. IInv /\ [Next]_vars => [Algebra!Next]_([k \in 1 .. N |-> ItemsOf(cobjs[k].items)])
  BY StepRefines DEF SetsOf, N
<1>3. QED
  BY <1>1, <1>2, IInvHolds, PTL DEF Spec, ImplementsSetAlgebra, Algebra!Spec
=============================================================================
