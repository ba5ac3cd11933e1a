----------------------------- MODULE ListSort ------------------------------
(***************************************************************************)
(* SEXP_list_sort of sexp-manip.c.  A list is a chain of blocks with 2, 4, *)
(* 8 ... elements.  Each block is sorted by qsort; then the positions of   *)
(* all blocks but the last are filled from left to right: the smallest     *)
(* head of the later blocks, if smaller, changes places with the element,  *)
(* which is inserted where oscap_bfind_i says.                             *)
(***************************************************************************)
EXTENDS Integers, SequencesExt

\* Position of the first element of block b, counted from 1.
BlockStart(b) == 2 ^ b - 1
BlockOf(g) == CHOOSE b \in 1 .. g : BlockStart(b) <= g /\ g < BlockStart(b + 1)
Blocks(l) == IF l = <<>> THEN 0 ELSE BlockOf(Len(l))
BlockEnd(l, b) == IF b < Blocks(l) THEN BlockStart(b + 1) - 1 ELSE Len(l)

SortBlocks(l) ==
  FlattenSeq([b \in 1 .. Blocks(l) |->
                SortSeq(SubSeq(l, BlockStart(b), BlockEnd(l, b)), LAMBDA x, y : x < y)])

\* oscap_bfind_i on the w elements of s after the first from: how many of
\* them come before key.  When it meets key itself it leaves *save alone.
RECURSIVE Bfind(_, _, _, _)
Bfind(s, key, from, w) ==
  LET half == w \div 2
      x == s[from + half + 1]
  IN CASE w = 0 -> from
       [] w > 0 /\ key > x -> Bfind(s, key, from + half + 1, w - half - 1)
       [] w > 0 /\ key < x -> Bfind(s, key, from, half)
       [] OTHER -> 0

\* Elements a .. z of l without the first, x inserted before the others
\* that Bfind counts.
Insert(l, a, z, x) ==
  LET d == Bfind(SubSeq(l, a + 1, z), x, 0, z - a)
  IN [g \in DOMAIN l |-> CASE a <= g /\ g < a + d -> l[g + 1]
                           [] g = a + d -> x
                           [] OTHER -> l[g]]

\* One turn of the while loop, for position g.
Place(l, g) ==
  LET heads == {BlockStart(b) : b \in BlockOf(g) + 1 .. Blocks(l)}
      h == CHOOSE h \in heads : \A k \in heads :
              l[h] < l[k] \/ (l[h] = l[k] /\ h <= k)
  IN IF heads = {} \/ l[h] >= l[g] THEN l
     ELSE Insert([l EXCEPT ![g] = l[h]], h, BlockEnd(l, BlockOf(h)), l[g])

SEXP_list_sort(l) ==
  FoldLeft(Place, SortBlocks(l), [g \in DOMAIN l |-> g])
=============================================================================
