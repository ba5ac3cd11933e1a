----------------------------- MODULE Descriptors -----------------------------
(***************************************************************************)
(* The numbers of a context's connections: SEAP/seap-descriptor.c over     *)
(* SEAP/generic/bitmap.c.  t = [cells, open]: the bits set in each cell    *)
(* that the bitmap has got so far, and the descriptors in the tree.        *)
(***************************************************************************)
EXTENDS Integers, Sequences, SequencesExt, FiniteSetsExt

CONSTANTS CellSize, Size   \* the bits of a cell, the most cells

Bits == 0 .. CellSize - 1
Cell(bitn) == bitn \div CellSize + 1
Bit(bitn) == bitn % CellSize

bitmap_set(cells, bitn) ==
  LET grown == cells \o [i \in 1 .. Cell(bitn) - Len(cells) |-> {}]
  IN [grown EXCEPT ![Cell(bitn)] = @ \cup {Bit(bitn)}]

\* Empty cells at the end are given up; there is always one that is not.
bitmap_unset(cells, bitn) ==
  LET cleared == [cells EXCEPT ![Cell(bitn)] = @ \ {Bit(bitn)}]
      used == {i \in DOMAIN cleared : cleared[i] # {}}
  IN IF Cell(bitn) > Len(cells) THEN cells
     ELSE IF Cell(bitn) < Len(cells) THEN cleared
     ELSE SubSeq(cleared, 1, Max(used))

\* The first bit that is free; of a new cell it is the first that is set, but
\* the cells are counted again before the number is made.
bitmap_setfree(cells) ==
  LET free == {i \in DOMAIN cells : cells[i] # Bits}
      i == Min(free)
      j == Min(Bits \ cells[i])
      grown == bitmap_set(cells, CellSize * Len(cells))
  IN IF free # {} THEN [cells |-> [cells EXCEPT ![i] = @ \cup {j}], sd |-> (i - 1) * CellSize + j]
     ELSE IF Len(cells) < Size THEN [cells |-> grown, sd |-> CellSize * Len(grown)]
     ELSE [cells |-> cells, sd |-> -1]

desctable == [cells |-> <<>>, open |-> {}]

\* A number that is in the tree is not added, and its bit stays set.
SEAP_desc_add(t) ==
  LET free == bitmap_setfree(t.cells)
      fails == free.sd = -1 \/ free.sd \in t.open
  IN [sd |-> IF fails THEN -1 ELSE free.sd,
      table |-> [cells |-> free.cells, open |-> t.open \cup ({free.sd} \ {-1})]]

\* What bitmap_unset asserts.
CanDelete(sd) == sd < CellSize * Size

SEAP_desc_del(t, sd) ==
  IF sd \notin t.open THEN t
  ELSE [cells |-> bitmap_unset(t.cells, sd), open |-> t.open \ {sd}]
=============================================================================
