---------------------------- MODULE SetAlgebra -----------------------------
(***************************************************************************)
(* What the OVAL language says of a set of objects: finite sets of items   *)
(* that are restricted by filters and combined by union, intersection and  *)
(* relative complement.  The sets that wait for their operation are kept   *)
(* in document order, so the last two are the operands of the next one.    *)
(***************************************************************************)
EXTENDS Naturals, Sequences

CONSTANT Items

Operations == {"union", "intersection", "complement"}

Apply(op, X, Y) ==
  IF op = "union" THEN X \cup Y
  ELSE IF op = "intersection" THEN X \cap Y
  ELSE X \ Y

VARIABLE sets

Init == sets = <<>>

Collect == \E X \in SUBSET Items : sets' = Append(sets, X)

Filter ==
  /\ sets # <<>>
  /\ \E K \in SUBSET Items :
        sets' = [sets EXCEPT ![Len(sets)] = @ \cap K]

Combine ==
  /\ Len(sets) > 1
  /\ \E op \in Operations :
        sets' = Append(SubSeq(sets, 1, Len(sets) - 2),
                       Apply(op, sets[Len(sets) - 1], sets[Len(sets)]))

Next == Collect \/ Filter \/ Combine

Spec == Init /\ [][Next]_sets
=============================================================================
