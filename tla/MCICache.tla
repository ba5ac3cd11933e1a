------------------------------ MODULE MCICache ------------------------------
(***************************************************************************)
(* Small instances of ICache.  The safety runs use two contents that share *)
(* a hash, so a bucket of the tree grows beyond one item; threads are      *)
(* interchangeable.  The runs about progress need no hash collision, but   *)
(* more threads than the ring has slots.                                   *)
(***************************************************************************)
EXTENDS ICache, TLC

CONSTANTS t1, t2, t3, a, b

MCOneThread == {t1}
MCTwoThreads == {t1, t2}
MCThreeThreads == {t1, t2, t3}

MCContents == {a, b}
MCIDs == {0}
MCHash == [x \in MCContents |-> 0]

MCOneContent == {a}
MCOneHash == [x \in MCOneContent |-> 0]

MCSymmetry == Permutations(MCTwoThreads)
=============================================================================
