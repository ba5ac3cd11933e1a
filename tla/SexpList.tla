------------------------------ MODULE SexpList ------------------------------
(***************************************************************************)
(* Lists of S-expressions in memory: blocks of 1, 2, 4 ... members that    *)
(* several lists may share, and values that several references may share   *)
(* (SEAP/sexp-value.c, sexp-manip.c, sexp-manip_r.c).                      *)
(*                                                                         *)
(* A memory is [blk, val, ref]: blk[a] = [exp, memb, next, refs] the       *)
(* blocks, val[v] = [refs, addr, offset] the values, ref[h] the value of   *)
(* each reference a program holds, NULL if it holds none.  Operations on   *)
(* blocks return [blk, at], the blocks and where the list begins.          *)
(* Members are not looked into; counters of references do not overflow.    *)
(***************************************************************************)
EXTENDS Integers, Sequences, SequencesExt, FiniteSets, TLC

NULL == 0
Unused(mem) == CHOOSE a \in 1 .. Cardinality(DOMAIN mem) + 1 : a \notin DOMAIN mem
Without(mem, a) == [b \in DOMAIN mem \ {a} |-> mem[b]]

-----------------------------------------------------------------------------
(* Blocks.                                                                 *)

lblk_new(blk, exp) ==
  LET a == Unused(blk)
  IN [blk |-> (a :> [exp |-> exp, memb |-> <<>>, next |-> NULL, refs |-> 1]) @@ blk, at |-> a]

\* The blocks of a list, one after the other.
RECURSIVE Chain(_, _)
Chain(blk, a) == IF a = NULL THEN <<>> ELSE <<a>> \o Chain(blk, blk[a].next)
Members(blk, a) == FlattenSeq([i \in DOMAIN Chain(blk, a) |-> blk[Chain(blk, a)[i]].memb])
lblk_last(blk, a) == Last(Chain(blk, a))

lblk_decref(blk, a) == [blk EXCEPT ![a].refs = @ - 1]

\* At the end of the last block, or in a new one twice its size.
lblk_add1(blk, a, m) ==
  IF Len(blk[a].memb) < 2 ^ blk[a].exp THEN [blk EXCEPT ![a].memb = Append(@, m)]
  ELSE LET new == lblk_new(blk, IF blk[a].exp = 15 THEN 6 ELSE blk[a].exp + 1)
       IN [new.blk EXCEPT ![a].next = new.at, ![new.at].memb = <<m>>]

\* A copy has blocks of 1, 2, 4 ... members, all full but the last.
lblk_copy(blk, a, skip) ==
  IF a = NULL THEN [blk |-> blk, at |-> NULL]
  ELSE LET first == lblk_new(blk, 0)
           all == Members(blk, a)
       IN [blk |-> FoldLeft(LAMBDA b, m : lblk_add1(b, lblk_last(b, first.at), m),
                            first.blk, SubSeq(all, skip + 1, Len(all))),
           at |-> first.at]

\* The first block that other lists share, among those a search goes through.
Shared(blk, chain) == {i \in DOMAIN chain : blk[chain[i]].refs >= 2}
Earliest(S) == CHOOSE i \in S : \A j \in S : i <= j
Linked(blk, chain, i, at) == IF i = 1 THEN blk ELSE [blk EXCEPT ![chain[i - 1]].next = at]

\* A list that runs into a shared block continues with a copy - of itself
\* from its beginning.
lblk_add(blk, a, m) ==
  LET chain == Chain(blk, a)
      shared == Shared(blk, chain)
  IN IF a = NULL
     THEN LET new == lblk_new(blk, 1) IN [blk |-> lblk_add1(new.blk, new.at, m), at |-> new.at]
     ELSE IF shared = {} THEN [blk |-> lblk_add1(blk, Last(chain), m), at |-> a]
     ELSE LET i == Earliest(shared)
              copy == lblk_copy(blk, a, 0)
              linked == lblk_decref(Linked(copy.blk, chain, i, copy.at), a)
          IN [blk |-> lblk_add1(linked, lblk_last(linked, copy.at), m),
              at |-> IF i = 1 THEN copy.at ELSE a]

\* The block and place of the n-th member.
Before(blk, chain, i) == IF i = 1 THEN 0 ELSE Len(Members(blk, chain[1])) - Len(Members(blk, chain[i]))
Place(blk, a, n) ==
  LET chain == Chain(blk, a)
      i == CHOOSE j \in DOMAIN chain : /\ n > Before(blk, chain, j)
                                       /\ n <= Before(blk, chain, j) + Len(blk[chain[j]].memb)
  IN [block |-> i, n |-> n - Before(blk, chain, i)]
Put(blk, a, n, m) ==
  LET at == Place(blk, a, n) IN [blk EXCEPT ![Chain(blk, a)[at.block]].memb[at.n] = m]

\* Blocks in front of the member's are looked at; its own is not, and is
\* written to whoever shares it.
lblk_replace(blk, a, n, m) ==
  LET chain == Chain(blk, a)
      passed == SubSeq(chain, 1, Place(blk, a, n).block - 1)
      i == Earliest(Shared(blk, passed))
      copy == lblk_copy(blk, chain[i], 0)
  IN IF n > Len(Members(blk, a)) THEN [blk |-> blk, at |-> a]
     ELSE IF Shared(blk, passed) = {} THEN [blk |-> Put(blk, a, n, m), at |-> a]
     ELSE [blk |-> Put(lblk_decref(Linked(copy.blk, chain, i, copy.at), chain[i]),
                       copy.at, n - Before(blk, chain, i), m),
           at |-> IF i = 1 THEN copy.at ELSE a]

RECURSIVE lblk_free(_, _)
lblk_free(blk, a) ==
  IF a = NULL THEN blk
  ELSE IF blk[a].refs # 1 THEN lblk_decref(blk, a)
  ELSE lblk_free(Without(blk, a), blk[a].next)
lblk_free1(blk, a) == IF blk[a].refs # 1 THEN lblk_decref(blk, a) ELSE Without(blk, a)

-----------------------------------------------------------------------------
(* Lists.                                                                  *)

Value(m, h) == m.val[m.ref[h]]
Length(m, h) == Len(Members(m.blk, Value(m, h).addr)) - Value(m, h).offset
Contents(m, h) ==
  LET all == Members(m.blk, Value(m, h).addr) IN SubSeq(all, Value(m, h).offset + 1, Len(all))

\* A new value for h.
Made(m, h, blocks, offset) ==
  LET v == Unused(m.val)
  IN [blk |-> blocks.blk, ref |-> [m.ref EXCEPT ![h] = v],
      val |-> (v :> [refs |-> 1, addr |-> blocks.at, offset |-> offset]) @@ m.val]

\* SEXP_list_new: one block that all members fit in.
SEXP_list_new(m, h, members) ==
  LET exp == CHOOSE e \in 0 .. 5 : 2 ^ e >= Len(members) /\ (e = 0 \/ 2 ^ (e - 1) < Len(members))
      new == lblk_new(m.blk, exp)
  IN Made(m, h, IF members = <<>> THEN [blk |-> m.blk, at |-> NULL]
                ELSE [new EXCEPT !.blk[new.at].memb = members], 0)

SEXP_ref(m, g, h) ==
  [m EXCEPT !.ref[g] = m.ref[h], !.val[m.ref[h]].refs = @ + 1]

SEXP_free(m, h) ==
  LET v == m.ref[h]
      blk == lblk_free(m.blk, m.val[v].addr)
  IN IF m.val[v].refs # 1 THEN [m EXCEPT !.ref[h] = NULL, !.val[v].refs = @ - 1]
     ELSE [blk |-> blk, val |-> Without(m.val, v), ref |-> [m.ref EXCEPT ![h] = NULL]]

SEXP_list_rest(m, g, h) ==
  LET list == Value(m, h)
      offset == list.offset + 1
      over == list.addr # NULL /\ offset = Len(m.blk[list.addr].memb)
      addr == IF over THEN m.blk[list.addr].next ELSE list.addr
  IN Made(m, g, [blk |-> IF addr = NULL THEN m.blk ELSE [m.blk EXCEPT ![addr].refs = @ + 1],
                 at |-> addr],
          IF over THEN 0 ELSE offset)

\* A value that others hold is copied before it is changed.
Copied(m, h) == Made(m, h, lblk_copy(m.blk, Value(m, h).addr, Value(m, h).offset), 0)
Private(m, h) ==
  IF Value(m, h).refs = 1 THEN m
  ELSE LET copy == Copied(m, h) IN [copy EXCEPT !.val[m.ref[h]].refs = @ - 1]

\* The copy of a list without blocks has no last block to add to.
Crashes(m, h) == Value(m, h).refs > 1 /\ Value(m, h).addr = NULL
SEXP_list_add(m, h, e) ==
  LET p == Private(m, h)
      added == lblk_add(p.blk, Value(p, h).addr, e)
  IN [p EXCEPT !.blk = added.blk, !.val[p.ref[h]].addr = added.at]

SEXP_list_replace(m, h, n, e) ==
  LET p == Private(m, h)
      replaced == lblk_replace(p.blk, Value(p, h).addr, Value(p, h).offset + n, e)
  IN [p EXCEPT !.blk = replaced.blk, !.val[p.ref[h]].addr = replaced.at]

SEXP_list_join(m, j, g, h) ==
  FoldLeft(LAMBDA n, e : SEXP_list_add(n, j, e),
           Made(m, j, lblk_copy(m.blk, Value(m, g).addr, Value(m, g).offset), 0), Contents(m, h))

\* The first block is given up with each of its members.
SEXP_list_pop(m, h) ==
  LET list == Value(m, h)
      over == list.offset + 1 = Len(m.blk[list.addr].memb)
  IN [m EXCEPT !.blk = lblk_free1(m.blk, list.addr),
               !.val[m.ref[h]].offset = IF over THEN 0 ELSE @ + 1,
               !.val[m.ref[h]].addr = IF over THEN m.blk[list.addr].next ELSE @]
=============================================================================
