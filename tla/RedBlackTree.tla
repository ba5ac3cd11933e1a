---------------------------- MODULE RedBlackTree ----------------------------
(***************************************************************************)
(* The maps of the probes: SEAP/generic/rbt, rbt_common.c and rbt_i32.c    *)
(* (rbt_i64.c and rbt_str.c differ in the type of the keys).  A tree is    *)
(* rebalanced on the way down, with the last four nodes of the way in      *)
(* hand, which a rotation leaves as they were.                             *)
(*                                                                         *)
(* A tree is [root, size, mem], mem[n] = [chld, red, key, data] for each   *)
(* of its nodes.  Where a node lies is of no account: outside of a call    *)
(* the node of a key is that key.                                          *)
(***************************************************************************)
EXTENDS Integers, Sequences, SequencesExt, FiniteSets, TLC

CONSTANTS NULL, Fake   \* no keys

SL == 1
SR == 2
Other(side) == 3 - side

rbt_new == [root |-> NULL, size |-> 0, mem |-> <<>>]

Red(m, n) == n # NULL /\ m[n].red
setcolor(m, n, red) == IF n = NULL THEN m ELSE [m EXCEPT ![n].red = red]

\* The fake node above the root, and the tree without it.
WithFake(t) == (Fake :> [chld |-> <<NULL, t.root>>, red |-> FALSE]) @@ t.mem
Tree(m, size) ==
  LET root == m[Fake].chld[SR]
      black == setcolor(m, root, FALSE)
      nodes == DOMAIN m \ {Fake}
      Name(n) == IF n = NULL THEN NULL ELSE m[n].key
      Node(k) == CHOOSE n \in nodes : m[n].key = k
  IN [root |-> Name(root), size |-> size,
      mem |-> [k \in {m[n].key : n \in nodes} |->
                 LET n == black[Node(k)]
                 IN [n EXCEPT !.chld = <<Name(n.chld[SL]), Name(n.chld[SR])>>]]]

-----------------------------------------------------------------------------
(* Rotations: [mem, top], the node on that side of o, or the inner one of  *)
(* its children, comes to the top, black over red ones.                    *)

\* rbt_node_rotate_L for SR, rbt_node_rotate_R for SL.
rotate(m, o, side) ==
  LET n == m[o].chld[side]
  IN [mem |-> [m EXCEPT ![o].chld[side] = m[n].chld[Other(side)],
                        ![n].chld[Other(side)] = o, ![n].red = FALSE, ![o].red = TRUE],
      top |-> n]

\* rbt_node_rotate_LR for SR, rbt_node_rotate_RL for SL.
rotate2(m, o, side) ==
  LET c == m[o].chld[side]
      n == m[c].chld[Other(side)]
  IN [mem |-> [m EXCEPT ![c].chld[Other(side)] = m[n].chld[side],
                        ![o].chld[side] = m[n].chld[Other(side)],
                        ![n].chld[side] = c, ![n].chld[Other(side)] = o,
                        ![c].red = TRUE, ![o].red = TRUE, ![n].red = FALSE],
      top |-> n]

\* h are the last nodes and dvec the last sides of the way, the latest first.
redfix(m, h, dvec) ==
  LET r == IF dvec[1] = dvec[2] THEN rotate(m, h[3], dvec[2]) ELSE rotate2(m, h[3], dvec[2])
  IN [r.mem EXCEPT ![h[4]].chld[dvec[3]] = r.top]

FixedIfRed(m, h, dvec) == IF Red(m, h[2]) THEN redfix(m, h, dvec) ELSE m

-----------------------------------------------------------------------------
\* Downwards to where the key is or is to be; the fake node is above the
\* memory it returns.
RECURSIVE AddFrom(_, _, _, _, _)
AddFrom(m, h, dvec, key, data) ==
  IF h[1] = NULL
  THEN LET node == [chld |-> <<NULL, NULL>>, red |-> TRUE, key |-> key, data |-> data]
           linked == (key :> node) @@ [m EXCEPT ![h[2]].chld[dvec[1]] = key]
       IN FixedIfRed(linked, [h EXCEPT ![1] = key], dvec)
  ELSE LET l == m[h[1]].chld[SL]
           r == m[h[1]].chld[SR]
           m2 == IF Red(m, l) /\ Red(m, r)
                 THEN FixedIfRed(setcolor(setcolor(setcolor(m, h[1], TRUE), l, FALSE), r, FALSE),
                                 h, dvec)
                 ELSE IF Red(m, h[1]) THEN FixedIfRed(m, h, dvec) ELSE m
           side == IF key < m[h[1]].key THEN SL ELSE SR
       IN IF key = m[h[1]].key THEN m2
          ELSE AddFrom(m2, <<m2[h[1]].chld[side], h[1], h[2], h[3]>>,
                       <<side, dvec[1], dvec[2]>>, key, data)

\* replace: whether the caller wants a colliding entry's data.
rbt_i32_add(t, key, data, replace) ==
  LET m == AddFrom(WithFake(t), <<t.root, Fake, NULL, NULL>>, <<SR, SL, SL>>, key, data)
      collides == key \in DOMAIN t.mem
  IN IF ~collides THEN [r |-> 0, coll |-> {}, tree |-> Tree(m, t.size + 1)]
     ELSE IF replace
     THEN [r |-> 0, coll |-> {m[key].data}, tree |-> Tree([m EXCEPT ![key].data = data], t.size)]
     ELSE [r |-> 1, coll |-> {}, tree |-> Tree(m, t.size)]

-----------------------------------------------------------------------------
\* One node of the way down to delete: h[1] is made red or is next to a red
\* one that was.
PushedRed(m, h, side, prev) ==
  LET turned == rotate(m, h[1], Other(side))
      s == m[h[2]].chld[Other(prev)]
      d == IF m[h[3]].chld[SR] = h[2] THEN SR ELSE SL
      r == IF Red(m, m[s].chld[prev]) THEN rotate2(m, h[2], Other(prev))
           ELSE rotate(m, h[2], Other(prev))
      joined == [r.mem EXCEPT ![h[3]].chld[d] = r.top]
      Recoloured(n) == setcolor(setcolor(setcolor(setcolor(joined, h[1], TRUE), n, TRUE),
                                         joined[n].chld[SL], FALSE), joined[n].chld[SR], FALSE)
  IN IF Red(m, h[1]) \/ Red(m, m[h[1]].chld[side]) THEN [mem |-> m, h |-> h]
     ELSE IF Red(m, m[h[1]].chld[Other(side)])
     THEN [mem |-> [turned.mem EXCEPT ![h[2]].chld[prev] = turned.top],
           h |-> [h EXCEPT ![2] = turned.top]]
     ELSE [mem |-> IF s = NULL THEN m
                   ELSE IF ~Red(m, m[s].chld[SL]) /\ ~Red(m, m[s].chld[SR])
                   THEN setcolor(setcolor(setcolor(m, h[1], TRUE), h[2], FALSE), s, TRUE)
                   ELSE Recoloured(r.top),
           h |-> h]

\* Downwards past the key to the last node before it.
RECURSIVE DelFrom(_, _, _, _, _)
DelFrom(m, h, dvec, key, save) ==
  LET n == m[h[1]].chld[dvec]
      side == IF key > m[n].key THEN SR ELSE SL
      next == PushedRed(m, <<n, h[1], h[2]>>, side, dvec)
  IN IF n = NULL THEN [mem |-> m, h |-> h, save |-> save]
     ELSE DelFrom(next.mem, next.h, side, key, IF key = m[n].key THEN {n} ELSE save)

\* The last node's entry goes where the key was, its child where the node was;
\* -1 when the assertion that it is red or the root fails.
rbt_i32_del(t, key) ==
  LET end == DelFrom(WithFake(t), <<Fake, NULL, NULL>>, SR, key, {})
      m == end.mem
      last == end.h[1]
      above == end.h[2]
      save == CHOOSE n \in end.save : TRUE
      moved == [m EXCEPT ![save].key = m[last].key, ![save].data = m[last].data]
      child == IF m[last].chld[SR] = NULL THEN m[last].chld[SL] ELSE m[last].chld[SR]
      dvec == IF m[above].chld[SR] = last THEN SR ELSE SL
      unlinked == [moved EXCEPT ![above].chld[dvec] = child]
      left == [n \in DOMAIN m \ {last} |-> unlinked[n]]
  IN IF t.size = 0 THEN [r |-> 1, data |-> {}, tree |-> t]
     ELSE IF end.save = {} THEN [r |-> 1, data |-> {}, tree |-> Tree(m, t.size)]
     ELSE IF m[Fake].chld[SR] # last /\ ~Red(m, last) THEN [r |-> -1, data |-> {}, tree |-> t]
     ELSE [r |-> 0, data |-> {m[save].data}, tree |-> Tree(left, t.size - 1)]

-----------------------------------------------------------------------------
RECURSIVE GetFrom(_, _, _)
GetFrom(m, n, key) ==
  IF n = NULL THEN {}
  ELSE IF key = m[n].key THEN {m[n].data}
  ELSE GetFrom(m, m[n].chld[IF key < m[n].key THEN SL ELSE SR], key)

\* The data of the key, if there is one.
rbt_i32_get(t, key) == GetFrom(t.mem, t.root, key)

\* A stack of nodes to come back to; descending into the left of the last or
\* taking it and putting its right in its place.
RECURSIVE Descend(_, _, _), Taken(_, _, _)
Descend(m, stack, seen) ==
  LET n == m[Last(stack)].chld[SL]
  IN IF n # NULL THEN Descend(m, Append(stack, n), seen) ELSE Taken(m, stack, seen)
Taken(m, stack, seen) ==
  LET n == m[Last(stack)].chld[SR]
      now == Append(seen, m[Last(stack)].key)
  IN IF n # NULL THEN Descend(m, Append(Front(stack), n), now)
     ELSE IF Len(stack) > 1 THEN Taken(m, Front(stack), now) ELSE now

\* The keys in the order in which the callback sees them.
rbt_walk_inorder2(t) == IF t.root = NULL THEN <<>> ELSE Descend(t.mem, <<t.root>>, <<>>)
=============================================================================
