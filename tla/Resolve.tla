------------------------------ MODULE Resolve ------------------------------
(***************************************************************************)
(* Inheritance in an XCCDF document: XCCDF/resolve.c over the depth-first  *)
(* topological sort of common/tsort.c.  A benchmark is a function from the *)
(* ids of its items to their records                                       *)
(*   type      "benchmark", "profile", "group" or "rule",                  *)
(*   extends   the id of the item it inherits from, or "none",             *)
(*   content   the sequence of the items inside (profiles first),          *)
(*   abstract  whether it only serves to be extended,                      *)
(*   selected, weight   the value given, <<TRUE>> or <<2>>, or <<>>,       *)
(*   checks    those of a rule,                                            *)
(*   selects, setvalues, refine_rules, refine_values   those of a profile, *)
(*             sequences of records with the id they are about in item.    *)
(* Texts, platforms, values and the groups of XCCDF 1.1 that inherit are   *)
(* left out.                                                               *)
(***************************************************************************)
EXTENDS Integers, Sequences, FiniteSets, SequencesExt

-----------------------------------------------------------------------------
(* oscap_tsort.  edges[n] is the sequence of the nodes n depends on.       *)

Contexts(nodes) ==
  [visited : SUBSET nodes, stack : Seq(nodes), result : Seq(nodes), sorted : BOOLEAN]

oscap_tsort_visit(edges) ==
  LET visit[x \in (DOMAIN edges) \X Contexts(DOMAIN edges)] ==
        LET node == x[1]
            ctx == x[2]
            deeper == [ctx EXCEPT !.visited = @ \cup {node}, !.stack = Append(@, node)]
            done == FoldLeft(LAMBDA c, n : IF c.sorted THEN visit[<<n, c>>] ELSE c,
                             deeper, edges[node])
        IN IF Contains(ctx.stack, node) THEN [ctx EXCEPT !.sorted = FALSE]
           ELSE IF node \in ctx.visited THEN ctx
           ELSE [done EXCEPT !.stack = IF done.sorted THEN Front(@) ELSE @,
                             !.result = Append(@, node)]
  IN visit

oscap_tsort_visit_all(edges, nodes, ctx) ==
  FoldLeft(LAMBDA c, n : IF c.sorted THEN oscap_tsort_visit(edges)[<<n, c>>] ELSE c,
           ctx, nodes)

\* The order, or the stack on which a node was met again.
oscap_tsort(edges, roots) ==
  LET ctx == oscap_tsort_visit_all(edges, roots,
               [visited |-> {}, stack |-> <<>>, result |-> <<>>, sorted |-> TRUE])
  IN [sorted |-> ctx.sorted,
      output |-> IF ctx.sorted THEN ctx.result ELSE ctx.stack]

-----------------------------------------------------------------------------
(* Inheritance.                                                            *)

\* xccdf_benchmark_get_member for the extends of an item.
Parent(b, i) ==
  IF b[i].extends \in DOMAIN b /\ b[b[i].extends].type = b[i].type
  THEN b[i].extends ELSE "none"

xccdf_benchmark_resolve_dependencies(b, i) ==
  (IF Parent(b, i) = "none" THEN <<>> ELSE <<Parent(b, i)>>) \o b[i].content

\* xccdf_resolve_appendlist, always called with prepend = false: the
\* parent's entries about other ids come first, so the child's override.
xccdf_resolve_appendlist(child, parent) ==
  SelectSeq(parent, LAMBDA p : \A c \in Range(child) : c.item # p.item) \o child

Inherit(own, inherited) == IF own = <<>> THEN inherited ELSE own

xccdf_resolve_item(b, i) ==
  LET p == b[Parent(b, i)]
  IN IF b[i].type = "benchmark" \/ Parent(b, i) = "none" \/ b[i].type = "group"
     THEN b
     ELSE [b EXCEPT ![i] =
            [@ EXCEPT !.extends = "none",
                      !.selected = Inherit(@, p.selected),
                      !.weight = Inherit(@, p.weight),
                      !.checks = Inherit(@, p.checks),
                      !.selects = xccdf_resolve_appendlist(@, p.selects),
                      !.setvalues = xccdf_resolve_appendlist(@, p.setvalues),
                      !.refine_rules = xccdf_resolve_appendlist(@, p.refine_rules),
                      !.refine_values = xccdf_resolve_appendlist(@, p.refine_values)]]

\* Abstract profiles and items leave the contents.
xccdf_resolve_cleanup(b) ==
  [i \in DOMAIN b |->
     [b[i] EXCEPT !.content = SelectSeq(@, LAMBDA c : ~b[c].abstract)]]

\* A loop leaves everything as it was, but for the cleanup.
xccdf_benchmark_resolve(b, root) ==
  LET sort == oscap_tsort([i \in DOMAIN b |-> xccdf_benchmark_resolve_dependencies(b, i)],
                          <<root>>)
  IN xccdf_resolve_cleanup(
       IF sort.sorted THEN FoldLeft(xccdf_resolve_item, b, sort.output) ELSE b)

-----------------------------------------------------------------------------
(* What the sort promises (tsort.h:37-55), for a graph given by its edges. *)

ReachableFrom(edges, roots) ==
  LET step(S) == S \cup UNION {Range(edges[n]) : n \in S}
      reach[k \in Nat] == IF k = 0 THEN Range(roots) ELSE step(reach[k - 1])
  IN reach[Cardinality(DOMAIN edges)]
OnCycle(edges, n) == n \in ReachableFrom(edges, edges[n])

SortsOrFindsLoop(edges, roots) ==
  LET sort == oscap_tsort(edges, roots)
      reached == ReachableFrom(edges, roots)
  IN /\ sort.sorted <=> \A n \in reached : ~OnCycle(edges, n)
     /\ sort.sorted =>
          /\ Range(sort.output) = reached /\ Len(sort.output) = Cardinality(reached)
          /\ \A i \in DOMAIN sort.output :
               Range(edges[sort.output[i]]) \subseteq Range(SubSeq(sort.output, 1, i - 1))
     /\ ~sort.sorted => \E n \in Range(sort.output) : OnCycle(edges, n)

\* The output is the loop and nothing else.
ReturnsTheLoop(edges, roots) ==
  LET sort == oscap_tsort(edges, roots)
  IN ~sort.sorted => \A n \in Range(sort.output) : OnCycle(edges, n)
=============================================================================
