----------------------------- MODULE XccdfLogic -----------------------------
(***************************************************************************)
(* The results of XCCDF checks: how they are derived from OVAL results     *)
(* (oval_agent.c), combined by complex checks (xccdf_policy.c) and turned  *)
(* into scores (XCCDF/result_scoring.c).                                   *)
(***************************************************************************)
EXTENDS Integers, Sequences, SequencesExt

\* The results in the order of xccdf_test_result_type_t; "none" is its 0.
ResultOrder == <<"pass", "fail", "error", "unknown", "notapplicable",
                 "notchecked", "notselected", "informational">>
XccdfResult == Range(ResultOrder)

\* xccdf_get_result_from_oval.  Definitions of vulnerabilities and patches
\* pass when they are false.
xccdf_get_result_from_oval(class, r) ==
  LET holds == IF class \in {"vulnerability", "patch"} THEN "false" ELSE "true"
  IN CASE r \in {"true", "false"} -> IF r = holds THEN "pass" ELSE "fail"
       [] r = "noteval" -> "notchecked"
       [] r = "notappl" -> "notapplicable"
       [] r \in {"unknown", "error"} -> r

-----------------------------------------------------------------------------
(* _resolve_operation: the two tables are one rule with two dominating     *)
(* results.  They are not symmetric: an error on the left makes an unknown *)
(* of what is right of it, an unknown on the left an error.                *)

Position(r) == CHOOSE i \in DOMAIN ResultOrder : ResultOrder[i] = r
Earlier(a, b) == IF Position(a) <= Position(b) THEN a ELSE b

Combine(dominant, a, b) ==
  CASE "none" \in {a, b} -> "none"
    [] dominant \in {a, b} /\ "none" \notin {a, b} -> dominant
    [] OTHER -> CASE a = "error" -> "unknown"
                  [] a = "unknown" -> IF b = "unknown" THEN "unknown" ELSE "error"
                  [] a \notin {"error", "unknown"} ->
                       IF b \in {"error", "unknown"} THEN b ELSE Earlier(a, b)

_resolve_operation(a, b, oper) ==
  Combine(IF oper = "AND" THEN "fail" ELSE "pass", a, b)

_resolve_negate(r, negate) ==
  IF negate /\ r \in {"pass", "fail"} THEN IF r = "pass" THEN "fail" ELSE "pass" ELSE r

\* The result of a complex check or of a whole OVAL file: from the left, the
\* first result standing for itself.
FoldResults(results, oper) ==
  FoldLeft(LAMBDA a, b : IF a = "none" THEN b ELSE _resolve_operation(a, b, oper),
           "none", results)

-----------------------------------------------------------------------------
(* The documented table, xccdf_policy.c:272-289 (N is any result that is   *)
(* none of the four others).                                               *)

CommentRows == <<"pass", "fail", "unknown", "error", "N">>
Column(r) == IF r \in Range(CommentRows)
             THEN CHOOSE i \in 1 .. 4 : CommentRows[i] = r ELSE 5
CommentAnd == << <<"pass", "fail", "unknown", "error", "pass">>,
                 <<"fail", "fail", "fail", "fail", "fail">>,
                 <<"unknown", "fail", "unknown", "unknown", "unknown">>,
                 <<"error", "fail", "unknown", "error", "error">>,
                 <<"pass", "fail", "unknown", "error", "N">> >>
CommentOr == << <<"pass", "pass", "pass", "pass", "pass">>,
                <<"pass", "fail", "unknown", "error", "fail">>,
                <<"pass", "unknown", "unknown", "unknown", "unknown">>,
                <<"pass", "error", "unknown", "error", "error">>,
                <<"pass", "fail", "unknown", "error", "N">> >>
CommentSays(a, b, oper) ==
  (IF oper = "AND" THEN CommentAnd ELSE CommentOr)[Column(a)][Column(b)]

-----------------------------------------------------------------------------
(* Scores.  tree: [children: item -> sequence of items, weight: item -> a  *)
(* natural number]; the items without children are rules.  result gives    *)
(* each rule its first result, the only one scores look at.  A score is    *)
(* the fraction num / den.                                                 *)

Ignored == {"notselected", "notapplicable", "informational", "notchecked"}

\* xccdf_item_get_default_score; count 0 stands for the NULL of a rule that
\* is ignored too, which its parent treats alike.
default_score(tree, result) ==
  LET node[i \in DOMAIN tree.weight] ==
        IF i \in DOMAIN result
        THEN [count |-> IF result[i] \in Ignored THEN 0 ELSE 1,
              num |-> IF result[i] = "pass" THEN 100 ELSE 0, den |-> 1]
        ELSE LET counted == SelectSeq(tree.children[i], LAMBDA c : node[c].count # 0)
                 sum == FoldLeft(LAMBDA a, c :
                          [num |-> a.num * node[c].den
                                   + node[c].num * tree.weight[c] * a.den,
                           den |-> a.den * node[c].den],
                          [num |-> 0, den |-> 1], counted)
                 accumulator == FoldLeft(LAMBDA a, c : a + tree.weight[c], 0, counted)
             IN [count |-> Len(counted), num |-> sum.num,
                 den |-> IF accumulator # 0 THEN sum.den * accumulator ELSE sum.den]
  IN node

\* xccdf_item_get_flat_score.
flat_score(tree, result, unweighted) ==
  LET node[i \in DOMAIN tree.weight] ==
        IF i \in DOMAIN result
        THEN LET w == IF result[i] \in Ignored THEN 0
                      ELSE IF unweighted THEN 1 ELSE tree.weight[i]
             IN [weight |-> w, score |-> IF result[i] = "pass" THEN w ELSE 0]
        ELSE FoldLeft(LAMBDA a, c : [weight |-> a.weight + node[c].weight,
                                     score |-> a.score + node[c].score],
                      [weight |-> 0, score |-> 0],
                      SelectSeq(tree.children[i], LAMBDA c : node[c].weight # 0))
  IN node

\* The absolute model: everything that counts passes.
absolute_score(tree, result, root) ==
  LET flat == flat_score(tree, result, FALSE)[root]
  IN IF flat.score = flat.weight THEN 1 ELSE 0
=============================================================================
