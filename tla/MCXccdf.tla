------------------------------ MODULE MCXccdf ------------------------------
(***************************************************************************)
(* Two or three small documents over one OVAL file, and the algorithms of  *)
(* OvalLogic, XccdfLogic and Resolve compared with what the standards and  *)
(* the comments say of them, for all small inputs.                         *)
(***************************************************************************)
EXTENDS XccdfPolicy, OvalCharts, MCPolicyParts

\* OVAL: "plain" rests on an object that names the external variable x; "both"
\* extends it and looks at a set object with a state that names a variable
\* made of an object.
MCDefinitionIds == <<"both", "plain">>
MCCriteria ==
  [plain |-> [op |-> "AND", negate |-> FALSE, nodes |-> <<Node("test", "tx")>>],
   both |-> [op |-> "OR", negate |-> TRUE,
             nodes |-> <<Node("test", "ts"), Node("extend", "plain")>>]]
MCClass == [plain |-> "compliance", both |-> "vulnerability"]
MCTests ==
  [tx |-> [object |-> "ox", variable |-> None, check |-> "all",
           existence |-> "at_least_one", op |-> "AND"],
   ts |-> [object |-> "os", variable |-> "l", check |-> "at_least_one",
           existence |-> "any", op |-> "AND"]]
MCObjects ==
  [ox |-> [variable |-> "x", members |-> <<>>],
   oy |-> [variable |-> "y", members |-> <<>>],
   os |-> [variable |-> None, members |-> <<"oy", "ox">>]]
MCLocals == [l |-> Node("object", "ox")]
\* The object finds something unless it was asked with 2; the state holds for
\* what was made of 1.
MCItems(saw, states) ==
  IF \E p \in saw : p[2] = {2} THEN <<>>
  ELSE <<[id |-> 1, status |-> "exists",
          states |-> <<IF states = {} THEN "error"
                       ELSE IF \E p \in states : p[2] = {1} THEN "true" ELSE "false">>]>>

Item(type, extends, content) ==
  [type |-> type, extends |-> extends, content |-> content, abstract |-> FALSE,
   selected |-> <<>>, weight |-> <<>>, checks |-> <<>>, selects |-> <<>>,
   setvalues |-> <<>>, refine_rules |-> <<>>, refine_values |-> <<>>]
Simple(selector, multi, exports, refs) ==
  [complex |-> FALSE, negate |-> FALSE, system |-> "oval", selector |-> selector,
   multi |-> multi, exports |-> exports, refs |-> refs]
Export(v, x) == [value |-> v, name |-> x]
OvalRef(name) == [href |-> Filename, name |-> name]
SelectOf(i, flag) == [item |-> i, selected |-> flag]

AboutX == Simple("", FALSE, <<Export("v", "x")>>,
                 <<[href |-> "script", name |-> None], OvalRef("plain")>>)
Unbound == Simple("", FALSE, <<Export("nowhere", "x")>>, <<OvalRef("plain")>>)
Either == [complex |-> TRUE, negate |-> FALSE, oper |-> "OR",
           children |-> <<Unbound, [AboutX EXCEPT !.negate = TRUE],
                          Simple("", FALSE, <<Export("v", "x"), Export("w", "y")>>,
                                 <<OvalRef("both")>>)>>]
Many == Simple("", TRUE, <<>>, <<OvalRef(None)>>)
Whole == Simple("whole", FALSE, <<Export("w", "x")>>, <<OvalRef(None)>>)

\* Profile child extends base; rule late inherits from an abstract rule.
MCDocument ==
  [b |-> Item("benchmark", "none", <<"base", "child", "g", "hidden", "late">>),
   base |-> [Item("profile", "none", <<>>) EXCEPT
               !.selects = <<SelectOf("c", FALSE), SelectOf("late", TRUE)>>,
               !.refine_rules = <<[item |-> "late", selector |-> "whole"]>>],
   child |-> [Item("profile", "base", <<>>) EXCEPT
               !.selects = <<SelectOf("either", TRUE), SelectOf("g", TRUE)>>,
               !.setvalues = <<[item |-> "v", value |-> 2]>>,
               !.refine_values = <<[item |-> "w", selector |-> "two"]>>],
   g |-> [Item("group", "none", <<"about", "either">>) EXCEPT !.selected = <<FALSE>>],
   about |-> [Item("rule", "none", <<>>) EXCEPT !.checks = <<AboutX>>],
   either |-> [Item("rule", "none", <<>>) EXCEPT !.checks = <<Either>>],
   hidden |-> [Item("rule", "none", <<>>) EXCEPT
                 !.abstract = TRUE, !.selected = <<FALSE>>, !.checks = <<Many, Whole>>],
   late |-> Item("rule", "hidden", <<>>)]

\* Two rules extend each other: nothing is inherited but selects.
MCLooping ==
  [MCDocument EXCEPT !.hidden.extends = "late", !.hidden.abstract = FALSE]
\* Two profiles do.
MCEndless == [MCDocument EXCEPT !.base.extends = "child"]

MCDocuments == [plain |-> MCDocument, looping |-> MCLooping, endless |-> MCEndless]
MCItemClusters == [i \in DOMAIN MCDocument |->
                     IF i \in {"about", "either", "late"} THEN "c" ELSE None]
MCUserSelects == {SelectOf("g", TRUE), SelectOf("c", TRUE), SelectOf("hidden", TRUE)}
MCXccdfValues == [v |-> <<[selector |-> "", value |-> 1]>>,
                  w |-> <<[selector |-> "one", value |-> 1], [selector |-> "two", value |-> 2]>>]
\* The dictionary knows the platform of the document and of rule hidden, which
\* names only the negation of it; late names another one as well.
MCPlatformModel == [dicts |-> <<Dict("d", "yes")>>, langs |-> <<Lang("d")>>]
MCPlatform == [i \in DOMAIN MCDocument |->
                 CASE i = "b" -> {"six"} [] i = "hidden" -> {"#old"}
                   [] i = "late" -> {"#old", "#new"} [] OTHER -> {}]
MCApplicable == {i \in DOMAIN MCDocument :
                   P!xccdf_policy_model_platforms_are_applicable(MCPlatformModel, MCPlatform[i])}
\* Only rule hidden is not for this system (xccdf_policy.c:920-963).
ASSUME HiddenDoesNotApply == MCApplicable = DOMAIN MCDocument \ {"hidden"}

-----------------------------------------------------------------------------
(* The algorithms, for all small inputs.                                   *)

\* Checks, operators and existence follow their charts, where OvalCharts says
\* so (oval_resultTest.c:189-378, 660-721).
SmallCounts == [Result -> 0 .. 2]
ASSUME ChecksFollowCharts ==
  \A c \in SmallCounts : NoResult(c) \/
    \A check \in Check, r \in Result :
      ChartOfCheck(check, c, r) <=> r = ores_get_result_bychk(c, check)
ASSUME OperatorsFollowCharts ==
  \A c \in SmallCounts : NoResult(c) \/
    \A op \in Operator : ChartOfOperator(op, c, ores_get_result_byopr(c, op))
ASSUME ExistenceFollowsCharts ==
  \A c \in [ItemStatus -> 0 .. 2], existence \in Existence, r \in Result :
    ChartOfExistence(existence, c, r)
      <=> r = eval_check_existence(existence, c["exists"], c["error"])

\* A state whose entities are all demanded of all values holds exactly for
\* items where each of them does, whether values are given or come from a
\* variable (oval_resultTest.c:380-575).
EntityValues == UNION {[1 .. n -> {"true", "false", "error"}] : n \in 1 .. 2}
ItemEntities == [status : {"exists", "does_not_exist"},
                 variable : {"none", "complete", "incomplete", "error"}, results : EntityValues]
HoldsFor(e) ==
  /\ e.status = "exists" /\ e.variable # "error"
  /\ IF e.variable = "none" THEN e.results[1] = "true" ELSE Range(e.results) = {"true"}
ASSUME StatesAreConjunctions ==
  \A e, f \in ItemEntities :
    LET state == <<[check |-> "all", varCheck |-> "all", entities |-> <<e, f>>]>>
    IN (eval_item(state, "AND") = "true") <=> (HoldsFor(e) /\ HoldsFor(f))

\* Complex checks follow the table of the comment with the rows of error and
\* unknown exchanged (xccdf_policy.c:272-343).
RowOf(r) == CASE r = "error" -> "unknown" [] r = "unknown" -> "error"
              [] r \notin {"error", "unknown"} -> r
Entry(r) == IF r \in {"pass", "fail", "unknown", "error"} THEN r ELSE "N"
ASSUME TablesFollowComment ==
  \A a, b \in XccdfResult, oper \in {"AND", "OR"} :
    Entry(_resolve_operation(a, b, oper)) = CommentSays(RowOf(a), b, oper)

\* The sort of every graph of three nodes; but of a graph with a loop the
\* output may hold more than the loop (tsort.h:51-52).
SmallGraphs == LET nodes == 1 .. 3
                   orders == UNION {SetToSeqs(S) : S \in SUBSET nodes}
               IN [nodes -> orders]
ASSUME TsortSorts == \A edges \in SmallGraphs : SortsOrFindsLoop(edges, <<1, 2, 3>>)
ASSUME TsortFindsMore == \E edges \in SmallGraphs : ~ReturnsTheLoop(edges, <<1, 2, 3>>)

\* Scores stay within their limits, and a document where every rule that
\* counts passes has them all (result_scoring.c:57-243).
Tree(w) == [children |-> [top |-> <<"part", "r3">>, part |-> <<"r1", "r2">>,
                          r1 |-> <<>>, r2 |-> <<>>, r3 |-> <<>>], weight |-> w]
SomeWeights == [{"top", "part", "r1", "r2", "r3"} -> 0 .. 2]
SomeResults == [{"r1", "r2", "r3"} -> {"pass", "fail", "notselected", "error"}]
AllPass(result) == \A r \in DOMAIN result : result[r] \in {"pass"} \cup Ignored
ASSUME ScoresAreBounded ==
  \A w \in SomeWeights, result \in SomeResults :
    LET default == default_score(Tree(w), result).top
        flat == flat_score(Tree(w), result, FALSE).top
    IN /\ default.den > 0 /\ default.num \in 0 .. 100 * default.den
       /\ flat.score \in 0 .. flat.weight
       /\ AllPass(result) => flat.score = flat.weight
       /\ AllPass(result) /\ default.count > 0 /\ (\A i \in DOMAIN w : w[i] > 0)
            => default.num = 100 * default.den
=============================================================================
