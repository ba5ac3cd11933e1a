---------------------------- MODULE XccdfPolicy ----------------------------
(***************************************************************************)
(* The evaluation of XCCDF policies (XCCDF_POLICY/xccdf_policy.c) over one *)
(* OVAL session (OvalAgent): the benchmark is resolved when the policy     *)
(* model is made; a policy is a profile and the selects of the user, kept  *)
(* up to date in two tables; its evaluation goes through the rules in      *)
(* document order, binds the values a check exports and asks the session.  *)
(* Several policies may be evaluated one after the other.                  *)
(*                                                                         *)
(* A check is [complex, negate, oper, children] or [complex, negate,       *)
(* selector, system, multi, exports: Seq([value, name]), refs: Seq([href,  *)
(* name])] with at least one reference; the children of a complex check    *)
(* are simple.  Platforms are those that apply or not.                     *)
(***************************************************************************)
EXTENDS OvalAgent, Resolve, PolicyDocument

CONSTANTS
  ItemClusters, \* item -> its cluster or None
  XccdfValues,  \* value -> its instances, a sequence of [selector, value]
  Applicable,   \* the items whose own platforms apply
  UserSelects,  \* the selects the user may add: [item, selected]
  MaxEvaluations, \* how often a policy is evaluated
  MaxSelects,     \* how many selects the user adds
  MaxCancels      \* how often the user stops an evaluation

\* The benchmarks as the policy model keeps them.
ResolvedDocuments == [n \in DOMAIN Documents |-> xccdf_benchmark_resolve(Documents[n], Root)]

\* The rules of a benchmark in document order.
RulesIn(b) ==
  LET rules[i \in DOMAIN b] ==
        IF b[i].type = "rule" THEN <<i>>
        ELSE FlattenSeq([k \in DOMAIN b[i].content |-> rules[b[i].content[k]]])
  IN rules[Root]

\* A value has an instance, and what may be bound is among Values.
ASSUME PolicyAssumption ==
  /\ MaxEvaluations \in Nat /\ MaxSelects \in Nat /\ MaxCancels \in Nat
  /\ \A s \in UserSelects : s.selected \in BOOLEAN
  /\ \A v \in DOMAIN XccdfValues :
       /\ XccdfValues[v] \in Seq(Range(XccdfValues[v])) /\ XccdfValues[v] # <<>>
       /\ \A i \in Range(XccdfValues[v]) : i.value \in Values

\* The resolution (resolve.c) gives a benchmark of the same items again.
ASSUME ResolutionAssumption ==
  \A n \in DOMAIN Documents :
    LET b == ResolvedDocuments[n]
    IN /\ DOMAIN b = DOMAIN Documents[n] /\ IsFiniteSet(DOMAIN b) /\ Root \in DOMAIN b
       /\ RulesIn(b) \in Seq(DOMAIN b)
       /\ \A i \in DOMAIN b :
            /\ b[i].content \in Seq(DOMAIN b)
            /\ b[i].selects \in Seq(Range(b[i].selects))
            /\ b[i].setvalues \in Seq(Range(b[i].setvalues))
            /\ \A e \in Range(b[i].selects) : e.selected \in BOOLEAN
            /\ \A e \in Range(b[i].setvalues) : e.value \in Values

VARIABLES
  document,  \* the name of the benchmark
  benchmark, \* the benchmark as the policy model keeps it
  policies,  \* profile or None -> its policy [added, internal, final], once made
  current,   \* the profile whose policy is used, as a sequence of at most one
  evaluations,
  run,       \* the evaluation
  report,    \* its rule results
  cancels

policyVars == <<document, benchmark, policies, current, evaluations, run, report, cancels>>
vars == <<agentVars, policyVars>>

-----------------------------------------------------------------------------
(* Selection.                                                              *)

Ids == DOMAIN Documents[document]

\* The groups and rules of a benchmark, and those inside each of its items.
ItemsOf(b) == {i \in DOMAIN b : b[i].type \in {"group", "rule"}}
InsideOf(b) ==
  LET items == ItemsOf(b)
  IN [i \in DOMAIN b |-> SelectSeq(b[i].content, LAMBDA c : c \in items)]

IsItem(i) == i \in ItemsOf(benchmark)
Inside == InsideOf(benchmark)
Profiles == {i \in Range(benchmark[Root].content) : benchmark[i].type = "profile"}
Container(i) == CHOOSE c \in DOMAIN benchmark : Contains(benchmark[c].content, i)
Attached == {i \in ReachableFrom(Inside, <<Root>>) : IsItem(i)}

xccdf_item_get_selected(i) ==
  IF benchmark[i].selected = <<>> THEN TRUE ELSE benchmark[i].selected[1]

\* xccdf_policy_resolve_item: of the item and what is inside, what is wanted
\* and in nothing that is not.
xccdf_policy_resolve_item(pol, item, selected) ==
  LET below == ReachableFrom(Inside, <<item>>)
      wanted(i) == IF pol.internal[i] = <<>> THEN xccdf_item_get_selected(i)
                   ELSE pol.internal[i][1]
      unwanted == {i \in below : ~wanted(i)}
  IN [pol EXCEPT !.final = [i \in DOMAIN @ |->
        IF i \in below
        THEN selected /\ \A u \in unwanted : i \notin ReachableFrom(Inside, <<u>>)
        ELSE @[i]]]

\* Items that are resolved one after the other, all as if nothing around them
\* were left out, or each as what it is in.
ResolveNext(pol, i, all) ==
  IF ~IsItem(i) THEN pol
  ELSE xccdf_policy_resolve_item(pol, i, all \/ Container(i) = Root \/ pol.final[Container(i)])
ResolveItems(pol, items, all) ==
  LET done[k \in 0 .. Len(items)] ==
        IF k = 0 THEN pol ELSE ResolveNext(done[k - 1], items[k], all)
  IN done[Len(items)]

\* No item of a cluster is abstract or inside an abstract one: the resolution
\* takes such an item from the benchmark, but the cluster keeps it, for it is
\* looked up there by the id of the cluster (benchmark.c:736-744).
ASSUME ClusterAssumption ==
  \A n \in DOMAIN Documents : \A i \in ItemsOf(ResolvedDocuments[n]) :
    ItemClusters[i] # None => i \in ReachableFrom(InsideOf(ResolvedDocuments[n]), <<Root>>)

\* _xccdf_policy_add_selector_internal.  The items of a cluster come in the
\* order of a hash table, which makes no difference: an item is resolved
\* again with every item around it.
SelectTargets(sel) ==
  IF sel.item \in Attached THEN {sel.item} ELSE {i \in Attached : ItemClusters[i] = sel.item}

AddSelector_Keeps(pol, sel) ==
  [pol EXCEPT !.internal =
     [i \in DOMAIN @ |-> IF i \in SelectTargets(sel) THEN Append(@[i], sel.selected) ELSE @[i]]]

AddSelector(pol, sel) ==
  [pol EXCEPT !.internal =
     [i \in DOMAIN @ |-> IF i \in SelectTargets(sel) THEN <<sel.selected>> ELSE @[i]]]

xccdf_policy_add_select_ItemOnly(pol, sel) ==
  ResolveItems(AddSelector(pol, sel), SetToSeq(SelectTargets(sel)), TRUE)

xccdf_policy_add_select(pol, sel) ==
  ResolveItems(AddSelector(pol, sel), SetToSeq(SelectTargets(sel)), FALSE)

\* _xccdf_policy_add_profile_selectors: what the profile still extends, before
\* it.  The policies it makes of those profiles are the ones made when asked
\* for.
WithExtended(chain) ==
  LET p == Head(chain)
  IN IF p \in Profiles /\ benchmark[p].extends \in Profiles
     THEN <<benchmark[p].extends>> \o chain ELSE chain
Ancestors(p) ==
  LET up[k \in 0 .. Cardinality(Profiles)] ==
        IF k = 0 THEN <<p>> ELSE WithExtended(up[k - 1])
  IN up[Cardinality(Profiles)]
ExtendsItself(p) == p # None /\ Len(Ancestors(p)) > Cardinality(Profiles)

AddSelectors(pol, selects) ==
  LET done[k \in 0 .. Len(selects)] ==
        IF k = 0 THEN pol ELSE AddSelector(done[k - 1], selects[k])
  IN done[Len(selects)]
_xccdf_policy_add_profile_selectors(pol, p) ==
  LET chain == IF p = None THEN <<>> ELSE Ancestors(p)
      done[k \in 0 .. Len(chain)] ==
        IF k = 0 THEN pol ELSE AddSelectors(done[k - 1], benchmark[chain[k]].selects)
  IN done[Len(chain)]

xccdf_policy_new(p) ==
  LET empty == [added |-> <<>>,
                internal |-> [i \in Attached |-> <<>>], final |-> [i \in Attached |-> FALSE]]
  IN ResolveItems(_xccdf_policy_add_profile_selectors(empty, p), benchmark[Root].content, TRUE)

-----------------------------------------------------------------------------
(* Values: the last setvalue, or the instance of the last refine-value.    *)

\* What the profile says in one of its lists, and the place there of the last
\* entry about an item, 0 when there is none.
OfProfile(field) == IF current = <<None>> THEN <<>> ELSE benchmark[current[1]][field]
LastAbout(field, item) == SelectLastInSeq(OfProfile(field), LAMBDA e : e.item = item)

\* Which instance of the value has the selector, 0 when none has.
xccdf_value_get_instance_by_selector(v, selector) ==
  LET fitting == SelectInSeq(XccdfValues[v], LAMBDA i : i.selector = selector)
  IN IF fitting = 0 /\ selector = "" THEN 1 ELSE fitting

Instance(v) ==
  LET refine == LastAbout("refine_values", v)
  IN xccdf_value_get_instance_by_selector(
       v, IF refine = 0 THEN "" ELSE OfProfile("refine_values")[refine].selector)
BoundValue(v) ==
  LET set == LastAbout("setvalues", v)
  IN IF set = 0 THEN XccdfValues[v][Instance(v)].value ELSE OfProfile("setvalues")[set].value

xccdf_policy_check_get_value_bindings(check) ==
  {[var |-> e.name, value |-> BoundValue(e.value)] : e \in Range(check.exports)}
Bindable(check) ==
  \A e \in Range(check.exports) : e.value \in DOMAIN XccdfValues /\ Instance(e.value) # 0

-----------------------------------------------------------------------------
(* Rules and their checks.                                                 *)

xccdf_policy_model_item_is_applicable(r) ==
  \A i \in DOMAIN benchmark :
    r \in ReachableFrom([j \in DOMAIN benchmark |-> benchmark[j].content], <<i>>)
      => i \in Applicable

EngineRegistered(check) == check.system = "oval"

\* _xccdf_policy_rule_get_applicable_check, as a sequence of at most one.
ApplicableCheck(r) ==
  LET checks == benchmark[r].checks
      complex == SelectSeq(checks, LAMBDA c : c.complex)
      refine == SelectInSeq(OfProfile("refine_rules"), LAMBDA e : e.item = r)
      selector == IF refine = 0 THEN "" ELSE OfProfile("refine_rules")[refine].selector
      with(s) == SelectSeq(checks, LAMBDA c : ~c.complex /\ c.selector = s)
      candidates == IF with(selector) = <<>> THEN with("") ELSE with(selector)
      usable == SelectSeq(candidates, EngineRegistered)
  IN IF complex # <<>> THEN <<complex[1]>>
     ELSE IF usable = <<>> THEN <<>> ELSE <<Last(usable)>>

\* run: where the evaluation is, the rules to do, the check of the rule at
\* their head as a sequence of at most one, its simple parts to do, the
\* references to try for the first part, the names a multi-check goes
\* through, the results so far.
NotRunning == [pc |-> "idle", status |-> "idle", rules |-> <<>>, check |-> <<>>, parts |-> <<>>,
               refs |-> <<>>, names |-> <<>>, acc |-> "none"]
Ended(status) == [NotRunning EXCEPT !.status = status]
Policy == policies[current[1]]
Selected(r) == Policy.final[r]
Rule == Head(run.rules)
Check_ == run.check[1]
Part == Head(run.parts)

MayCancel == cancels < MaxCancels
ReportNext(result) == run' = [run EXCEPT !.pc = "report", !.acc = result]

-----------------------------------------------------------------------------
(* Actions.                                                                *)

\* xccdf_policy_model_new.
model_new ==
  /\ benchmark = None
  /\ benchmark' = ResolvedDocuments[document]
  /\ UNCHANGED <<agentVars, document, policies, current, evaluations, run, report, cancels>>

\* xccdf_policy_model_get_policy_by_id: a policy is made once.
get_policy(p) ==
  /\ benchmark # None /\ run.pc = "idle" /\ current # <<p>>
  /\ p \in Profiles \cup {None} /\ ~ExtendsItself(p)
  /\ policies' = [q \in DOMAIN policies \cup {p} |->
                    IF q \in DOMAIN policies THEN policies[q] ELSE xccdf_policy_new(q)]
  /\ current' = <<p>>
  /\ run' = NotRunning /\ report' = <<>>
  /\ UNCHANGED <<agentVars, document, benchmark, evaluations, cancels>>

\* Profiles that extend each other, which the failed resolution leaves
\* alone, are made policies of without end.
get_policy_overflows(p) ==
  /\ benchmark # None /\ run.pc = "idle"
  /\ p \in Profiles /\ ExtendsItself(p)
  /\ run' = [run EXCEPT !.pc = "overflow"]
  /\ UNCHANGED <<agentVars, document, benchmark, policies, current, evaluations, report, cancels>>

\* xccdf_policy_add_select.
AddedSelects == Cardinality(UNION {{p} \X (DOMAIN policies[p].added) : p \in DOMAIN policies})

add_select(sel) ==
  /\ current # <<>> /\ run.pc = "idle" /\ AddedSelects < MaxSelects
  /\ policies' = [policies EXCEPT ![current[1]] =
                    [xccdf_policy_add_select(Policy, sel) EXCEPT !.added = Append(@, sel)]]
  /\ UNCHANGED <<agentVars, document, benchmark, current, evaluations, run, report, cancels>>

\* xccdf_policy_evaluate.
evaluate ==
  /\ current # <<>> /\ run.pc = "idle" /\ evaluations < MaxEvaluations
  /\ evaluations' = evaluations + 1
  /\ run' = [NotRunning EXCEPT !.pc = "rule", !.status = "running", !.rules = RulesIn(benchmark)]
  /\ report' = <<>>
  /\ UNCHANGED <<agentVars, document, benchmark, policies, current, cancels>>

NoMoreRules ==
  /\ run.pc = "rule" /\ run.rules = <<>>
  /\ run' = Ended("complete")
  /\ UNCHANGED <<agentVars, document, benchmark, policies, current, evaluations, report, cancels>>

\* _xccdf_policy_rule_evaluate, as far as to the check.
RuleSkipped ==
  /\ run.pc = "rule" /\ run.rules # <<>>
  /\ \/ /\ ~Selected(Rule)
        /\ ReportNext("notselected")
     \/ /\ Selected(Rule) /\ ~xccdf_policy_model_item_is_applicable(Rule)
        /\ ReportNext("notapplicable")
     \/ /\ Selected(Rule) /\ xccdf_policy_model_item_is_applicable(Rule)
        /\ ApplicableCheck(Rule) = <<>>
        /\ ReportNext("notchecked")
  /\ UNCHANGED <<agentVars, document, benchmark, policies, current, evaluations, report, cancels>>

RuleChecked ==
  /\ run.pc = "rule" /\ run.rules # <<>>
  /\ Selected(Rule) /\ xccdf_policy_model_item_is_applicable(Rule)
  /\ \E check \in Range(ApplicableCheck(Rule)) :
       run' = [run EXCEPT !.pc = "part", !.check = <<check>>, !.acc = "none",
                          !.parts = IF check.complex THEN check.children ELSE <<check>>]
  /\ UNCHANGED <<agentVars, document, benchmark, policies, current, evaluations, report, cancels>>

\* A part has its result r: what is left is the rest of a complex check.
PartDone(r) ==
  LET value == _resolve_negate(r, Part.negate)
      acc == IF run.acc = "none" THEN value ELSE _resolve_operation(run.acc, value, Check_.oper)
  IN IF Tail(run.parts) # <<>>
     THEN run' = [run EXCEPT !.pc = "part", !.parts = Tail(@), !.acc = acc]
     ELSE ReportNext(IF Check_.complex THEN _resolve_negate(acc, Check_.negate) ELSE acc)

StartPart ==
  /\ run.pc = "part"
  /\ IF Bindable(Part)
     THEN run' = [run EXCEPT !.pc = "ref",
                             !.refs = IF run.names = <<>> THEN Part.refs
                                      ELSE <<[href |-> Filename, name |-> Head(run.names)]>>]
     ELSE PartDone("unknown")
  /\ UNCHANGED <<agentVars, document, benchmark, policies, current, evaluations, report, cancels>>

\* The references are alternatives.
Understood == EngineRegistered(Part) /\ Head(run.refs).href = Filename
MultiCheck == ~Check_.complex /\ Part.multi /\ Head(run.refs).name = None

NextReference_SameAgain ==
  /\ run.pc = "ref"
  /\ IF run.refs = <<>> THEN PartDone("notchecked") ELSE ~Understood /\ UNCHANGED run
  /\ UNCHANGED <<agentVars, document, benchmark, policies, current, evaluations, report, cancels>>

NextReference ==
  /\ run.pc = "ref"
  /\ IF run.refs = <<>> THEN PartDone("notchecked")
     ELSE ~Understood /\ run' = [run EXCEPT !.refs = Tail(@)]
  /\ UNCHANGED <<agentVars, document, benchmark, policies, current, evaluations, report, cancels>>

\* One result for each definition of the file.
ExpandMultiCheck ==
  /\ run.pc = "ref" /\ run.refs # <<>> /\ Understood /\ MultiCheck
  /\ IF DefinitionIds = <<>> THEN ReportNext("unknown")
     ELSE run' = [run EXCEPT !.pc = "part", !.names = DefinitionIds]
  /\ UNCHANGED <<agentVars, document, benchmark, policies, current, evaluations, report, cancels>>

\* xccdf_policy_evaluate_cb.
AskSession ==
  /\ run.pc = "ref" /\ run.refs # <<>> /\ Understood /\ ~MultiCheck
  /\ oval_agent_eval_rule(Head(run.refs).name, xccdf_policy_check_get_value_bindings(Part))
  /\ run' = [run EXCEPT !.pc = "called"]
  /\ UNCHANGED <<document, benchmark, policies, current, evaluations, report, cancels>>

SessionAnswers ==
  /\ run.pc = "called" /\ call.pc = "returned"
  /\ call' = Idle
  /\ CASE call.result = "notchecked" ->
            run' = [run EXCEPT !.pc = "ref", !.refs = Tail(@)] /\ UNCHANGED report
       [] call.result = "failure" -> run' = Ended("failed") /\ report' = <<>>
       [] OTHER -> PartDone(call.result) /\ UNCHANGED report
  /\ UNCHANGED <<values, memo, rcache, syschars, rdefs, rtests, failures, exposed,
                 document, benchmark, policies, current, evaluations, cancels>>

\* _xccdf_policy_report_rule_result, and on to the next name or rule.
AfterReport ==
  IF Len(run.names) > 1
  THEN [run EXCEPT !.pc = "part", !.names = Tail(@), !.parts = <<Check_>>, !.refs = <<>>,
                   !.acc = "none"]
  ELSE [NotRunning EXCEPT !.pc = "rule", !.status = "running", !.rules = Tail(run.rules)]

ReportResult ==
  /\ run.pc = "report"
  /\ report' = Append(report, [rule |-> Rule, result |-> run.acc])
  /\ run' = AfterReport
  /\ UNCHANGED <<agentVars, document, benchmark, policies, current, evaluations, cancels>>

\* The callback before a rule or after a result asks to stop.
Cancelled ==
  /\ MayCancel /\ cancels' = cancels + 1
  /\ \/ run.pc = "rule" /\ run.rules # <<>> /\ UNCHANGED report
     \/ run.pc = "report" /\ report' = Append(report, [rule |-> Rule, result |-> run.acc])
  /\ run' = Ended("cancelled")
  /\ UNCHANGED <<agentVars, document, benchmark, policies, current, evaluations>>

-----------------------------------------------------------------------------
Init ==
  /\ AgentInit
  /\ document \in DOMAIN Documents
  /\ benchmark = None /\ current = <<>> /\ evaluations = 0
  /\ policies = [p \in {} |-> None]
  /\ run = NotRunning /\ report = <<>> /\ cancels = 0

EvaluationStep ==
  \/ NoMoreRules \/ RuleSkipped \/ RuleChecked \/ StartPart \/ NextReference \/ ExpandMultiCheck
  \/ AskSession \/ SessionAnswers \/ ReportResult
  \/ AgentStep /\ UNCHANGED policyVars

Next ==
  \/ model_new
  \/ \E p \in Ids \cup {None} : get_policy(p) \/ get_policy_overflows(p)
  \/ \E sel \in UserSelects : add_select(sel)
  \/ evaluate
  \/ EvaluationStep
  \/ Cancelled

Spec == Init /\ [][Next]_vars
\* xccdf_policy_evaluate is one call: once made it goes on.
FairSpec == Spec /\ WF_vars(EvaluationStep)

-----------------------------------------------------------------------------
(* Properties.                                                             *)

\* What the tables of a policy may be: the last select of an item counts.
PolicyTables(items) ==
  [added : Seq(UserSelects),
   internal : [items -> {<<>>, <<TRUE>>, <<FALSE>>}], final : [items -> BOOLEAN]]

\* The tables of a policy are about the items of the resolved benchmark, the
\* session is at work exactly while a reference is tried, and only results
\* XCCDF knows are reported.
TypeOK ==
  /\ benchmark # None => DOMAIN benchmark = Ids
  /\ AddedSelects <= MaxSelects
  /\ DOMAIN policies \subseteq Ids \cup {None}
  /\ \A p \in DOMAIN policies : policies[p] \in PolicyTables(Attached)
  /\ evaluations \in 0 .. MaxEvaluations /\ cancels \in 0 .. MaxCancels
  /\ \A k \in DOMAIN report : report[k].result \in XccdfResult
  /\ values \in [External -> SUBSET Values]
  /\ call.pc # "idle" <=> run.pc = "called"

\* The evaluation gives the rules the results PolicyRun promises, in
\* document order, selected by the document as it was written: inheritance
\* (resolve.c), the tables of selects and the walk over the items agree.
Run == INSTANCE PolicyRun WITH
  Ids <- DocumentIds,
  profile <- IF current = <<>> THEN None ELSE current[1],
  added <- [p \in Ids \cup {None} |->
              IF p \in DOMAIN policies THEN policies[p].added ELSE <<>>],
  status <- run.status,
  report <- report
ImplementsPolicyRun == Run!Spec

\* An evaluation ends: every rule gets its results or the user stops it
\* (xccdf_policy.c:2077-2089), however the collections fail.
EvaluationEnds == run.status = "running" ~> run.status # "running"
=============================================================================
