---------------------------- MODULE XccdfProofs ----------------------------
(***************************************************************************)
(* What holds of the OVAL session in every evaluation of XCCDF policies,   *)
(* and of the policies and their evaluation over the session.              *)
(***************************************************************************)
EXTENDS XccdfPolicy, OvalFreshProofs, FiniteSetTheorems

\* What a step of the evaluation is for the session: one of its own, a
\* question, an answer taken, or none.
LEMMA SessionSteps ==
  ASSUME Next
  PROVE  \/ AgentStep
         \/ \E name, bindings : oval_agent_eval_rule(name, bindings)
         \/ /\ call.pc = "returned" /\ call' = Idle
            /\ UNCHANGED <<values, memo, rcache, syschars, rdefs, rtests, failures, exposed>>
         \/ UNCHANGED agentVars
  <1>1. CASE model_new
    BY <1>1 DEF model_new
  <1>2. CASE \E p \in Ids \cup {None} : get_policy(p) \/ get_policy_overflows(p)
    BY <1>2 DEF get_policy, get_policy_overflows
  <1>3. CASE \E sel \in UserSelects : add_select(sel)
    BY <1>3 DEF add_select
  <1>4. CASE evaluate
    BY <1>4 DEF evaluate
  <1>5. CASE EvaluationStep
    <2>1. CASE NoMoreRules
      BY <2>1 DEF NoMoreRules
    <2>2. CASE RuleSkipped
      BY <2>2 DEF RuleSkipped
    <2>3. CASE RuleChecked
      BY <2>3 DEF RuleChecked
    <2>4. CASE StartPart
      BY <2>4 DEF StartPart
    <2>5. CASE NextReference
      BY <2>5 DEF NextReference
    <2>6. CASE ExpandMultiCheck
      BY <2>6 DEF ExpandMultiCheck
    <2>7. CASE AskSession
      BY <2>7 DEF AskSession
    <2>8. CASE SessionAnswers
      BY <2>8 DEF SessionAnswers
    <2>9. CASE ReportResult
      BY <2>9 DEF ReportResult
    <2>10. CASE AgentStep
      BY <2>10
    <2> QED BY <1>5, <2>1, <2>2, <2>3, <2>4, <2>5, <2>6, <2>7, <2>8, <2>9, <2>10 DEF EvaluationStep
  <1>6. CASE Cancelled
    BY <1>6 DEF Cancelled
  <1> QED BY <1>1, <1>2, <1>3, <1>4, <1>5, <1>6 DEF Next

\* A step that is none for the session keeps it in order.
LEMMA UnchangedOK ==
  ASSUME AgentOK, UNCHANGED agentVars
  PROVE  AgentOK' /\ EvidenceStep
  <1>1. UNCHANGED <<memo, rcache, syschars, rdefs, rtests, call>>
    BY DEF agentVars
  <1>2. Shapes' /\ References_' /\ Numbers' /\ Cached'
    BY <1>1 DEF AgentOK, Shapes, References_, RefsOK, Numbers, Cached
  <1>3. CallOK' /\ QueryOK' /\ Evaluated'
    <2>1. CallOK' /\ Evaluated'
      BY <1>1 DEF AgentOK, CallOK, Evaluated, Subject
    <2>2. QueryOK'
      BY <1>1 DEF AgentOK, QueryOK, WritesOK, ComputesOK, Covered, Awaits, Computed, Ready, Subject
    <2> QED BY <2>1, <2>2
  <1>4. Evidence' /\ EvidenceStep
    BY <1>1, SameObjects, EvidenceSame DEF AgentOK
  <1> QED BY <1>2, <1>3, <1>4 DEF AgentOK

\* Every step of the evaluation does.
LEMMA NextOK ==
  ASSUME AgentOK, Next
  PROVE  AgentOK' /\ EvidenceStep
  BY SessionSteps, AgentStepOK, EvalRuleOK, AnswerOK, UnchangedOK

\* The session is in order whatever it is asked: its results refer to each
\* other and to what was collected, and a query that is under way does
\* everything the definition needs before the definition is evaluated
\* (oval_probe_query_criteria, oval_result_system_eval_definition).
THEOREM SessionInOrder == Spec => []AgentOK
  <1>1. Init => AgentOK
    BY AgentInitOK DEF Init
  <1>2. AgentOK /\ [Next]_vars => AgentOK'
    BY NextOK, UnchangedOK DEF vars
  <1> QED BY <1>1, <1>2, PTL DEF Spec

\* What a test has been evaluated from stays in the results
\* (oval_agent.c:214-222), for any content, rules and values.
THEOREM SessionEvidenceStays == Spec => EvidenceStays
  <1>1. AgentOK /\ [Next]_vars => [EvidenceStep]_agentVars
    BY NextOK DEF vars
  <1>2. Spec => [][EvidenceStep]_agentVars
    BY <1>1, SessionInOrder, PTL DEF Spec
  <1>3. [][EvidenceStep]_agentVars => EvidenceStays
    BY PTL DEF EvidenceStep, EvidenceStays
  <1> QED BY <1>2, <1>3

\* The two invariants of the session together: the second needs the first.
LEMMA UnchangedFresh ==
  ASSUME Fresh, UNCHANGED agentVars
  PROVE  Fresh'
  BY LookingFresh DEF agentVars

\* Every step of the evaluation keeps what is fresh.
LEMMA NextFresh ==
  ASSUME AgentOK, Fresh, Next
  PROVE  Fresh'
  BY SessionSteps, AgentStepFresh, EvalRuleFresh, LookingFresh, UnchangedFresh

\* At every moment each definition that no change has passed by is made of
\* results that rest on the values bound now, or is hinted to be evaluated
\* again with objects that will be collected again
\* (_oval_agent_resolve_variables_conflict, oval_probe_hint_definition).
THEOREM SessionFresh == Spec => [](AgentOK /\ Fresh)
  <1>1. Init => AgentOK /\ Fresh
    BY AgentInitOK, AgentInitFresh DEF Init
  <1>2. AgentOK /\ Fresh /\ [Next]_vars => (AgentOK /\ Fresh)'
    BY NextOK, UnchangedOK, NextFresh, UnchangedFresh DEF vars
  <1> QED BY <1>1, <1>2, PTL DEF Spec

\* A verdict that is about to be reported rests on the values bound now,
\* however often the session has been used with others, unless a change came
\* past the hints (oval_agent.c:413-425); for any content, rules and values.
THEOREM SessionFreshVerdicts == Spec => []FreshVerdicts
  <1>1. AgentOK /\ Fresh => FreshVerdicts
    BY FreshMeansFreshVerdicts
  <1> QED BY <1>1, SessionFresh, PTL

-----------------------------------------------------------------------------
(* Functions defined by recursion over numbers, and lists made of sets.    *)

\* What a recursion over the numbers up to n goes by, what it gives, and what
\* its steps keep.
StepsOf(S, n) == [S \X (1 .. n) -> S]
Recursion(g, S, base, n, F) ==
  /\ g \in [0 .. n -> S]
  /\ g = [k \in 0 .. n |-> IF k = 0 THEN base ELSE F[<<g[k - 1], k>>]]
Keeping(g, n, S) == g[0] \in S /\ \A k \in 1 .. n : g[k - 1] \in S => g[k] \in S

\* It defines a function.
LEMMA RecursionExists ==
  ASSUME NEW S, NEW base \in S, NEW n \in Nat, NEW F \in StepsOf(S, n)
  PROVE  \E g : Recursion(g, S, base, n, F)
  <1> USE DEF StepsOf, Recursion
  <1> DEFINE Upto(g, m) == /\ g \in [0 .. m -> S]
                           /\ g = [k \in 0 .. m |-> IF k = 0 THEN base ELSE F[<<g[k - 1], k>>]]
  <1> DEFINE bad == {m \in 0 .. n : ~ \E g : Upto(g, m)}
  <1>1. SUFFICES ASSUME bad # {}
                 PROVE  FALSE
    <2>1. n \notin bad
      BY <1>1
    <2> QED BY <2>1
  <1>2. PICK m \in bad : \A k \in bad : m <= k
    <2>1. bad \subseteq Nat
      OBVIOUS
    <2> HIDE DEF bad
    <2> QED BY <1>1, <2>1, Smallest
  <1>3. m \in 0 .. n /\ ~ \E g : Upto(g, m)
    BY <1>2
  <1>4. CASE m = 0
    <2>1. PICK g : g = [k \in 0 .. 0 |-> base]
      OBVIOUS
    <2>2. Upto(g, 0)
      BY <2>1
    <2> QED BY <1>3, <1>4, <2>2
  <1>5. CASE m # 0
    <2>1. m - 1 \in 0 .. n /\ m - 1 \notin bad
      BY <1>2, <1>3, <1>5
    <2>2. PICK g : Upto(g, m - 1)
      BY <2>1
    <2>3. PICK h : h = [k \in 0 .. m |-> IF k = m THEN F[<<g[m - 1], m>>] ELSE g[k]]
      OBVIOUS
    <2>4. g[m - 1] \in S /\ F[<<g[m - 1], m>>] \in S
      BY <1>3, <1>5, <2>2
    <2>5. h \in [0 .. m -> S]
      BY <1>3, <1>5, <2>2, <2>3, <2>4
    <2>6. \A k \in 0 .. m - 1 : g[k] = IF k = 0 THEN base ELSE F[<<g[k - 1], k>>]
      BY <2>2
    <2>7. \A k \in 0 .. m : h[k] = IF k = 0 THEN base ELSE F[<<h[k - 1], k>>]
      <3>1. \A k \in 0 .. m - 1 : h[k] = g[k]
        BY <1>3, <2>3
      <3>2. h[m] = F[<<h[m - 1], m>>]
        <4>1. h[m] = F[<<g[m - 1], m>>]
          BY <1>3, <2>3
        <4>2. m - 1 \in 0 .. m - 1
          BY <1>3, <1>5
        <4>3. h[m - 1] = g[m - 1]
          BY <3>1, <4>2
        <4> QED BY <4>1, <4>3
      <3>3. ASSUME NEW k \in 0 .. m - 1
            PROVE  h[k] = IF k = 0 THEN base ELSE F[<<h[k - 1], k>>]
        <4>1. k # 0 => h[k - 1] = g[k - 1]
          BY <1>3, <3>1
        <4> QED BY <2>6, <3>1, <4>1
      <3> QED BY <1>3, <1>5, <3>2, <3>3
    <2>8. Upto(h, m)
      BY <2>3, <2>5, <2>7
    <2> QED BY <1>3, <2>8
  <1> QED BY <1>4, <1>5

\* What the steps of a recursion keep holds of everything it gives.
LEMMA RecursionKeeps ==
  ASSUME NEW S, NEW n \in Nat, NEW g, Keeping(g, n, S)
  PROVE  g[n] \in S
  <1> USE DEF Keeping
  <1> DEFINE bad == {k \in 0 .. n : g[k] \notin S}
  <1>1. SUFFICES ASSUME bad # {}
                 PROVE  FALSE
    OBVIOUS
  <1>2. PICK m \in bad : \A k \in bad : m <= k
    <2>1. bad \subseteq Nat
      OBVIOUS
    <2> HIDE DEF bad
    <2> QED BY <1>1, <2>1, Smallest
  <1>3. m \in 1 .. n /\ m - 1 \in 0 .. n /\ m - 1 \notin bad
    BY <1>2
  <1> QED BY <1>2, <1>3

\* A finite set can be put into a sequence.
LEMMA SetAsSequence ==
  ASSUME NEW S, IsFiniteSet(S)
  PROVE  SetToSeq(S) \in Seq(S)
  <1>1. Cardinality(S) \in Nat /\ ExistsBijection(1 .. Cardinality(S), S)
    BY FS_CardinalityType
  <1>2. PICK f : f \in Bijection(1 .. Cardinality(S), S)
    BY <1>1 DEF ExistsBijection
  <1>3. f \in [1 .. Cardinality(S) -> S] /\ IsInjective(f)
    BY <1>2 DEF Bijection, Injection, IsInjective
  <1>4. SetToSeq(S) \in [1 .. Cardinality(S) -> S]
    BY <1>3 DEF SetToSeq
  <1> QED BY <1>1, <1>4

\* Of the places in a sequence that fit, the last is one.
LEMMA LastFits ==
  ASSUME NEW I, NEW n \in Nat, I \subseteq 1 .. n, I # {}
  PROVE  Max(I) \in I
  <1> DEFINE J == {n - i : i \in I}
  <1>1. J \subseteq Nat /\ J # {}
    <2>1. \A i \in I : n - i \in Nat
      OBVIOUS
    <2> QED BY <2>1
  <1>2. PICK j \in J : \A k \in J : j <= k
    <2> HIDE DEF J
    <2> QED BY <1>1, Smallest
  <1>3. PICK i \in I : j = n - i
    BY <1>2
  <1>4. \A k \in I : i >= k
    <2>1. ASSUME NEW k \in I
          PROVE  i >= k
      <3>1. n - i <= n - k
        BY <1>2, <1>3
      <3>2. i \in 1 .. n /\ k \in 1 .. n
        OBVIOUS
      <3> QED BY <3>1, <3>2
    <2> QED BY <2>1
  <1> QED BY <1>4 DEF Max
LEMMA FirstFits ==
  ASSUME NEW I, NEW n \in Nat, I \subseteq 1 .. n, I # {}
  PROVE  Min(I) \in I
  <1>1. PICK i \in I : \A k \in I : i <= k
    BY Smallest, I \subseteq Nat
  <1> QED BY <1>1 DEF Min

-----------------------------------------------------------------------------
(* Results, and the answers of the session.                                *)

\* The results by name.
LEMMA ResultsNamed ==
  XccdfResult = {"pass", "fail", "error", "unknown", "notapplicable", "notchecked",
                 "notselected", "informational"}
  <1>1. PICK order : order = ResultOrder
    OBVIOUS
  <1>2. DOMAIN order = 1 .. 8
    BY <1>1 DEF ResultOrder
  <1>3. /\ order[1] = "pass" /\ order[2] = "fail" /\ order[3] = "error" /\ order[4] = "unknown"
        /\ order[5] = "notapplicable" /\ order[6] = "notchecked" /\ order[7] = "notselected"
        /\ order[8] = "informational"
    BY <1>1 DEF ResultOrder
  <1>4. XccdfResult = {order[i] : i \in 1 .. 8}
    BY <1>1, <1>2 DEF XccdfResult, Range
  <1>5. 1 .. 8 = {1, 2, 3, 4, 5, 6, 7, 8}
    OBVIOUS
  <1> QED BY <1>3, <1>4, <1>5

\* What a check may come to.
Outcome == XccdfResult \ {"notselected", "informational"}

\* What outcomes are combined to is one (xccdf_policy.c:290-343),
LEMMA OperationKnown ==
  ASSUME NEW a \in Outcome, NEW b \in Outcome, NEW oper
  PROVE  _resolve_operation(a, b, oper) \in Outcome
  <1>1. Earlier(a, b) \in {a, b}
    BY DEF Earlier
  <1>2. a # "none" /\ b # "none"
    BY ResultsNamed DEF Outcome
  <1>3. \A dominant : Combine(dominant, a, b) \in Outcome \cup {dominant}
    BY <1>1, <1>2, ResultsNamed DEF Combine, Outcome
  <1>4. {"pass", "fail"} \subseteq Outcome
    BY ResultsNamed DEF Outcome
  <1> QED BY <1>3, <1>4 DEF _resolve_operation

\* and so is what one is negated to.
LEMMA NegateKnown ==
  ASSUME NEW r \in Outcome, NEW negate
  PROVE  _resolve_negate(r, negate) \in Outcome
  BY ResultsNamed DEF _resolve_negate, Outcome

\* Every result of a definition is one (oval_agent.c:590-620).
LEMMA VerdictKnown ==
  ASSUME NEW class, NEW r \in Result
  PROVE  xccdf_get_result_from_oval(class, r) \in Outcome
  BY ResultsNamed DEF xccdf_get_result_from_oval, Result, Outcome

\* What is bound are values, and the session answers with outcomes.
Answers ==
  /\ values \in [External -> SUBSET Values]
  /\ call.acc \in Outcome \cup {"none"}
  /\ call.pc = "returned" => call.result \in Outcome \cup {"failure"}

\* A query goes on.
LEMMA QueryAnswers ==
  ASSUME CallOK, Answers, call.pc = "probing", values' = values,
         NEW todo, call' = [call EXCEPT !.todo = todo]
  PROVE  Answers' /\ call.pc # "idle" /\ call'.pc # "idle"
  <1>1. call'.pc = "probing" /\ call'.acc = call.acc
    BY DEF CallOK
  <1> QED BY <1>1 DEF Answers

\* A call that returns a result does.
LEMMA ReturnedAnswers ==
  ASSUME Answers, values' \in [External -> SUBSET Values],
         NEW r \in Outcome \cup {"failure"}, call' = Returned(r)
  PROVE  Answers' /\ call'.pc # "idle"
  <1>1. call'.pc = "returned" /\ call'.acc = "none" /\ call'.result = r
    BY DEF Returned, Idle
  <1> QED BY <1>1 DEF Answers

\* A question takes the results so far along.
LEMMA ProbingAnswers ==
  ASSUME values' \in [External -> SUBSET Values], NEW defs, NEW file,
         NEW acc \in Outcome \cup {"none"}, call' = Probing(defs, file, acc)
  PROVE  Answers' /\ call'.pc # "idle"
  <1>1. call'.pc = "probing" /\ call'.acc = acc
    BY DEF Probing, Idle
  <1> QED BY <1>1 DEF Answers

\* The result of a definition that has one.
LEMMA DefinitionKnown ==
  ASSUME Shapes, NEW d \in Definitions, Started(rdefs[d])
  PROVE  DefinitionResult(d) \in Outcome
  <1>1. PICK results : results = rdefs[d]
    OBVIOUS
  <1>2. IsSeq(results) /\ Len(results) \in DOMAIN results
    BY <1>1, SeqShape DEF Shapes
  <1>3. IsDefinition(results[Len(results)])
    BY <1>1, <1>2 DEF Shapes
  <1>4. Newest(rdefs[d]).result \in Result
    BY <1>1, <1>3 DEF IsDefinition, Newest
  <1> QED BY <1>4, VerdictKnown DEF DefinitionResult

\* Every step of the session keeps its answers outcomes, and is one of a call.
LEMMA AgentStepAnswers ==
  ASSUME AgentOK, Answers, AgentStep
  PROVE  Answers' /\ call.pc # "idle" /\ call'.pc # "idle"
  <1> USE DEF AgentOK
  <1>1. CASE QueryCriteria \/ QueryTest \/ QueryVariable \/ ComputeVariable \/ CacheMember
             \/ Collect \/ NothingToSend
    <2>1. call.pc = "probing" /\ values' = values
      BY <1>1 DEF QueryCriteria, QueryTest, QueryVariable, ComputeVariable, CacheMember, Collect,
                  NothingToSend, At
    <2>2. \E nodes : Then(nodes)
      BY <1>1 DEF QueryCriteria, QueryTest, QueryVariable, ComputeVariable, CacheMember, Collect,
                  NothingToSend
    <2>3. \E todo : call' = [call EXCEPT !.todo = todo]
      BY <2>2 DEF Then
    <2> QED BY <2>1, <2>3, QueryAnswers
  <1>2. CASE QueryObject \/ QueryMember
    <2>1. call.pc = "probing" /\ values' = values
      BY <1>2 DEF QueryObject, QueryMember, At
    <2>2. \E nodes : Then(nodes)
      BY <1>2 DEF QueryObject, QueryMember, oval_probe_query_object
    <2>3. \E todo : call' = [call EXCEPT !.todo = todo]
      BY <2>2 DEF Then
    <2> QED BY <2>1, <2>3, QueryAnswers
  <1>3. CASE CollectSet
    <2>1. call.pc = "probing" /\ values' = values /\ \E todo : call' = [call EXCEPT !.todo = todo]
      BY <1>3 DEF CollectSet, At
    <2> QED BY <2>1, QueryAnswers
  <1>4. CASE CollectFails
    <2>1. call.pc = "probing" /\ values' = values
      BY <1>4 DEF CollectFails, At
    <2>2. CASE Abandon
      <3>1. \E r \in Outcome \cup {"failure"} : call' = Returned(r)
        BY <2>2 DEF Abandon, Outcome
      <3>2. values' \in [External -> SUBSET Values]
        BY <2>1 DEF Answers
      <3> QED BY <2>1, <3>1, <3>2, ReturnedAnswers
    <2>3. CASE ~Abandon
      <3>1. \E todo : call' = [call EXCEPT !.todo = todo]
        BY <1>4, <2>3 DEF CollectFails, Then
      <3> QED BY <2>1, <3>1, QueryAnswers
    <2> QED BY <2>2, <2>3
  <1>5. CASE EvalDefinition
    <2>1. call.pc = "probing" /\ values' = values /\ call' = [call EXCEPT !.pc = "evaluated"]
      BY <1>5 DEF EvalDefinition, Probed
    <2>2. call'.pc = "evaluated" /\ call'.acc = call.acc
      BY <2>1 DEF CallOK
    <2> QED BY <2>1, <2>2 DEF Answers
  <1>6. CASE GetResult
    <2>1. PICK r : r = DefinitionResult(Subject)
      OBVIOUS
    <2>2. call.pc = "evaluated" /\ values' = values /\ call' = Continue(r)
      BY <1>6, <2>1 DEF GetResult
    <2>3. Subject \in Definitions /\ Started(rdefs[Subject])
      <3>1. PICK defs : defs = call.defs
        OBVIOUS
      <3>2. defs \in Seq(Definitions) /\ defs # <<>>
        BY <2>2, <3>1 DEF CallOK
      <3>3. defs[1] \in Definitions
        BY <3>2
      <3> QED BY <2>2, <3>1, <3>3 DEF Subject, Evaluated
    <2>4. r \in Outcome
      BY <2>1, <2>3, DefinitionKnown
    <2>5. PICK acc : acc = IF call.acc = "none" THEN r ELSE _resolve_operation(call.acc, r, "AND")
      OBVIOUS
    <2>6. acc \in Outcome
      BY <2>4, <2>5, OperationKnown DEF Answers
    <2>7. values' \in [External -> SUBSET Values]
      BY <2>2 DEF Answers
    <2>8. \/ call' = Probing(Tail(call.defs), TRUE, acc)
          \/ \E q \in Outcome : call' = Returned(q)
      BY <2>2, <2>4, <2>5, <2>6 DEF Continue
    <2> QED BY <2>2, <2>6, <2>7, <2>8, ProbingAnswers, ReturnedAnswers
  <1> QED BY <1>1, <1>2, <1>3, <1>4, <1>5, <1>6 DEF AgentStep

\* The session is asked with values.
LEMMA EvalRuleAnswers ==
  ASSUME Answers, NEW name, NEW bindings, \A b \in bindings : b.value \in Values,
         oval_agent_eval_rule(name, bindings)
  PROVE  Answers' /\ call'.pc # "idle"
  <1>1. values' \in [External -> SUBSET Values]
    <2>1. PICK x : values' = Rebound(bindings, x)
      BY DEF oval_agent_eval_rule, oval_agent_resolve_variables
    <2>2. \A v : Bound(bindings, v) \subseteq Values
      BY DEF Bound
    <2> QED BY <2>1, <2>2 DEF Rebound, Answers
  <1>2. {"error", "notchecked"} \subseteq Outcome
    BY ResultsNamed DEF Outcome
  <1>3. \/ \E r \in Outcome : call' = Returned(r)
        \/ \E defs, file : call' = Probing(defs, file, "none")
    BY <1>2 DEF oval_agent_eval_rule
  <1> QED BY <1>1, <1>3, ReturnedAnswers, ProbingAnswers

-----------------------------------------------------------------------------
(* The tables of a policy.                                                 *)

\* What the policy model keeps is a document resolved, and the policies that
\* have been made are of its profiles.
ModelOK ==
  /\ document \in DOMAIN Documents
  /\ benchmark # None => benchmark = ResolvedDocuments[document]
MadeOK ==
  /\ policies = [p \in DOMAIN policies |-> policies[p]]
  /\ DOMAIN policies \subseteq Profiles \cup {None} /\ (DOMAIN policies # {} => benchmark # None)
  /\ \A p \in DOMAIN policies : policies[p] \in PolicyTables(Attached)
CurrentOK == current # <<>> => \E p \in DOMAIN policies : current = <<p>>

\* The items of a benchmark that is kept.
LEMMA BenchmarkShape ==
  ASSUME ModelOK, benchmark # None
  PROVE  /\ DOMAIN benchmark = Ids /\ IsFiniteSet(Ids) /\ Root \in Ids
         /\ \A i \in Ids :
              /\ benchmark[i].content \in Seq(Ids)
              /\ Len(benchmark[i].selects) \in Nat
              /\ \A k \in 1 .. Len(benchmark[i].selects) : benchmark[i].selects[k].selected \in BOOLEAN
              /\ Len(benchmark[i].setvalues) \in Nat
              /\ \A k \in 1 .. Len(benchmark[i].setvalues) : benchmark[i].setvalues[k].value \in Values
  <1>1. /\ DOMAIN benchmark = Ids /\ IsFiniteSet(Ids) /\ Root \in Ids
        /\ \A i \in Ids :
             /\ benchmark[i].content \in Seq(Ids)
             /\ benchmark[i].selects \in Seq(Range(benchmark[i].selects))
             /\ benchmark[i].setvalues \in Seq(Range(benchmark[i].setvalues))
             /\ \A e \in Range(benchmark[i].selects) : e.selected \in BOOLEAN
             /\ \A e \in Range(benchmark[i].setvalues) : e.value \in Values
    BY ResolutionAssumption DEF ModelOK, Ids
  <1>2. ASSUME NEW s, s \in Seq(Range(s))
        PROVE  Len(s) \in Nat /\ \A k \in 1 .. Len(s) : s[k] \in Range(s)
    BY <1>2
  <1> QED BY <1>1, <1>2

\* What is attached to it, and its profiles, are among them.
LEMMA ItemsFinite ==
  ASSUME ModelOK, benchmark # None
  PROVE  /\ Attached \subseteq Ids /\ IsFiniteSet(Attached)
         /\ Profiles \subseteq Ids /\ Cardinality(Profiles) \in Nat
  <1>1. Attached \subseteq Ids
    BY BenchmarkShape DEF Attached, IsItem, ItemsOf
  <1>2. Profiles \subseteq Ids
    <2>1. PICK content : content = benchmark[Root].content
      OBVIOUS
    <2>2. content \in Seq(Ids)
      BY <2>1, BenchmarkShape
    <2>3. Range(content) \subseteq Ids
      BY <2>2 DEF Range
    <2> QED BY <2>1, <2>3 DEF Profiles
  <1> QED BY <1>1, <1>2, BenchmarkShape, FS_Subset, FS_CardinalityType

\* An item that is resolved gets a flag, and so does what is inside.
LEMMA ResolveNextTables ==
  ASSUME NEW pol \in PolicyTables(Attached), NEW i, NEW all
  PROVE  /\ ResolveNext(pol, i, all) \in PolicyTables(Attached)
         /\ ResolveNext(pol, i, all).added = pol.added
  <1>1. ASSUME NEW item, NEW selected \in BOOLEAN
        PROVE  /\ xccdf_policy_resolve_item(pol, item, selected) \in PolicyTables(Attached)
               /\ xccdf_policy_resolve_item(pol, item, selected).added = pol.added
    BY DEF xccdf_policy_resolve_item, PolicyTables
  <1>2. (all \/ Container(i) = Root \/ pol.final[Container(i)]) \in BOOLEAN
    OBVIOUS
  <1> QED BY <1>1, <1>2 DEF ResolveNext

\* Items that are resolved one after the other.
LEMMA ResolveItemsTables ==
  ASSUME NEW pol \in PolicyTables(Attached), NEW items, Len(items) \in Nat, NEW all
  PROVE  /\ ResolveItems(pol, items, all) \in PolicyTables(Attached)
         /\ ResolveItems(pol, items, all).added = pol.added
  <1>1. PICK S : S = {p \in PolicyTables(Attached) : p.added = pol.added}
    OBVIOUS
  <1>2. PICK F : F = [x \in S \X (1 .. Len(items)) |-> ResolveNext(x[1], items[x[2]], all)]
    OBVIOUS
  <1>3. F \in StepsOf(S, Len(items))
    BY <1>1, <1>2, ResolveNextTables DEF StepsOf
  <1>4. pol \in S
    BY <1>1
  <1>5. PICK g : Recursion(g, S, pol, Len(items), F)
    BY <1>3, <1>4, RecursionExists
  <1>6. ASSUME NEW k \in 0 .. Len(items), k # 0
        PROVE  F[<<g[k - 1], k>>] = ResolveNext(g[k - 1], items[k], all)
    <2>1. k \in 1 .. Len(items) /\ g[k - 1] \in S
      BY <1>5, <1>6 DEF Recursion
    <2> QED BY <1>2, <2>1
  <1>7. g = [k \in 0 .. Len(items) |-> IF k = 0 THEN pol ELSE ResolveNext(g[k - 1], items[k], all)]
    BY <1>5, <1>6 DEF Recursion
  <1>8. PICK done :
          /\ done = [k \in 0 .. Len(items) |->
                       IF k = 0 THEN pol ELSE ResolveNext(done[k - 1], items[k], all)]
          /\ ResolveItems(pol, items, all) = done[Len(items)]
    BY <1>7 DEF ResolveItems
  <1>9. done[0] \in S /\ \A k \in 1 .. Len(items) : done[k] = ResolveNext(done[k - 1], items[k], all)
    BY <1>4, <1>8
  <1>10. Keeping(done, Len(items), S)
    BY <1>1, <1>9, ResolveNextTables DEF Keeping
  <1>11. done[Len(items)] \in S
    BY <1>10, RecursionKeeps
  <1> QED BY <1>1, <1>8, <1>11

\* A select is kept for the items it is about (xccdf_policy.c:1666-1706).
LEMMA AddSelectorTables ==
  ASSUME NEW pol \in PolicyTables(Attached), NEW sel, sel.selected \in BOOLEAN
  PROVE  /\ AddSelector(pol, sel) \in PolicyTables(Attached)
         /\ AddSelector(pol, sel).added = pol.added
  BY DEF AddSelector, PolicyTables

\* The selects of one profile.
LEMMA AddSelectorsTables ==
  ASSUME NEW pol \in PolicyTables(Attached), NEW selects, Len(selects) \in Nat,
         \A k \in 1 .. Len(selects) : selects[k].selected \in BOOLEAN
  PROVE  /\ AddSelectors(pol, selects) \in PolicyTables(Attached)
         /\ AddSelectors(pol, selects).added = pol.added
  <1>1. PICK S : S = {p \in PolicyTables(Attached) : p.added = pol.added}
    OBVIOUS
  <1>2. PICK F : F = [x \in S \X (1 .. Len(selects)) |-> AddSelector(x[1], selects[x[2]])]
    OBVIOUS
  <1>3. F \in StepsOf(S, Len(selects))
    BY <1>1, <1>2, AddSelectorTables DEF StepsOf
  <1>4. pol \in S
    BY <1>1
  <1>5. PICK g : Recursion(g, S, pol, Len(selects), F)
    BY <1>3, <1>4, RecursionExists
  <1>6. ASSUME NEW k \in 0 .. Len(selects), k # 0
        PROVE  F[<<g[k - 1], k>>] = AddSelector(g[k - 1], selects[k])
    <2>1. k \in 1 .. Len(selects) /\ g[k - 1] \in S
      BY <1>5, <1>6 DEF Recursion
    <2> QED BY <1>2, <2>1
  <1>7. g = [k \in 0 .. Len(selects) |-> IF k = 0 THEN pol ELSE AddSelector(g[k - 1], selects[k])]
    BY <1>5, <1>6 DEF Recursion
  <1>8. PICK done :
          /\ done = [k \in 0 .. Len(selects) |->
                       IF k = 0 THEN pol ELSE AddSelector(done[k - 1], selects[k])]
          /\ AddSelectors(pol, selects) = done[Len(selects)]
    BY <1>7 DEF AddSelectors
  <1>9. done[0] \in S /\ \A k \in 1 .. Len(selects) : done[k] = AddSelector(done[k - 1], selects[k])
    BY <1>4, <1>8
  <1>10. Keeping(done, Len(selects), S)
    BY <1>1, <1>9, AddSelectorTables DEF Keeping
  <1>11. done[Len(selects)] \in S
    BY <1>10, RecursionKeeps
  <1> QED BY <1>1, <1>8, <1>11

\* What a profile extends are profiles (xccdf_policy.c:1729-1752).
LEMMA AncestorsShape ==
  ASSUME ModelOK, benchmark # None, NEW p \in Profiles
  PROVE  Ancestors(p) \in Seq(Profiles)
  <1>1. PICK n \in Nat : n = Cardinality(Profiles)
    BY ItemsFinite
  <1>2. PICK S : S = Seq(Profiles) \ {<<>>}
    OBVIOUS
  <1>3. ASSUME NEW chain \in S
        PROVE  WithExtended(chain) \in S
    BY <1>2 DEF WithExtended
  <1>4. PICK F : F = [x \in S \X (1 .. n) |-> WithExtended(x[1])]
    OBVIOUS
  <1>5. F \in StepsOf(S, n)
    BY <1>3, <1>4 DEF StepsOf
  <1>6. <<p>> \in S
    BY <1>2
  <1>7. PICK g : Recursion(g, S, <<p>>, n, F)
    BY <1>5, <1>6, RecursionExists
  <1>8. ASSUME NEW k \in 0 .. n, k # 0
        PROVE  F[<<g[k - 1], k>>] = WithExtended(g[k - 1])
    <2>1. k \in 1 .. n /\ g[k - 1] \in S
      BY <1>7, <1>8 DEF Recursion
    <2> QED BY <1>4, <2>1
  <1>9. g = [k \in 0 .. n |-> IF k = 0 THEN <<p>> ELSE WithExtended(g[k - 1])]
    BY <1>7, <1>8 DEF Recursion
  <1>10. PICK up : /\ up = [k \in 0 .. n |-> IF k = 0 THEN <<p>> ELSE WithExtended(up[k - 1])]
                   /\ Ancestors(p) = up[n]
    BY <1>1, <1>9 DEF Ancestors
  <1>11. up[0] \in S /\ \A k \in 1 .. n : up[k] = WithExtended(up[k - 1])
    BY <1>6, <1>10
  <1>12. Keeping(up, n, S)
    BY <1>3, <1>11 DEF Keeping
  <1>13. up[n] \in S
    BY <1>12, RecursionKeeps
  <1> QED BY <1>2, <1>10, <1>13

\* A policy that is made (xccdf_policy.c:1776-1810).
LEMMA NewTables ==
  ASSUME ModelOK, benchmark # None, NEW p \in Profiles \cup {None}
  PROVE  /\ xccdf_policy_new(p) \in PolicyTables(Attached)
         /\ xccdf_policy_new(p).added = <<>>
  <1>1. PICK empty : empty = [added |-> <<>>, internal |-> [i \in Attached |-> <<>>],
                              final |-> [i \in Attached |-> FALSE]]
    OBVIOUS
  <1>2. PICK S : S = {q \in PolicyTables(Attached) : q.added = <<>>}
    OBVIOUS
  <1>3. empty \in S
    BY <1>1, <1>2 DEF PolicyTables
  <1>4. PICK chain : chain = IF p = None THEN <<>> ELSE Ancestors(p)
    OBVIOUS
  <1>5. chain \in Seq(Profiles)
    BY <1>4, AncestorsShape
  <1>6. ASSUME NEW pol \in S, NEW k \in 1 .. Len(chain)
        PROVE  AddSelectors(pol, benchmark[chain[k]].selects) \in S
    <2>1. PICK selects : selects = benchmark[chain[k]].selects
      OBVIOUS
    <2>2. chain[k] \in Ids
      BY <1>5, ItemsFinite
    <2>3. Len(selects) \in Nat /\ \A j \in 1 .. Len(selects) : selects[j].selected \in BOOLEAN
      BY <2>1, <2>2, BenchmarkShape
    <2> QED BY <1>2, <2>1, <2>3, AddSelectorsTables
  <1>7. PICK F : F = [x \in S \X (1 .. Len(chain)) |-> AddSelectors(x[1], benchmark[chain[x[2]]].selects)]
    OBVIOUS
  <1>8. F \in StepsOf(S, Len(chain)) /\ Len(chain) \in Nat
    BY <1>5, <1>6, <1>7 DEF StepsOf
  <1>9. PICK g : Recursion(g, S, empty, Len(chain), F)
    BY <1>3, <1>8, RecursionExists
  <1>10. ASSUME NEW k \in 0 .. Len(chain), k # 0
         PROVE  F[<<g[k - 1], k>>] = AddSelectors(g[k - 1], benchmark[chain[k]].selects)
    <2>1. k \in 1 .. Len(chain) /\ g[k - 1] \in S
      BY <1>8, <1>9, <1>10 DEF Recursion
    <2> QED BY <1>7, <2>1
  <1>11. g = [k \in 0 .. Len(chain) |->
               IF k = 0 THEN empty ELSE AddSelectors(g[k - 1], benchmark[chain[k]].selects)]
    BY <1>9, <1>10 DEF Recursion
  <1>12. PICK done :
           /\ done = [k \in 0 .. Len(chain) |->
                        IF k = 0 THEN empty ELSE AddSelectors(done[k - 1], benchmark[chain[k]].selects)]
           /\ _xccdf_policy_add_profile_selectors(empty, p) = done[Len(chain)]
    BY <1>4, <1>11 DEF _xccdf_policy_add_profile_selectors
  <1>13. /\ done[0] \in S
         /\ \A k \in 1 .. Len(chain) : done[k] = AddSelectors(done[k - 1], benchmark[chain[k]].selects)
    BY <1>3, <1>8, <1>12
  <1>14. Keeping(done, Len(chain), S)
    BY <1>6, <1>13 DEF Keeping
  <1>15. done[Len(chain)] \in S
    BY <1>8, <1>14, RecursionKeeps
  <1>16. Len(benchmark[Root].content) \in Nat
    BY BenchmarkShape
  <1>17. PICK made, items : made = done[Len(chain)] /\ items = benchmark[Root].content
    OBVIOUS
  <1>18. xccdf_policy_new(p) = ResolveItems(made, items, TRUE)
    BY <1>1, <1>12, <1>17 DEF xccdf_policy_new
  <1>19. made \in PolicyTables(Attached) /\ made.added = <<>> /\ Len(items) \in Nat
    BY <1>2, <1>15, <1>16, <1>17
  <1> QED BY <1>18, <1>19, ResolveItemsTables

\* A policy with one more select of the user (xccdf_policy.c:1722-1727).
LEMMA AddSelectTables ==
  ASSUME ModelOK, benchmark # None, NEW pol \in PolicyTables(Attached), NEW sel \in UserSelects
  PROVE  /\ xccdf_policy_add_select(pol, sel) \in PolicyTables(Attached)
         /\ xccdf_policy_add_select(pol, sel).added = pol.added
  <1>1. PICK new : new = AddSelector(pol, sel)
    OBVIOUS
  <1>2. new \in PolicyTables(Attached) /\ new.added = pol.added
    BY <1>1, AddSelectorTables, PolicyAssumption
  <1>3. IsFiniteSet(SelectTargets(sel))
    <2>1. SelectTargets(sel) \subseteq Attached
      BY DEF SelectTargets
    <2> QED BY <2>1, ItemsFinite, FS_Subset
  <1>4. Len(SetToSeq(SelectTargets(sel))) \in Nat
    BY <1>3, SetAsSequence
  <1> QED BY <1>1, <1>2, <1>4, ResolveItemsTables DEF xccdf_policy_add_select

-----------------------------------------------------------------------------
(* What is bound for a check.                                              *)

\* A place among the entries of a list, or none.
LEMMA PlaceInList ==
  ASSUME NEW s, Len(s) \in Nat, NEW I, I \subseteq 1 .. Len(s)
  PROVE  /\ (IF I # {} THEN Max(I) ELSE 0) \in 0 .. Len(s)
         /\ (IF I # {} THEN Min(I) ELSE 0) \in 0 .. Len(s)
  <1>1. I # {} => Max(I) \in 1 .. Len(s) /\ Min(I) \in 1 .. Len(s)
    BY LastFits, FirstFits
  <1> QED BY <1>1

\* Only values are bound (xccdf_policy.c:456-515).
LEMMA BindingsAreValues ==
  ASSUME ModelOK, MadeOK, CurrentOK, current # <<>>, benchmark # None, NEW check, Bindable(check)
  PROVE  \A b \in xccdf_policy_check_get_value_bindings(check) : b.value \in Values
  <1>1. ASSUME NEW v \in DOMAIN XccdfValues, Instance(v) # 0
        PROVE  BoundValue(v) \in Values
    <2>1. PICK set : set = LastAbout("setvalues", v)
      OBVIOUS
    <2>2. CASE set = 0
      <3>1. PICK list : list = XccdfValues[v]
        OBVIOUS
      <3>2. list \in Seq(Range(list)) /\ list # <<>> /\ \A i \in Range(list) : i.value \in Values
        BY <3>1, PolicyAssumption
      <3>3. PICK selector : Instance(v) = xccdf_value_get_instance_by_selector(v, selector)
        BY DEF Instance
      <3>4. Instance(v) \in 1 .. Len(list)
        <4>1. PICK fitting : fitting = SelectInSeq(list, LAMBDA i : i.selector = selector)
          OBVIOUS
        <4>2. fitting \in 0 .. Len(list)
          <5>1. PICK I : I = {i \in 1 .. Len(list) : list[i].selector = selector}
            OBVIOUS
          <5>2. fitting = IF I # {} THEN Min(I) ELSE 0
            BY <4>1, <5>1 DEF SelectInSeq
          <5>3. Len(list) \in Nat /\ I \subseteq 1 .. Len(list)
            BY <3>2, <5>1
          <5> QED BY <5>2, <5>3, PlaceInList
        <4>3. Instance(v) = IF fitting = 0 /\ selector = "" THEN 1 ELSE fitting
          BY <3>1, <3>3, <4>1 DEF xccdf_value_get_instance_by_selector
        <4>4. 1 \in 1 .. Len(list) /\ Len(list) \in Nat
          BY <3>2
        <4>5. Instance(v) = 1 \/ Instance(v) = fitting
          BY <4>3
        <4> QED BY <1>1, <4>2, <4>4, <4>5
      <3>5. list[Instance(v)] \in Range(list)
        BY <3>2, <3>4
      <3>6. BoundValue(v) = list[Instance(v)].value
        BY <2>1, <2>2, <3>1 DEF BoundValue
      <3> QED BY <3>2, <3>5, <3>6
    <2>3. CASE set # 0
      <3>1. PICK list : list = OfProfile("setvalues")
        OBVIOUS
      <3>2. PICK p \in DOMAIN policies : current = <<p>>
        BY DEF CurrentOK
      <3>3. current[1] = p /\ (current # <<None>> => p # None)
        BY <3>2
      <3>4. Len(list) \in Nat /\ \A k \in 1 .. Len(list) : list[k].value \in Values
        <4>1. CASE current = <<None>>
          <5>1. list = <<>>
            BY <3>1, <4>1 DEF OfProfile
          <5> QED BY <5>1
        <4>2. CASE current # <<None>>
          <5>1. p \in Ids
            BY <3>3, <4>2, ItemsFinite DEF MadeOK
          <5>2. list = benchmark[p]["setvalues"]
            BY <3>1, <3>3, <4>2 DEF OfProfile
          <5> QED BY <5>1, <5>2, BenchmarkShape
        <4> QED BY <4>1, <4>2
      <3>5. set \in 0 .. Len(list)
        <4>1. PICK I : I = {i \in 1 .. Len(list) : list[i].item = v}
          OBVIOUS
        <4>2. set = IF I # {} THEN Max(I) ELSE 0
          BY <2>1, <3>1, <4>1 DEF LastAbout, SelectLastInSeq
        <4>3. I \subseteq 1 .. Len(list)
          BY <4>1
        <4> QED BY <3>4, <4>2, <4>3, PlaceInList
      <3>6. BoundValue(v) = list[set].value
        BY <2>1, <2>3, <3>1 DEF BoundValue
      <3> QED BY <2>3, <3>4, <3>5, <3>6
    <2> QED BY <2>2, <2>3
  <1>2. ASSUME NEW e \in Range(check.exports)
        PROVE  BoundValue(e.value) \in Values
    BY <1>1 DEF Bindable
  <1> QED BY <1>2 DEF xccdf_policy_check_get_value_bindings

\* It is the same as long as the policy is.
LEMMA BindableSame ==
  ASSUME UNCHANGED <<benchmark, current>>, NEW check
  PROVE  Bindable(check)' <=> Bindable(check)
  <1>1. \A field : OfProfile(field)' = OfProfile(field)
    BY DEF OfProfile
  <1>2. \A field, v : LastAbout(field, v)' = LastAbout(field, v)
    BY <1>1 DEF LastAbout, SelectLastInSeq
  <1>3. \A v : Instance(v)' = Instance(v)
    BY <1>1, <1>2 DEF Instance
  <1> QED BY <1>3 DEF Bindable

-----------------------------------------------------------------------------
(* The evaluation.                                                         *)

Order == RulesIn(benchmark)
Applies(r) == xccdf_policy_model_item_is_applicable(r)

\* What a rule may get, by its selection and its platforms
\* (xccdf_policy.c:992-1009).
Deserves(r, result) ==
  /\ result \in Outcome \cup {"notselected"}
  /\ result = "notselected" <=> ~Selected(r)
  /\ Selected(r) /\ ~Applies(r) => result = "notapplicable"

\* Reports are about the rules in document order, some about the same one,
\* and none is passed by; place says which rule each is about.
Places(place, reports, order) ==
  /\ place \in [1 .. Len(reports) -> 1 .. Len(order)]
  /\ \A j \in 1 .. Len(reports) : reports[j].rule = order[place[j]]
  /\ \A j \in 1 .. Len(reports) :
       place[j] \in IF j = 1 THEN {1} ELSE {place[j - 1], place[j - 1] + 1}
LastPlace(place, reports) == IF reports = <<>> THEN 0 ELSE place[Len(reports)]
RestFrom(order, k) == SubSeq(order, k + 1, Len(order))

\* k rules are done, and for the next there may be reports already.
Walking(k) ==
  /\ run.rules = RestFrom(Order, k)
  /\ \E place : Places(place, report, Order) /\ LastPlace(place, report) \in {k, k + 1}
Walked == \E place : Places(place, report, Order) /\ LastPlace(place, report) = Len(Order)
InOrder == \E place : Places(place, report, Order)

Running == run.status = "running"
OrderOK ==
  /\ Running => \E k \in 0 .. Len(Order) : Walking(k)
  /\ run.status = "complete" => Walked
  /\ run.status = "cancelled" => InOrder

\* The evaluation and its results so far.
IsRun(r) ==
  r = [pc |-> r.pc, status |-> r.status, rules |-> r.rules, check |-> r.check, parts |-> r.parts,
       refs |-> r.refs, names |-> r.names, acc |-> r.acc]
RunOK ==
  /\ IsRun(run)
  /\ run.pc \in {"idle", "overflow", "rule", "part", "ref", "called", "report"}
  /\ Running <=> run.pc \notin {"idle", "overflow"}
  /\ run.pc \in {"part", "ref", "called", "report"} => run.rules # <<>>
  /\ run.pc \in {"part", "ref", "called"} =>
       Selected(Rule) /\ Applies(Rule) /\ run.acc \in Outcome \cup {"none"}
  /\ run.pc \in {"ref", "called"} => Bindable(Part)
  /\ run.pc = "rule" => run.names = <<>>
  /\ run.pc = "report" =>
       Deserves(Rule, run.acc) /\ (run.names # <<>> => Selected(Rule) /\ Applies(Rule))
ReportOK ==
  /\ IsSeq(report)
  /\ \A j \in 1 .. Len(report) : report[j].result \in XccdfResult
  /\ Running => \A j \in 1 .. Len(report) : Deserves(report[j].rule, report[j].result)
TogetherOK ==
  /\ call.pc # "idle" <=> run.pc = "called"
  /\ run.status # "idle" => current # <<>>

\* What the order is made of.
LEMMA OrderShape ==
  ASSUME ModelOK, benchmark # None
  PROVE  Order \in Seq(Ids)
  BY ResolutionAssumption DEF ModelOK, Order, Ids

\* The rest of the rules.
LEMMA RestShape ==
  ASSUME NEW S, NEW order \in Seq(S), NEW k \in 0 .. Len(order)
  PROVE  /\ RestFrom(order, 0) = order
         /\ RestFrom(order, k) = <<>> <=> k = Len(order)
         /\ k # Len(order) => /\ Head(RestFrom(order, k)) = order[k + 1]
                              /\ Tail(RestFrom(order, k)) = RestFrom(order, k + 1)
                              /\ k + 1 \in 0 .. Len(order)
  <1>1. RestFrom(order, k) = [i \in 1 .. Len(order) - k |-> order[i + k]]
    BY DEF RestFrom
  <1>2. RestFrom(order, k) \in Seq(S) /\ Len(RestFrom(order, k)) = Len(order) - k
    BY <1>1
  <1>3. RestFrom(order, 0) = order
    BY DEF RestFrom
  <1>4. RestFrom(order, k) = <<>> <=> k = Len(order)
    BY <1>2
  <1>5. ASSUME k # Len(order)
        PROVE  /\ Head(RestFrom(order, k)) = order[k + 1]
               /\ Tail(RestFrom(order, k)) = RestFrom(order, k + 1)
               /\ k + 1 \in 0 .. Len(order)
    <2>1. PICK rest, next : rest = RestFrom(order, k) /\ next = RestFrom(order, k + 1)
      OBVIOUS
    <2>2. PICK n \in Nat : n = Len(order) - k /\ n > 0
      BY <1>5
    <2>3. rest \in Seq(S) /\ Len(rest) = n /\ \A i \in 1 .. n : rest[i] = order[i + k]
      BY <1>1, <1>2, <2>1, <2>2
    <2>4. next \in Seq(S) /\ Len(next) = n - 1 /\ \A i \in 1 .. n - 1 : next[i] = order[i + (k + 1)]
      BY <1>5, <2>1, <2>2 DEF RestFrom
    <2>5. Head(rest) = order[k + 1]
      <3>1. rest # <<>> /\ Head(rest) = rest[1]
        BY <2>2, <2>3
      <3>2. 1 \in 1 .. n
        BY <2>2
      <3>3. rest[1] = order[1 + k]
        BY <2>3, <3>2
      <3>4. 1 + k = k + 1
        OBVIOUS
      <3> QED BY <3>1, <3>3, <3>4
    <2>6. Tail(rest) \in Seq(S) /\ Len(Tail(rest)) = n - 1 /\ \A i \in 1 .. n - 1 : Tail(rest)[i] = rest[i + 1]
      <3>1. rest \in Seq(S) /\ Len(rest) = n
        BY <2>3
      <3>2. \A i \in 1 .. n - 1 : Tail(rest)[i] = rest[i + 1]
        BY <2>2, <3>1
      <3>3. Tail(rest) \in Seq(S) /\ Len(Tail(rest)) = n - 1
        BY <2>2, <3>1
      <3> QED BY <3>2, <3>3
    <2>7. \A i \in 1 .. n - 1 : Tail(rest)[i] = next[i]
      <3>1. ASSUME NEW i \in 1 .. n - 1
            PROVE  Tail(rest)[i] = next[i]
        <4>1. i + 1 \in 1 .. n /\ i + 1 + k = i + (k + 1)
          BY <2>2
        <4> QED BY <2>3, <2>4, <2>6, <4>1
      <3> QED BY <3>1
    <2>8. Tail(rest) = next
      BY <2>4, <2>6, <2>7
    <2> QED BY <1>5, <2>1, <2>5, <2>8
  <1> QED BY <1>3, <1>4, <1>5

\* One more report, about the rule that is next or is being reported.
LEMMA PlaceOneMore ==
  ASSUME NEW S, NEW order \in Seq(S), NEW k \in 0 .. Len(order) - 1,
         NEW reports, IsSeq(reports),
         NEW place, Places(place, reports, order), LastPlace(place, reports) \in {k, k + 1},
         NEW r, r.rule = order[k + 1]
  PROVE  \E more : /\ Places(more, Append(reports, r), order)
                   /\ LastPlace(more, Append(reports, r)) = k + 1
  <1>1. PICK n \in Nat : n = Len(reports)
    BY DEF IsSeq
  <1>2. PICK new : new = Append(reports, r)
    OBVIOUS
  <1>3. Len(reports) = 0 => reports = <<>>
    BY SeqShape DEF Started
  <1>4. Len(new) = n + 1 /\ new[n + 1] = r /\ \A j \in 1 .. n : new[j] = reports[j]
    BY <1>1, <1>2, Appended DEF IsSeq
  <1>5. PICK more : more = [j \in 1 .. n + 1 |-> IF j = n + 1 THEN k + 1 ELSE place[j]]
    OBVIOUS
  <1>6. place \in [1 .. n -> 1 .. Len(order)]
    BY <1>1 DEF Places
  <1>7. k + 1 \in 1 .. Len(order)
    OBVIOUS
  <1>8. more \in [1 .. n + 1 -> 1 .. Len(order)]
    BY <1>5, <1>6, <1>7
  <1>9. \A j \in 1 .. n + 1 : new[j].rule = order[more[j]]
    BY <1>1, <1>4, <1>5 DEF Places
  <1>10. \A j \in 1 .. n : more[j] = place[j]
    BY <1>5
  <1>11. more[n + 1] = k + 1
    BY <1>5
  <1>12. more[n + 1] \in IF n + 1 = 1 THEN {1} ELSE {more[n], more[n] + 1}
    <2>1. CASE n = 0
      <3>1. reports = <<>>
        BY <1>1, <1>3, <2>1
      <3>2. k = 0
        BY <3>1 DEF LastPlace
      <3> QED BY <1>11, <2>1, <3>2
    <2>2. CASE n # 0
      <3>1. reports # <<>>
        BY <1>1, <2>2
      <3>2. place[n] \in {k, k + 1}
        BY <1>1, <3>1 DEF LastPlace
      <3>3. more[n] = place[n]
        BY <1>10, <2>2
      <3> QED BY <1>11, <2>2, <3>2, <3>3
    <2> QED BY <2>1, <2>2
  <1>13. ASSUME NEW j \in 1 .. n
         PROVE  more[j] \in IF j = 1 THEN {1} ELSE {more[j - 1], more[j - 1] + 1}
    <2>1. place[j] \in IF j = 1 THEN {1} ELSE {place[j - 1], place[j - 1] + 1}
      BY <1>1 DEF Places
    <2>2. j # 1 => more[j - 1] = place[j - 1]
      BY <1>10
    <2> QED BY <1>10, <2>1, <2>2
  <1>14. \A j \in 1 .. n + 1 : more[j] \in IF j = 1 THEN {1} ELSE {more[j - 1], more[j - 1] + 1}
    <2>1. ASSUME NEW j \in 1 .. n + 1, j = n + 1
          PROVE  more[j] \in IF j = 1 THEN {1} ELSE {more[j - 1], more[j - 1] + 1}
      <3>1. j - 1 = n
        BY <2>1
      <3> QED BY <1>12, <2>1, <3>1
    <2>2. \A j \in 1 .. n + 1 : j \in 1 .. n \/ j = n + 1
      OBVIOUS
    <2> QED BY <1>13, <2>1, <2>2
  <1>15. Places(more, new, order)
    BY <1>4, <1>8, <1>9, <1>14 DEF Places
  <1>16. new # <<>>
    BY <1>1, <1>4
  <1> QED BY <1>2, <1>4, <1>11, <1>15, <1>16 DEF LastPlace

-----------------------------------------------------------------------------
(* What does not change with the policy.                                   *)

\* The user's selects.
UserAdded == UNION {{p} \X (DOMAIN policies[p].added) : p \in DOMAIN policies}
AddedOK == IsFiniteSet(UserAdded) /\ Cardinality(UserAdded) <= MaxSelects
TablesOK == ModelOK /\ MadeOK /\ AddedOK /\ CurrentOK

LEMMA SameBenchmark ==
  ASSUME UNCHANGED benchmark
  PROVE  Attached' = Attached /\ Profiles' = Profiles /\ Order' = Order
  <1>1. Profiles' = Profiles
    BY DEF Profiles
  <1>2. Order' = Order
    BY DEF Order
  <1>3. \A i : IsItem(i)' <=> IsItem(i)
    BY DEF IsItem
  <1>4. Inside' = Inside
    BY DEF Inside
  <1>5. Attached' = Attached
    BY <1>3, <1>4 DEF Attached
  <1> QED BY <1>1, <1>2, <1>5

LEMMA SameTables ==
  ASSUME TablesOK, UNCHANGED <<document, benchmark, policies, current>>
  PROVE  TablesOK'
  <1>1. Attached' = Attached /\ Profiles' = Profiles
    BY SameBenchmark
  <1>2. ModelOK' /\ CurrentOK'
    BY DEF TablesOK, ModelOK, CurrentOK
  <1>3. MadeOK'
    BY <1>1 DEF TablesOK, MadeOK
  <1>4. AddedOK'
    BY DEF TablesOK, AddedOK, UserAdded
  <1> QED BY <1>2, <1>3, <1>4 DEF TablesOK

\* A rule deserves the same.
LEMMA SameView ==
  ASSUME UNCHANGED <<benchmark, policies, current>>, NEW r
  PROVE  /\ Selected(r)' = Selected(r) /\ Applies(r)' = Applies(r)
         /\ \A result : Deserves(r, result)' <=> Deserves(r, result)
  <1>1. Selected(r)' = Selected(r)
    BY DEF Selected, Policy
  <1>2. Applies(r)' = Applies(r)
    BY DEF Applies, xccdf_policy_model_item_is_applicable
  <1> QED BY <1>1, <1>2 DEF Deserves

-----------------------------------------------------------------------------
(* The steps of an evaluation.                                             *)

EvaluatingOK == RunOK /\ OrderOK /\ ReportOK

\* A step on one rule: nothing is reported yet.
OnRule ==
  /\ UNCHANGED <<document, benchmark, policies, current, report>>
  /\ IsRun(run') /\ run'.status = run.status /\ run'.rules = run.rules
  /\ run'.pc \in {"part", "ref", "called", "report"} /\ Running /\ run.rules # <<>>
  /\ run'.pc # "report" => Selected(Rule) /\ Applies(Rule) /\ run'.acc \in Outcome \cup {"none"}
  /\ run'.pc \in {"ref", "called"} => Bindable(Head(run'.parts))
  /\ run'.pc = "report" =>
       Deserves(Rule, run'.acc) /\ (run'.names # <<>> => Selected(Rule) /\ Applies(Rule))

LEMMA OnRuleOK ==
  ASSUME EvaluatingOK, OnRule
  PROVE  EvaluatingOK' /\ Running'
  <1>1. PICK r, part : r = Rule /\ part = Head(run'.parts)
    OBVIOUS
  <1>2. /\ Selected(r)' = Selected(r) /\ Applies(r)' = Applies(r)
        /\ \A result : Deserves(r, result)' <=> Deserves(r, result)
    BY SameView DEF OnRule
  <1>3. Bindable(part)' <=> Bindable(part)
    BY BindableSame DEF OnRule
  <1>4. RunOK'
    <2>1. Rule' = r
      BY <1>1 DEF OnRule, Rule
    <2>2. Part' = part
      BY <1>1 DEF Part
    <2>3. /\ IsRun(run') /\ run'.pc \in {"part", "ref", "called", "report"}
          /\ run'.status = "running" /\ run'.rules # <<>>
      BY DEF OnRule, Running
    <2>4. run'.pc # "report" => Selected(r)' /\ Applies(r)' /\ run'.acc \in Outcome \cup {"none"}
      BY <1>1, <1>2 DEF OnRule
    <2>5. run'.pc \in {"ref", "called"} => Bindable(part)'
      BY <1>1, <1>3 DEF OnRule
    <2>6. run'.pc = "report" => Deserves(r, run'.acc)
      BY <1>1 DEF OnRule
    <2>7. PICK acc : acc = run'.acc
      OBVIOUS
    <2>8. run'.pc = "report" => Deserves(r, acc)'
      BY <1>2, <2>6, <2>7
    <2>9. run'.pc = "report" => Deserves(Rule, run.acc)'
      BY <2>1, <2>7, <2>8
    <2>10. run'.pc \in {"part", "ref", "called"} =>
             (Selected(Rule) /\ Applies(Rule))' /\ run'.acc \in Outcome \cup {"none"}
      BY <2>1, <2>4
    <2>11. run'.pc \in {"ref", "called"} => Bindable(Part)'
      BY <2>2, <2>5
    <2>12. run'.pc = "report" /\ run'.names # <<>> => (Selected(Rule) /\ Applies(Rule))'
      <3>1. run'.pc = "report" /\ run'.names # <<>> => Selected(r) /\ Applies(r)
        BY <1>1 DEF OnRule
      <3>2. run'.pc = "report" /\ run'.names # <<>> => Selected(r)' /\ Applies(r)'
        BY <1>2, <3>1
      <3> QED BY <2>1, <3>2
    <2> QED BY <2>3, <2>9, <2>10, <2>11, <2>12 DEF RunOK, Running, IsRun
  <1>5. Order' = Order
    BY SameBenchmark DEF OnRule
  <1>6. OrderOK' /\ Running'
    BY <1>5 DEF EvaluatingOK, OrderOK, OnRule, Running, Walking, Walked, InOrder
  <1>7. ReportOK'
    <2>1. \A j \in 1 .. Len(report) : Deserves(report[j].rule, report[j].result)
      BY DEF EvaluatingOK, ReportOK, OnRule
    <2>2. ASSUME NEW j \in 1 .. Len(report)
          PROVE  Deserves(report[j].rule, report[j].result)'
      <3>1. PICK q, result : q = report[j].rule /\ result = report[j].result
        OBVIOUS
      <3>2. Deserves(q, result)'
        BY <2>1, <3>1, SameView DEF OnRule
      <3> QED BY <3>1, <3>2 DEF OnRule
    <2> QED BY <2>2 DEF EvaluatingOK, ReportOK, OnRule
  <1> QED BY <1>4, <1>6, <1>7 DEF EvaluatingOK

\* What a checked rule deserves.
LEMMA OutcomeDeserved ==
  ASSUME NEW r, Selected(r), Applies(r), NEW result \in Outcome
  PROVE  Deserves(r, result)
  BY DEF Deserves, Outcome

\* A part of a check has its outcome (xccdf_policy.c:532-581).
LEMMA PartDoneOK ==
  ASSUME EvaluatingOK, run.pc \in {"part", "ref", "called"}, NEW r \in Outcome, PartDone(r),
         UNCHANGED <<document, benchmark, policies, current, report>>
  PROVE  OnRule /\ run'.pc \in {"part", "report"}
  <1>1. PICK value : value = _resolve_negate(r, Part.negate)
    OBVIOUS
  <1>2. value \in Outcome
    BY <1>1, NegateKnown
  <1>3. PICK acc : acc = IF run.acc = "none" THEN value ELSE _resolve_operation(run.acc, value, Check_.oper)
    OBVIOUS
  <1>4. acc \in Outcome
    BY <1>2, <1>3, OperationKnown DEF EvaluatingOK, RunOK
  <1>5. PICK last : last = IF Check_.complex THEN _resolve_negate(acc, Check_.negate) ELSE acc
    OBVIOUS
  <1>6. last \in Outcome
    BY <1>4, <1>5, NegateKnown
  <1>7. \/ run' = [run EXCEPT !.pc = "part", !.parts = Tail(@), !.acc = acc]
        \/ run' = [run EXCEPT !.pc = "report", !.acc = last]
    BY <1>1, <1>3, <1>5 DEF PartDone, ReportNext
  <1>8. /\ IsRun(run) /\ Running /\ run.rules # <<>> /\ Selected(Rule) /\ Applies(Rule)
    BY DEF EvaluatingOK, RunOK
  <1>9. /\ IsRun(run') /\ run'.status = run.status /\ run'.rules = run.rules
        /\ \/ run'.pc = "part" /\ run'.acc = acc
           \/ run'.pc = "report" /\ run'.acc = last
    BY <1>7, <1>8 DEF IsRun
  <1>10. Deserves(Rule, last)
    <2>1. PICK rule : rule = Rule
      OBVIOUS
    <2> QED BY <1>6, <1>8, <2>1, OutcomeDeserved
  <1> QED BY <1>4, <1>8, <1>9, <1>10 DEF OnRule

\* The steps that stay on a rule, but for the question and the answer.
LEMMA RuleStepOK ==
  ASSUME EvaluatingOK,
         RuleSkipped \/ RuleChecked \/ StartPart \/ NextReference \/ ExpandMultiCheck
  PROVE  OnRule /\ run.pc # "called" /\ run'.pc # "called" /\ UNCHANGED agentVars
  <1> USE DEF EvaluatingOK, RunOK
  <1>1. UNCHANGED <<agentVars, document, benchmark, policies, current, report>>
    BY DEF RuleSkipped, RuleChecked, StartPart, NextReference, ExpandMultiCheck
  <1>2. {"unknown", "notchecked"} \subseteq Outcome
    BY ResultsNamed DEF Outcome
  <1>3. CASE RuleSkipped
    <2>1. PICK result : /\ run' = [run EXCEPT !.pc = "report", !.acc = result]
                        /\ \/ ~Selected(Rule) /\ result = "notselected"
                           \/ Selected(Rule) /\ ~Applies(Rule) /\ result = "notapplicable"
                           \/ Selected(Rule) /\ Applies(Rule) /\ result = "notchecked"
      BY <1>3 DEF RuleSkipped, ReportNext, Applies
    <2>2. run.pc = "rule" /\ run.rules # <<>>
      BY <1>3 DEF RuleSkipped
    <2>3. /\ IsRun(run') /\ run'.status = run.status /\ run'.rules = run.rules
          /\ run'.pc = "report" /\ run'.acc = result /\ run'.names = <<>>
      BY <2>1, <2>2 DEF IsRun
    <2>4. Deserves(Rule, result)
      BY <2>1, ResultsNamed DEF Deserves, Outcome
    <2> QED BY <1>1, <2>2, <2>3, <2>4 DEF OnRule
  <1>4. CASE RuleChecked
    <2>1. PICK check, parts : run' = [run EXCEPT !.pc = "part", !.check = <<check>>, !.acc = "none",
                                                 !.parts = parts]
      BY <1>4 DEF RuleChecked
    <2>2. run.pc = "rule" /\ run.rules # <<>> /\ Selected(Rule) /\ Applies(Rule)
      BY <1>4 DEF RuleChecked, Applies
    <2>3. /\ IsRun(run') /\ run'.status = run.status /\ run'.rules = run.rules
          /\ run'.pc = "part" /\ run'.acc = "none"
      BY <2>1 DEF IsRun
    <2> QED BY <1>1, <2>2, <2>3 DEF OnRule
  <1>5. CASE StartPart
    <2>1. run.pc = "part"
      BY <1>5 DEF StartPart
    <2>2. CASE Bindable(Part)
      <3>1. PICK refs : run' = [run EXCEPT !.pc = "ref", !.refs = refs]
        BY <1>5, <2>2 DEF StartPart
      <3>2. /\ IsRun(run') /\ run'.status = run.status /\ run'.rules = run.rules
            /\ run'.pc = "ref" /\ run'.acc = run.acc /\ run'.parts = run.parts
        BY <3>1 DEF IsRun
      <3>3. Bindable(Head(run'.parts))
        BY <2>2, <3>2 DEF Part
      <3> QED BY <1>1, <2>1, <3>2, <3>3 DEF OnRule
    <2>3. CASE ~Bindable(Part)
      <3>1. PartDone("unknown")
        BY <1>5, <2>3 DEF StartPart
      <3> QED BY <1>1, <1>2, <2>1, <3>1, PartDoneOK
    <2> QED BY <2>2, <2>3
  <1>6. CASE NextReference
    <2>1. run.pc = "ref"
      BY <1>6 DEF NextReference
    <2>2. CASE run.refs = <<>>
      <3>1. PartDone("notchecked")
        BY <1>6, <2>2 DEF NextReference
      <3> QED BY <1>1, <1>2, <2>1, <3>1, PartDoneOK
    <2>3. CASE run.refs # <<>>
      <3>1. run' = [run EXCEPT !.refs = Tail(@)]
        BY <1>6, <2>3 DEF NextReference
      <3>2. /\ IsRun(run') /\ run'.status = run.status /\ run'.rules = run.rules
            /\ run'.pc = "ref" /\ run'.acc = run.acc /\ run'.parts = run.parts
        BY <2>1, <3>1 DEF IsRun
      <3>3. Bindable(Head(run'.parts))
        BY <2>1, <3>2 DEF Part
      <3> QED BY <1>1, <2>1, <3>2, <3>3 DEF OnRule
    <2> QED BY <2>2, <2>3
  <1>7. CASE ExpandMultiCheck
    <2>1. run.pc = "ref"
      BY <1>7 DEF ExpandMultiCheck
    <2>2. \/ run' = [run EXCEPT !.pc = "report", !.acc = "unknown"]
          \/ run' = [run EXCEPT !.pc = "part", !.names = DefinitionIds]
      BY <1>7 DEF ExpandMultiCheck, ReportNext
    <2>3. /\ IsRun(run') /\ run'.status = run.status /\ run'.rules = run.rules
          /\ \/ run'.pc = "report" /\ run'.acc = "unknown"
             \/ run'.pc = "part" /\ run'.acc = run.acc
      BY <2>2 DEF IsRun
    <2>4. Deserves(Rule, "unknown")
      <3>1. PICK rule : rule = Rule
        OBVIOUS
      <3> QED BY <1>2, <2>1, <3>1, OutcomeDeserved
    <2> QED BY <1>1, <2>1, <2>3, <2>4 DEF OnRule
  <1> QED BY <1>1, <1>3, <1>4, <1>5, <1>6, <1>7

\* An evaluation that is not going on any more,
LEMMA EndedOK ==
  ASSUME IsRun(run'), run'.pc \in {"idle", "overflow"}, run'.status # "running",
         IsSeq(report'), \A j \in 1 .. Len(report') : report'[j].result \in XccdfResult,
         run'.status = "complete" => Walked', run'.status = "cancelled" => InOrder'
  PROVE  EvaluatingOK'
  BY DEF EvaluatingOK, RunOK, OrderOK, ReportOK, Running, IsRun

\* and one that goes on with the next rule.
LEMMA NextRuleOK ==
  ASSUME IsRun(run'), run'.pc = "rule", run'.status = "running", run'.names = <<>>,
         ReportOK', \E k \in 0 .. Len(Order') : Walking(k)'
  PROVE  EvaluatingOK'
  <1>1. Running' /\ RunOK'
    BY DEF RunOK, Running, IsRun
  <1>2. OrderOK'
    BY <1>1 DEF OrderOK, Running
  <1> QED BY <1>1, <1>2 DEF EvaluatingOK

\* The reports so far, and one more, stay what the rules deserve.
LEMMA ReportKept ==
  ASSUME ReportOK, Running, UNCHANGED <<benchmark, policies, current>>,
         \/ UNCHANGED report
         \/ \E r : report' = Append(report, r) /\ Deserves(r.rule, r.result)
  PROVE  ReportOK'
  <1>1. ASSUME NEW r, Deserves(r.rule, r.result)
        PROVE  r.result \in XccdfResult
    BY <1>1, ResultsNamed DEF Deserves, Outcome
  <1>2. PICK n \in Nat : n = Len(report) /\ DOMAIN report = 1 .. n
    BY SeqShape DEF ReportOK
  <1>3. PICK more : more = report'
    OBVIOUS
  <1>4. /\ IsSeq(more)
        /\ \A j \in 1 .. Len(more) : /\ more[j].result \in XccdfResult
                                     /\ Deserves(more[j].rule, more[j].result)
    <2>1. CASE UNCHANGED report
      BY <1>3, <2>1 DEF ReportOK
    <2>2. CASE \E r : report' = Append(report, r) /\ Deserves(r.rule, r.result)
      <3>1. PICK r : more = Append(report, r) /\ Deserves(r.rule, r.result)
        BY <1>3, <2>2
      <3>2. /\ IsSeq(more) /\ Len(more) = n + 1 /\ more[n + 1] = r
            /\ \A j \in 1 .. n : more[j] = report[j]
        BY <1>2, <3>1, Appended DEF ReportOK
      <3>3. \A j \in 1 .. n + 1 : j \in 1 .. n \/ j = n + 1
        OBVIOUS
      <3>4. \A j \in 1 .. n : report[j].result \in XccdfResult /\ Deserves(report[j].rule, report[j].result)
        BY <1>2 DEF ReportOK
      <3> QED BY <1>1, <3>1, <3>2, <3>3, <3>4
    <2> QED BY <2>1, <2>2
  <1>5. ASSUME NEW j \in 1 .. Len(more)
        PROVE  Deserves(more[j].rule, more[j].result)'
    <2>1. PICK q, result : q = more[j].rule /\ result = more[j].result
      OBVIOUS
    <2>2. Deserves(q, result)'
      BY <1>4, <2>1, SameView
    <2> QED BY <2>1, <2>2
  <1> QED BY <1>3, <1>4, <1>5 DEF ReportOK

\* A step that leaves the evaluation and what it is about alone.
LEMMA SameEvaluating ==
  ASSUME EvaluatingOK, UNCHANGED <<benchmark, run, report>>,
         UNCHANGED <<policies, current>> \/ ~Running
  PROVE  EvaluatingOK'
  <1>1. Order' = Order
    BY SameBenchmark
  <1>2. CASE ~Running
    <2>1. /\ IsRun(run') /\ run'.pc \in {"idle", "overflow"} /\ run'.status # "running"
          /\ IsSeq(report') /\ \A j \in 1 .. Len(report') : report'[j].result \in XccdfResult
      BY <1>2 DEF EvaluatingOK, RunOK, ReportOK, Running
    <2>2. /\ run'.status = "complete" => Walked'
          /\ run'.status = "cancelled" => InOrder'
      BY <1>1 DEF EvaluatingOK, OrderOK, Walked, InOrder
    <2> QED BY <2>1, <2>2, EndedOK
  <1>3. CASE Running
    <2>1. UNCHANGED <<policies, current>>
      BY <1>3
    <2>2. PICK r, part, acc : r = Rule /\ part = Part /\ acc = run.acc
      OBVIOUS
    <2>3. Rule' = r /\ Part' = part /\ run'.acc = acc
      BY <2>2 DEF Rule, Part
    <2>4. /\ Selected(r)' = Selected(r) /\ Applies(r)' = Applies(r)
          /\ Deserves(r, acc)' <=> Deserves(r, acc)
      BY <2>1, SameView
    <2>5. Bindable(part)' <=> Bindable(part)
      BY <2>1, BindableSame
    <2>6. RunOK'
      <3>1. (Selected(Rule) /\ Applies(Rule))' <=> Selected(Rule) /\ Applies(Rule)
        BY <2>2, <2>3, <2>4
      <3>2. Deserves(Rule, run.acc)' <=> Deserves(Rule, run.acc)
        BY <2>2, <2>3, <2>4
      <3>3. Bindable(Part)' <=> Bindable(Part)
        BY <2>2, <2>3, <2>5
      <3> QED BY <3>1, <3>2, <3>3 DEF EvaluatingOK, RunOK, Running, IsRun
    <2>7. OrderOK'
      BY <1>1 DEF EvaluatingOK, OrderOK, Running, Walking, Walked, InOrder
    <2>8. ReportOK'
      BY <1>3, <2>1, ReportKept DEF EvaluatingOK
    <2> QED BY <2>6, <2>7, <2>8 DEF EvaluatingOK
  <1> QED BY <1>2, <1>3

\* Where the walk is: at a rule of the order, or through.
LEMMA WalkShape ==
  ASSUME ModelOK, benchmark # None, NEW k \in 0 .. Len(Order), Walking(k)
  PROVE  /\ run.rules = <<>> => k = Len(Order)
         /\ run.rules # <<>> => /\ k \in 0 .. Len(Order) - 1
                                /\ Rule = Order[k + 1]
                                /\ Tail(run.rules) = RestFrom(Order, k + 1)
  <1>1. PICK order : order = Order /\ order \in Seq(Ids)
    BY OrderShape
  <1>2. k \in 0 .. Len(order) /\ run.rules = RestFrom(order, k)
    BY <1>1 DEF Walking
  <1>3. /\ RestFrom(order, k) = <<>> <=> k = Len(order)
        /\ k # Len(order) => /\ Head(RestFrom(order, k)) = order[k + 1]
                             /\ Tail(RestFrom(order, k)) = RestFrom(order, k + 1)
    BY <1>1, <1>2, RestShape
  <1>4. k # Len(order) => k \in 0 .. Len(order) - 1
    <2>1. Len(order) \in Nat
      BY <1>1
    <2> QED BY <1>2, <2>1
  <1> QED BY <1>1, <1>2, <1>3, <1>4 DEF Rule

\* The evaluation starts at the first rule (xccdf_policy.c:2076-2089).
LEMMA EvaluateOK ==
  ASSUME TablesOK, evaluate
  PROVE  EvaluatingOK' /\ Running'
  <1>1. benchmark # None
    BY DEF evaluate, TablesOK, MadeOK, CurrentOK
  <1>2. PICK order : order = Order /\ order \in Seq(Ids)
    BY <1>1, OrderShape DEF TablesOK
  <1>3. Order' = order
    BY <1>2, SameBenchmark DEF evaluate
  <1>4. /\ IsRun(run') /\ run'.pc = "rule" /\ run'.status = "running" /\ run'.names = <<>>
        /\ run'.rules = order
    BY <1>2 DEF evaluate, NotRunning, IsRun, Order
  <1>5. report' = <<>>
    BY DEF evaluate
  <1>6. ReportOK'
    BY <1>5 DEF ReportOK, IsSeq
  <1>7. Walking(0)'
    <2>1. Len(order) \in Nat
      BY <1>2
    <2>2. 0 \in 0 .. Len(order)
      BY <2>1
    <2>3. RestFrom(order, 0) = order
      BY <1>2, <2>2, RestShape
    <2>4. PICK place : place = [j \in 1 .. 0 |-> 1]
      OBVIOUS
    <2>5. Places(place, <<>>, order) /\ LastPlace(place, <<>>) = 0
      BY <2>4 DEF Places, LastPlace
    <2>6. run'.rules = RestFrom(Order, 0)'
      BY <1>3, <1>4, <2>3
    <2>7. \E p : Places(p, report', Order') /\ LastPlace(p, report') \in {0, 0 + 1}
      BY <1>3, <1>5, <2>5
    <2> QED BY <2>6, <2>7 DEF Walking
  <1>8. 0 \in 0 .. Len(Order')
    <2>1. Len(order) \in Nat
      BY <1>2
    <2> QED BY <1>3, <2>1
  <1>9. EvaluatingOK'
    BY <1>4, <1>6, <1>7, <1>8, NextRuleOK
  <1> QED BY <1>4, <1>9 DEF Running

\* No rule is left out when there are no more
\* (xccdf_policy.c:1115-1127, 2076-2109).
LEMMA NoMoreRulesOK ==
  ASSUME TablesOK, EvaluatingOK, benchmark # None, NoMoreRules
  PROVE  EvaluatingOK'
  <1>1. Running
    BY DEF EvaluatingOK, RunOK, NoMoreRules
  <1>2. PICK k \in 0 .. Len(Order) : Walking(k)
    BY <1>1 DEF EvaluatingOK, OrderOK
  <1>3. k = Len(Order)
    BY <1>2, WalkShape DEF NoMoreRules, TablesOK
  <1>4. PICK order, reports : order = Order /\ reports = report
    OBVIOUS
  <1>5. PICK place : Places(place, reports, order) /\ LastPlace(place, reports) \in {k, k + 1}
    BY <1>2, <1>4 DEF Walking
  <1>6. LastPlace(place, reports) = k
    <2>1. Len(order) \in Nat
      BY <1>4, OrderShape DEF TablesOK
    <2>2. CASE reports = <<>>
      BY <1>3, <1>4, <1>5, <2>1, <2>2 DEF LastPlace
    <2>3. CASE reports # <<>>
      <3>1. Len(reports) \in Nat /\ Len(reports) # 0
        BY <1>4, <2>3, SeqShape DEF EvaluatingOK, ReportOK, Started
      <3>2. place[Len(reports)] \in 1 .. Len(order)
        BY <1>5, <3>1 DEF Places
      <3> QED BY <1>3, <1>4, <1>5, <2>1, <2>3, <3>2 DEF LastPlace
    <2> QED BY <2>2, <2>3
  <1>7. Walked
    BY <1>3, <1>4, <1>5, <1>6 DEF Walked
  <1>8. Walked'
    <2>1. Order' = Order /\ report' = report
      BY SameBenchmark DEF NoMoreRules
    <2> QED BY <1>7, <2>1 DEF Walked
  <1>9. IsRun(run') /\ run'.pc = "idle" /\ run'.status = "complete"
    BY DEF NoMoreRules, Ended, NotRunning, IsRun
  <1>10. IsSeq(report') /\ \A j \in 1 .. Len(report') : report'[j].result \in XccdfResult
    BY DEF EvaluatingOK, ReportOK, NoMoreRules
  <1> QED BY <1>8, <1>9, <1>10, EndedOK

\* The report about a rule is where the walk is.
Reported == Append(report, [rule |-> Rule, result |-> run.acc])
ReportedAt(k) ==
  \E place : Places(place, Reported, Order) /\ LastPlace(place, Reported) = k + 1

LEMMA ReportOne ==
  ASSUME TablesOK, EvaluatingOK, benchmark # None, run.pc = "report"
  PROVE  /\ Running /\ run.rules # <<>> /\ Deserves(Rule, run.acc)
         /\ \E k \in 0 .. Len(Order) - 1 :
              /\ ReportedAt(k) /\ run.rules = RestFrom(Order, k)
              /\ Tail(run.rules) = RestFrom(Order, k + 1)
  <1>1. Running /\ run.rules # <<>> /\ Deserves(Rule, run.acc)
    BY DEF EvaluatingOK, RunOK
  <1>2. PICK k \in 0 .. Len(Order) : Walking(k)
    BY <1>1 DEF EvaluatingOK, OrderOK
  <1>3. /\ k \in 0 .. Len(Order) - 1 /\ Rule = Order[k + 1]
        /\ Tail(run.rules) = RestFrom(Order, k + 1)
    BY <1>1, <1>2, WalkShape DEF TablesOK
  <1>4. PICK order, reports, r : /\ order = Order /\ order \in Seq(Ids) /\ reports = report
                                 /\ r = [rule |-> Rule, result |-> run.acc]
    BY OrderShape DEF TablesOK
  <1>5. PICK place : Places(place, reports, order) /\ LastPlace(place, reports) \in {k, k + 1}
    BY <1>2, <1>4 DEF Walking
  <1>6. IsSeq(reports) /\ r.rule = order[k + 1] /\ k \in 0 .. Len(order) - 1
    BY <1>3, <1>4 DEF EvaluatingOK, ReportOK
  <1>7. \E more : /\ Places(more, Append(reports, r), order)
                  /\ LastPlace(more, Append(reports, r)) = k + 1
    BY <1>4, <1>5, <1>6, PlaceOneMore
  <1>8. ReportedAt(k)
    BY <1>4, <1>7 DEF ReportedAt, Reported
  <1> QED BY <1>1, <1>2, <1>3, <1>8 DEF Walking

\* A result is reported, and the next name or rule is up (xccdf_policy.c:724-747, 1055-1070).
LEMMA ReportResultOK ==
  ASSUME TablesOK, EvaluatingOK, benchmark # None, ReportResult
  PROVE  EvaluatingOK' /\ Running'
  <1>1. /\ Running /\ run.rules # <<>> /\ Deserves(Rule, run.acc)
    BY ReportOne DEF ReportResult
  <1>2. PICK k \in 0 .. Len(Order) - 1 :
          /\ ReportedAt(k) /\ run.rules = RestFrom(Order, k)
          /\ Tail(run.rules) = RestFrom(Order, k + 1)
    BY ReportOne DEF ReportResult
  <1>3. report' = Reported /\ run' = AfterReport /\ UNCHANGED <<document, benchmark, policies, current>>
    BY DEF ReportResult, Reported
  <1>4. Order' = Order
    BY <1>3, SameBenchmark
  <1>5. ReportOK'
    <2>1. PICK r : r = [rule |-> Rule, result |-> run.acc]
      OBVIOUS
    <2>2. PICK rule, acc : rule = Rule /\ acc = run.acc
      OBVIOUS
    <2>3. r.rule = rule /\ r.result = acc /\ Deserves(rule, acc)
      BY <1>1, <2>1, <2>2
    <2>4. report' = Append(report, r) /\ Deserves(r.rule, r.result)
      BY <1>3, <2>1, <2>3 DEF Reported
    <2> QED BY <1>1, <1>3, <2>4, ReportKept DEF EvaluatingOK
  <1>6. \E place : Places(place, report', Order') /\ LastPlace(place, report') = k + 1
    BY <1>2, <1>3, <1>4 DEF ReportedAt
  <1>7. Len(Order) \in Nat /\ k \in 0 .. Len(Order') /\ k + 1 \in 0 .. Len(Order')
    <2>1. Len(Order) \in Nat
      BY OrderShape DEF TablesOK
    <2> QED BY <1>4, <2>1
  <1>8. CASE Len(run.names) > 1
    <2>1. /\ IsRun(run') /\ run'.pc = "part" /\ run'.status = run.status /\ run'.rules = run.rules
          /\ run'.acc = "none"
      <3>1. run' = [run EXCEPT !.pc = "part", !.names = Tail(@), !.parts = <<Check_>>, !.refs = <<>>,
                               !.acc = "none"]
        BY <1>3, <1>8 DEF AfterReport
      <3> QED BY <3>1 DEF EvaluatingOK, RunOK, IsRun
    <2>2. Selected(Rule) /\ Applies(Rule)
      <3>1. run.names # <<>>
        BY <1>8
      <3> QED BY <3>1 DEF EvaluatingOK, RunOK, ReportResult
    <2>3. PICK r : r = Rule
      OBVIOUS
    <2>4. Rule' = r
      BY <2>1, <2>3 DEF Rule
    <2>5. Selected(r)' /\ Applies(r)'
      BY <1>3, <2>2, <2>3, SameView
    <2>6. RunOK' /\ Running'
      BY <1>1, <2>1, <2>4, <2>5 DEF RunOK, Running, IsRun
    <2>7. Walking(k)'
      <3>1. run'.rules = RestFrom(Order, k)'
        BY <1>2, <1>4, <2>1
      <3>2. \E place : Places(place, report', Order') /\ LastPlace(place, report') \in {k, k + 1}
        BY <1>6
      <3> QED BY <3>1, <3>2 DEF Walking
    <2>8. OrderOK'
      BY <1>7, <2>6, <2>7 DEF OrderOK, Running
    <2> QED BY <1>5, <2>6, <2>8 DEF EvaluatingOK
  <1>9. CASE ~(Len(run.names) > 1)
    <2>1. /\ IsRun(run') /\ run'.pc = "rule" /\ run'.status = "running" /\ run'.names = <<>>
          /\ run'.rules = Tail(run.rules)
      BY <1>3, <1>9 DEF AfterReport, NotRunning, IsRun
    <2>2. Walking(k + 1)'
      <3>1. run'.rules = RestFrom(Order, k + 1)'
        BY <1>2, <1>4, <2>1
      <3>2. \E place : Places(place, report', Order') /\ LastPlace(place, report') \in {k + 1, (k + 1) + 1}
        BY <1>6
      <3> QED BY <3>1, <3>2 DEF Walking
    <2>3. EvaluatingOK'
      BY <1>5, <1>7, <2>1, <2>2, NextRuleOK
    <2> QED BY <2>1, <2>3 DEF Running
  <1> QED BY <1>8, <1>9

\* The user stops the evaluation (xccdf_policy.c:437-454, 995-998).
LEMMA CancelledOK ==
  ASSUME TablesOK, EvaluatingOK, benchmark # None, Cancelled
  PROVE  EvaluatingOK'
  <1>1. IsRun(run') /\ run'.pc = "idle" /\ run'.status = "cancelled"
    BY DEF Cancelled, Ended, NotRunning, IsRun
  <1>2. Order' = Order /\ UNCHANGED <<document, benchmark, policies, current>>
    BY SameBenchmark DEF Cancelled
  <1>3. Running
    BY DEF Cancelled, EvaluatingOK, RunOK
  <1>4. ReportOK' /\ InOrder'
    <2>1. CASE run.pc = "report" /\ report' = Append(report, [rule |-> Rule, result |-> run.acc])
      <3>1. PICK k \in 0 .. Len(Order) - 1 : ReportedAt(k)
        BY <2>1, ReportOne
      <3>2. InOrder'
        BY <1>2, <2>1, <3>1 DEF ReportedAt, Reported, InOrder
      <3>3. PICK r, rule, acc : /\ r = [rule |-> rule, result |-> acc] /\ rule = Rule /\ acc = run.acc
        OBVIOUS
      <3>4. r.rule = rule /\ r.result = acc /\ Deserves(rule, acc)
        BY <2>1, <3>3, ReportOne
      <3>5. report' = Append(report, r) /\ Deserves(r.rule, r.result)
        BY <2>1, <3>3, <3>4
      <3> QED BY <1>2, <1>3, <3>2, <3>5, ReportKept DEF EvaluatingOK
    <2>2. CASE UNCHANGED report
      <3>1. InOrder'
        BY <1>2, <1>3, <2>2 DEF EvaluatingOK, OrderOK, Walking, InOrder
      <3> QED BY <1>2, <1>3, <2>2, <3>1, ReportKept DEF EvaluatingOK
    <2> QED BY <2>1, <2>2 DEF Cancelled
  <1> QED BY <1>1, <1>4, EndedOK DEF ReportOK

-----------------------------------------------------------------------------
(* The evaluation and the session together.                                *)

PolicyOK ==
  /\ AgentOK /\ Answers /\ TablesOK /\ EvaluatingOK /\ TogetherOK
  /\ evaluations \in 0 .. MaxEvaluations /\ cancels \in 0 .. MaxCancels

\* An evaluation that has begun is of a policy that was made.
LEMMA BegunOK ==
  ASSUME TablesOK, TogetherOK, run.status # "idle" \/ current # <<>>
  PROVE  current # <<>> /\ benchmark # None
  BY DEF TablesOK, TogetherOK, MadeOK, CurrentOK

\* A step on one rule that leaves the session alone.
LEMMA RuleStepTogether ==
  ASSUME PolicyOK, Next,
         RuleSkipped \/ RuleChecked \/ StartPart \/ NextReference \/ ExpandMultiCheck
  PROVE  PolicyOK'
  <1>1. OnRule /\ run.pc # "called" /\ run'.pc # "called" /\ UNCHANGED agentVars
    BY RuleStepOK DEF PolicyOK
  <1>2. EvaluatingOK' /\ Running'
    BY <1>1, OnRuleOK DEF PolicyOK
  <1>3. AgentOK' /\ Answers'
    BY <1>1, NextOK DEF PolicyOK, Answers, agentVars
  <1>4. TablesOK'
    BY <1>1, SameTables DEF PolicyOK, OnRule
  <1>5. TogetherOK'
    BY <1>1 DEF PolicyOK, TogetherOK, OnRule, agentVars
  <1>6. UNCHANGED <<evaluations, cancels>>
    BY DEF RuleSkipped, RuleChecked, StartPart, NextReference, ExpandMultiCheck
  <1> QED BY <1>2, <1>3, <1>4, <1>5, <1>6 DEF PolicyOK

\* The question (xccdf_policy.c:402-415).
LEMMA AskSessionTogether ==
  ASSUME PolicyOK, Next, AskSession
  PROVE  PolicyOK'
  <1>1. run.pc = "ref" /\ run' = [run EXCEPT !.pc = "called"]
        /\ UNCHANGED <<document, benchmark, policies, current, evaluations, report, cancels>>
    BY DEF AskSession
  <1>2. RunOK /\ IsRun(run) /\ Running /\ run.rules # <<>>
        /\ Selected(Rule) /\ Applies(Rule) /\ run.acc \in Outcome \cup {"none"} /\ Bindable(Part)
    BY <1>1 DEF PolicyOK, EvaluatingOK, RunOK
  <1>3. /\ IsRun(run') /\ run'.pc = "called" /\ run'.status = run.status /\ run'.rules = run.rules
        /\ run'.acc = run.acc /\ run'.parts = run.parts
    BY <1>1, <1>2 DEF IsRun
  <1>4. OnRule
    <2>1. Bindable(Head(run'.parts))
      BY <1>2, <1>3 DEF Part
    <2> QED BY <1>1, <1>2, <1>3, <2>1 DEF OnRule
  <1>5. EvaluatingOK' /\ Running'
    BY <1>4, OnRuleOK DEF PolicyOK
  <1>6. PICK name, part : /\ part = Part
                          /\ oval_agent_eval_rule(name, xccdf_policy_check_get_value_bindings(part))
    BY DEF AskSession
  <1>7. current # <<>> /\ benchmark # None
    BY <1>2, BegunOK DEF PolicyOK, Running
  <1>8. PICK bindings : /\ bindings = xccdf_policy_check_get_value_bindings(part)
                        /\ \A b \in bindings : b.value \in Values
    BY <1>2, <1>6, <1>7, BindingsAreValues DEF PolicyOK, TablesOK
  <1>9. Answers' /\ call'.pc # "idle"
    BY <1>6, <1>8, EvalRuleAnswers DEF PolicyOK
  <1>10. AgentOK'
    BY NextOK DEF PolicyOK
  <1>11. TablesOK'
    BY <1>1, SameTables DEF PolicyOK
  <1>12. TogetherOK'
    BY <1>1, <1>3, <1>7, <1>9 DEF TogetherOK
  <1> QED BY <1>1, <1>5, <1>9, <1>10, <1>11, <1>12 DEF PolicyOK

\* The answer (xccdf_policy.c:1082-1094, 2082-2086).
LEMMA SessionAnswersTogether ==
  ASSUME PolicyOK, Next, SessionAnswers
  PROVE  PolicyOK'
  <1>1. run.pc = "called" /\ call.pc = "returned" /\ call' = Idle /\ values' = values
        /\ UNCHANGED <<document, benchmark, policies, current, evaluations, cancels>>
    BY DEF SessionAnswers
  <1>2. call'.pc = "idle" /\ call'.acc = "none"
    BY <1>1 DEF Idle
  <1>3. Answers'
    BY <1>1, <1>2 DEF PolicyOK, Answers
  <1>4. AgentOK'
    BY NextOK DEF PolicyOK
  <1>5. TablesOK'
    BY <1>1, SameTables DEF PolicyOK
  <1>6. RunOK /\ IsRun(run) /\ Running /\ run.rules # <<>>
        /\ Selected(Rule) /\ Applies(Rule) /\ run.acc \in Outcome \cup {"none"} /\ Bindable(Part)
    BY <1>1 DEF PolicyOK, EvaluatingOK, RunOK
  <1>7. current # <<>> /\ benchmark # None
    BY <1>6, BegunOK DEF PolicyOK, Running
  <1>8. PICK result : result = call.result /\ result \in Outcome \cup {"failure"}
    BY <1>1 DEF PolicyOK, Answers
  <1>9. CASE result = "notchecked"
    <2>1. run' = [run EXCEPT !.pc = "ref", !.refs = Tail(@)] /\ UNCHANGED report
      BY <1>8, <1>9 DEF SessionAnswers
    <2>2. /\ IsRun(run') /\ run'.pc = "ref" /\ run'.status = run.status /\ run'.rules = run.rules
          /\ run'.acc = run.acc /\ run'.parts = run.parts
      BY <1>6, <2>1 DEF IsRun
    <2>3. Bindable(Head(run'.parts))
      BY <1>6, <2>2 DEF Part
    <2>4. OnRule
      BY <1>1, <1>6, <2>1, <2>2, <2>3 DEF OnRule
    <2>5. EvaluatingOK' /\ Running'
      BY <2>4, OnRuleOK DEF PolicyOK
    <2>6. TogetherOK'
      BY <1>1, <1>2, <1>7, <2>2 DEF TogetherOK
    <2> QED BY <1>1, <1>3, <1>4, <1>5, <2>5, <2>6 DEF PolicyOK
  <1>10. CASE result = "failure"
    <2>1. run' = Ended("failed") /\ report' = <<>>
      BY <1>8, <1>10 DEF SessionAnswers
    <2>2. IsRun(run') /\ run'.pc = "idle" /\ run'.status = "failed"
      BY <2>1 DEF Ended, NotRunning, IsRun
    <2>3. IsSeq(report') /\ Len(report') = 0
      BY <2>1 DEF IsSeq
    <2>4. EvaluatingOK'
      BY <2>2, <2>3, EndedOK
    <2>5. TogetherOK'
      BY <1>1, <1>2, <1>7, <2>2 DEF TogetherOK
    <2> QED BY <1>1, <1>3, <1>4, <1>5, <2>4, <2>5 DEF PolicyOK
  <1>11. CASE result # "notchecked" /\ result # "failure"
    <2>1. PartDone(result) /\ UNCHANGED report
      BY <1>8, <1>11 DEF SessionAnswers
    <2>2. OnRule /\ run'.pc \in {"part", "report"}
      BY <1>1, <1>8, <1>11, <2>1, PartDoneOK DEF PolicyOK
    <2>3. EvaluatingOK' /\ Running'
      BY <2>2, OnRuleOK DEF PolicyOK
    <2>4. TogetherOK'
      BY <1>1, <1>2, <1>7, <2>2 DEF TogetherOK
    <2> QED BY <1>1, <1>3, <1>4, <1>5, <2>3, <2>4 DEF PolicyOK
  <1> QED BY <1>9, <1>10, <1>11

\* A policy is made when it is asked for (xccdf_policy.c:1862-1910).
LEMMA GetPolicyTables ==
  ASSUME TablesOK, NEW p, get_policy(p)
  PROVE  TablesOK'
  <1>1. benchmark # None /\ p \in Profiles \cup {None} /\ current' = <<p>>
        /\ UNCHANGED <<document, benchmark>>
    BY DEF get_policy
  <1>2. Attached' = Attached /\ Profiles' = Profiles
    BY <1>1, SameBenchmark
  <1>3. PICK made, new : /\ made = policies /\ new = xccdf_policy_new(p)
                         /\ new \in PolicyTables(Attached) /\ new.added = <<>>
    BY <1>1, NewTables DEF TablesOK
  <1>4. PICK more : /\ more = policies' /\ DOMAIN more = DOMAIN made \cup {p}
                    /\ more = [q \in DOMAIN more |-> more[q]]
                    /\ \A q \in DOMAIN made : more[q] = made[q]
                    /\ p \notin DOMAIN made => more[p] = new
    BY <1>3 DEF get_policy
  <1>5. ModelOK'
    BY <1>1 DEF TablesOK, ModelOK
  <1>6. \A q \in DOMAIN made : q \in Profiles \cup {None} /\ made[q] \in PolicyTables(Attached)
    BY <1>3 DEF TablesOK, MadeOK
  <1>7. MadeOK'
    <2>1. DOMAIN more \subseteq Profiles \cup {None}
      BY <1>1, <1>4, <1>6
    <2>2. \A q \in DOMAIN more : more[q] \in PolicyTables(Attached)
      BY <1>3, <1>4, <1>6
    <2> QED BY <1>1, <1>2, <1>4, <2>1, <2>2 DEF MadeOK
  <1>8. CurrentOK'
    BY <1>1, <1>4 DEF CurrentOK
  <1>9. AddedOK'
    <2>1. p \notin DOMAIN made => {p} \X (DOMAIN more[p].added) = {}
      BY <1>3, <1>4
    <2>2. \A q \in DOMAIN made : {q} \X (DOMAIN more[q].added) = {q} \X (DOMAIN made[q].added)
      BY <1>4
    <2>3. UNION {{q} \X (DOMAIN more[q].added) : q \in DOMAIN more}
            = UNION {{q} \X (DOMAIN made[q].added) : q \in DOMAIN made}
      BY <1>4, <2>1, <2>2
    <2>4. UserAdded' = UserAdded
      BY <1>3, <1>4, <2>3 DEF UserAdded
    <2> QED BY <2>4 DEF TablesOK, AddedOK
  <1> QED BY <1>5, <1>7, <1>8, <1>9 DEF TablesOK

\* A select of the user comes into the tables and the list of his selects
\* (xccdf_policy.c:1722-1727).
LEMMA AddSelectOK ==
  ASSUME TablesOK, NEW sel \in UserSelects, add_select(sel)
  PROVE  TablesOK'
  <1>1. current # <<>> /\ UNCHANGED <<document, benchmark, current>>
    BY DEF add_select
  <1>2. PICK p \in DOMAIN policies : current = <<p>>
    BY <1>1 DEF TablesOK, CurrentOK
  <1>3. benchmark # None
    BY <1>2 DEF TablesOK, MadeOK
  <1>4. Attached' = Attached /\ Profiles' = Profiles
    BY <1>1, SameBenchmark
  <1>5. PICK made : /\ made = policies /\ p \in DOMAIN made
                    /\ made = [q \in DOMAIN made |-> made[q]]
                    /\ \A q \in DOMAIN made : made[q] \in PolicyTables(Attached)
    BY <1>2 DEF TablesOK, MadeOK
  <1>6. PICK pol : /\ pol = xccdf_policy_add_select(made[p], sel)
                   /\ pol \in PolicyTables(Attached) /\ pol.added = made[p].added
    BY <1>3, <1>5, AddSelectTables DEF TablesOK
  <1>7. PICK new : /\ new = [pol EXCEPT !.added = Append(@, sel)]
                   /\ new \in PolicyTables(Attached) /\ new.added = Append(made[p].added, sel)
    <2>1. PICK attached : attached = Attached
      OBVIOUS
    <2>2. PICK a, i, f : /\ a \in Seq(UserSelects) /\ f \in [attached -> BOOLEAN]
                         /\ i \in [attached -> {<<>>, <<TRUE>>, <<FALSE>>}]
                         /\ pol = [added |-> a, internal |-> i, final |-> f]
      BY <1>6, <2>1 DEF PolicyTables
    <2>3. PICK added : added = Append(a, sel) /\ added \in Seq(UserSelects)
      <3>1. Append(a, sel) \in Seq(UserSelects)
        BY <2>2
      <3> QED BY <3>1
    <2>4. PICK changed : changed = [added |-> added, internal |-> i, final |-> f]
      OBVIOUS
    <2>5. pol.added = a
      BY <2>2
    <2>6. changed = [pol EXCEPT !.added = Append(@, sel)]
      <3>1. changed = [pol EXCEPT !.added = added]
        BY <2>2, <2>4
      <3> QED BY <2>3, <2>5, <3>1
    <2>7. changed \in PolicyTables(Attached)
      BY <2>1, <2>2, <2>3, <2>4 DEF PolicyTables
    <2>8. changed.added = Append(made[p].added, sel)
      BY <1>6, <2>3, <2>4, <2>5
    <2> QED BY <2>6, <2>7, <2>8
  <1>8. PICK more : more = policies' /\ more = [made EXCEPT ![p] = new]
    <2>1. current[1] = p
      BY <1>2
    <2>2. Policy = made[p]
      BY <1>5, <2>1 DEF Policy
    <2>3. policies' = [made EXCEPT ![p] = [pol EXCEPT !.added = Append(@, sel)]]
      BY <1>5, <1>6, <2>1, <2>2 DEF add_select
    <2> QED BY <1>7, <2>3
  <1>9. ModelOK' /\ CurrentOK'
    <2>1. DOMAIN more = DOMAIN made
      BY <1>8
    <2> QED BY <1>1, <1>5, <1>8, <2>1 DEF TablesOK, ModelOK, CurrentOK
  <1>10. MadeOK'
    <2>1. /\ DOMAIN more = DOMAIN made /\ more = [q \in DOMAIN more |-> more[q]]
          /\ \A q \in DOMAIN more : more[q] \in PolicyTables(Attached)
      BY <1>5, <1>7, <1>8
    <2>2. DOMAIN made \subseteq Profiles \cup {None}
      BY <1>5 DEF TablesOK, MadeOK
    <2> QED BY <1>1, <1>3, <1>4, <1>8, <2>1, <2>2 DEF MadeOK
  <1>11. AddedOK'
    <2>1. PICK added, n : /\ added = made[p].added /\ n = Len(added)
                          /\ added \in Seq(UserSelects) /\ n \in Nat /\ DOMAIN added = 1 .. n
      <3>1. made[p].added \in Seq(UserSelects)
        BY <1>5 DEF PolicyTables
      <3> QED BY <3>1
    <2>2. DOMAIN new.added = 1 .. n + 1
      BY <1>7, <2>1
    <2>3. 1 .. n + 1 = (1 .. n) \cup {n + 1}
      BY <2>1
    <2>4. {p} \X (DOMAIN more[p].added) = ({p} \X (DOMAIN made[p].added)) \cup {<<p, n + 1>>}
      <3>1. DOMAIN more[p].added = DOMAIN made[p].added \cup {n + 1}
        BY <1>5, <1>8, <2>1, <2>2, <2>3
      <3>2. \A I : {p} \X (I \cup {n + 1}) = ({p} \X I) \cup {<<p, n + 1>>}
        OBVIOUS
      <3> QED BY <3>1, <3>2
    <2>5. \A q \in DOMAIN made : q # p => more[q] = made[q]
      BY <1>8
    <2>6. DOMAIN more = DOMAIN made
      BY <1>8
    <2>7. UNION {{q} \X (DOMAIN more[q].added) : q \in DOMAIN more}
            = (UNION {{q} \X (DOMAIN made[q].added) : q \in DOMAIN made}) \cup {<<p, n + 1>>}
      <3>1. PICK old : old = [q \in DOMAIN made |-> {q} \X (DOMAIN made[q].added)]
        OBVIOUS
      <3>2. PICK now : now = [q \in DOMAIN made |-> {q} \X (DOMAIN more[q].added)]
        OBVIOUS
      <3>3. \A q \in DOMAIN made : q # p => now[q] = old[q]
        BY <2>5, <3>1, <3>2
      <3>4. p \in DOMAIN made /\ now[p] = old[p] \cup {<<p, n + 1>>}
        BY <1>5, <2>4, <3>1, <3>2
      <3>5. \A x : (\E q \in DOMAIN made : x \in now[q])
                     <=> (\E q \in DOMAIN made : x \in old[q]) \/ x = <<p, n + 1>>
        BY <3>3, <3>4
      <3>6. UNION {now[q] : q \in DOMAIN made} = (UNION {old[q] : q \in DOMAIN made}) \cup {<<p, n + 1>>}
        BY <3>5
      <3>7. /\ {now[q] : q \in DOMAIN made} = {{q} \X (DOMAIN more[q].added) : q \in DOMAIN made}
            /\ {old[q] : q \in DOMAIN made} = {{q} \X (DOMAIN made[q].added) : q \in DOMAIN made}
        BY <3>1, <3>2
      <3> QED BY <2>6, <3>6, <3>7
    <2>8. PICK all : /\ all = UserAdded /\ IsFiniteSet(all) /\ Cardinality(all) < MaxSelects
                     /\ Cardinality(all) \in Nat
      BY FS_CardinalityType DEF TablesOK, AddedOK, UserAdded, add_select, AddedSelects
    <2>9. UserAdded' = all \cup {<<p, n + 1>>}
      <3>1. all = UNION {{q} \X (DOMAIN made[q].added) : q \in DOMAIN made}
        BY <1>5, <2>8 DEF UserAdded
      <3>2. UserAdded' = UNION {{q} \X (DOMAIN more[q].added) : q \in DOMAIN more}
        BY <1>8 DEF UserAdded
      <3> QED BY <2>7, <3>1, <3>2
    <2>10. /\ IsFiniteSet(all \cup {<<p, n + 1>>})
           /\ Cardinality(all \cup {<<p, n + 1>>}) \in {Cardinality(all), Cardinality(all) + 1}
      BY <2>8, FS_AddElement
    <2>11. MaxSelects \in Nat
      BY PolicyAssumption
    <2>12. PICK c \in Nat : c = Cardinality(all) /\ c < MaxSelects
      BY <2>8
    <2>13. c <= MaxSelects /\ c + 1 <= MaxSelects
      BY <2>11, <2>12
    <2> QED BY <2>9, <2>10, <2>12, <2>13 DEF AddedOK
  <1> QED BY <1>9, <1>10, <1>11 DEF TablesOK

\* The benchmark is resolved before any policy is made (xccdf_policy.c:1642-1664).
LEMMA ModelNewOK ==
  ASSUME TablesOK, model_new
  PROVE  TablesOK'
  <1>1. policies = [p \in {} |-> None] /\ DOMAIN policies = {} /\ current = <<>>
    <2>1. DOMAIN policies = {}
      BY DEF model_new, TablesOK, MadeOK
    <2> QED BY <2>1 DEF TablesOK, MadeOK, CurrentOK
  <1>2. policies' = policies /\ current' = current /\ document' = document
        /\ benchmark' = ResolvedDocuments[document]
    BY DEF model_new
  <1>3. ModelOK' /\ CurrentOK'
    BY <1>1, <1>2 DEF TablesOK, ModelOK, CurrentOK
  <1>4. MadeOK'
    BY <1>1, <1>2 DEF MadeOK
  <1>5. AddedOK'
    BY <1>2 DEF TablesOK, AddedOK, UserAdded
  <1> QED BY <1>3, <1>4, <1>5 DEF TablesOK

\* A step on the policies leaves the session alone.
LEMMA TablesTogether ==
  ASSUME PolicyOK, Next,
         \/ model_new
         \/ \E p : get_policy(p)
         \/ \E p : get_policy_overflows(p)
         \/ \E sel \in UserSelects : add_select(sel)
  PROVE  PolicyOK'
  <1>1. UNCHANGED <<agentVars, evaluations, cancels>>
    BY DEF model_new, get_policy, get_policy_overflows, add_select
  <1>2. AgentOK' /\ Answers'
    BY <1>1, NextOK DEF PolicyOK, Answers, agentVars
  <1>3. SUFFICES TablesOK' /\ EvaluatingOK' /\ TogetherOK'
    BY <1>1, <1>2 DEF PolicyOK
  <1>4. IsRun(run) /\ (run.pc = "idle" => ~Running)
    BY DEF PolicyOK, EvaluatingOK, RunOK
  <1>5. IsSeq(report) /\ \A j \in 1 .. Len(report) : report[j].result \in XccdfResult
    BY DEF PolicyOK, EvaluatingOK, ReportOK
  <1>6. CASE model_new
    <2>1. run.status = "idle" /\ run' = run /\ report' = report /\ current' = current
      BY <1>6, BegunOK DEF PolicyOK, model_new
    <2>2. run.pc \in {"idle", "overflow"}
      BY <2>1 DEF PolicyOK, EvaluatingOK, RunOK, Running
    <2>3. EvaluatingOK'
      BY <1>4, <1>5, <2>1, <2>2, EndedOK
    <2>4. TogetherOK'
      BY <1>1, <2>1 DEF PolicyOK, TogetherOK, agentVars
    <2> QED BY <1>6, <2>3, <2>4, ModelNewOK DEF PolicyOK
  <1>7. CASE \E p : get_policy(p)
    <2>1. PICK p : get_policy(p)
      BY <1>7
    <2>2. run' = NotRunning /\ report' = <<>> /\ current' = <<p>> /\ run.pc = "idle"
      BY <2>1 DEF get_policy
    <2>3. IsRun(run') /\ run'.pc = "idle" /\ run'.status = "idle"
      BY <2>2 DEF NotRunning, IsRun
    <2>4. IsSeq(report') /\ Len(report') = 0
      BY <2>2 DEF IsSeq
    <2>5. EvaluatingOK'
      BY <2>3, <2>4, EndedOK
    <2>6. TogetherOK'
      BY <1>1, <2>2, <2>3 DEF PolicyOK, TogetherOK, agentVars
    <2> QED BY <2>1, <2>5, <2>6, GetPolicyTables DEF PolicyOK
  <1>8. CASE \E p : get_policy_overflows(p)
    <2>1. /\ run.pc = "idle" /\ run' = [run EXCEPT !.pc = "overflow"]
          /\ UNCHANGED <<document, benchmark, policies, current, report>>
      BY <1>8 DEF get_policy_overflows
    <2>2. IsRun(run') /\ run'.pc = "overflow" /\ run'.status = run.status
      BY <1>4, <2>1 DEF IsRun
    <2>3. /\ run'.status # "running"
          /\ run'.status = "complete" => Walked
          /\ run'.status = "cancelled" => InOrder
      BY <1>4, <2>1, <2>2 DEF PolicyOK, EvaluatingOK, OrderOK, Running
    <2>4. (Walked' <=> Walked) /\ (InOrder' <=> InOrder)
      BY <2>1, SameBenchmark DEF Walked, InOrder
    <2>5. EvaluatingOK'
      BY <1>5, <2>1, <2>2, <2>3, <2>4, EndedOK
    <2>6. TogetherOK'
      BY <1>1, <2>1, <2>2 DEF PolicyOK, TogetherOK, agentVars
    <2> QED BY <2>1, <2>5, <2>6, SameTables DEF PolicyOK
  <1>9. CASE \E sel \in UserSelects : add_select(sel)
    <2>1. UNCHANGED <<benchmark, run, report, current>> /\ run.pc = "idle"
      BY <1>9 DEF add_select
    <2>2. EvaluatingOK'
      BY <1>4, <2>1, SameEvaluating DEF PolicyOK
    <2>3. TogetherOK'
      BY <1>1, <2>1 DEF PolicyOK, TogetherOK, agentVars
    <2> QED BY <1>9, <2>2, <2>3, AddSelectOK DEF PolicyOK
  <1> QED BY <1>6, <1>7, <1>8, <1>9

\* A step from one rule to the next leaves the policies and the session alone.
LEMMA WalkTogether ==
  ASSUME PolicyOK, Next, evaluate \/ NoMoreRules \/ ReportResult \/ Cancelled
  PROVE  PolicyOK'
  <1>1. UNCHANGED agentVars /\ UNCHANGED <<document, benchmark, policies, current>>
    BY DEF evaluate, NoMoreRules, ReportResult, Cancelled
  <1>2. AgentOK' /\ Answers' /\ TablesOK'
    BY <1>1, NextOK, SameTables DEF PolicyOK, Answers, agentVars
  <1>3. current # <<>> /\ benchmark # None
    <2>1. CASE evaluate
      BY <2>1, BegunOK DEF PolicyOK, evaluate
    <2>2. CASE NoMoreRules \/ ReportResult \/ Cancelled
      <3>1. run.pc \in {"rule", "report"}
        BY <2>2 DEF NoMoreRules, ReportResult, Cancelled
      <3>2. Running
        BY <3>1 DEF PolicyOK, EvaluatingOK, RunOK
      <3> QED BY <3>2, BegunOK DEF PolicyOK, Running
    <2> QED BY <2>1, <2>2
  <1>4. EvaluatingOK'
    BY <1>3, EvaluateOK, NoMoreRulesOK, ReportResultOK, CancelledOK DEF PolicyOK
  <1>5. run.pc # "called" /\ run'.pc # "called"
    <2>1. CASE evaluate
      BY <2>1 DEF evaluate, NotRunning
    <2>2. CASE NoMoreRules
      BY <2>2 DEF NoMoreRules, Ended, NotRunning
    <2>3. CASE Cancelled
      BY <2>3 DEF Cancelled, Ended, NotRunning
    <2>4. CASE ReportResult
      <3>1. /\ run.pc = "report" /\ IsRun(run)
            /\ \/ run' = [run EXCEPT !.pc = "part", !.names = Tail(@), !.parts = <<Check_>>,
                                     !.refs = <<>>, !.acc = "none"]
               \/ run' = [NotRunning EXCEPT !.pc = "rule", !.status = "running",
                                            !.rules = Tail(run.rules)]
        BY <2>4 DEF ReportResult, AfterReport, PolicyOK, EvaluatingOK, RunOK
      <3>2. run'.pc \in {"part", "rule"}
        BY <3>1 DEF IsRun, NotRunning
      <3> QED BY <3>1, <3>2
    <2> QED BY <2>1, <2>2, <2>3, <2>4
  <1>6. TogetherOK'
    BY <1>1, <1>3, <1>5 DEF PolicyOK, TogetherOK, agentVars
  <1>7. evaluations' \in 0 .. MaxEvaluations /\ cancels' \in 0 .. MaxCancels
    BY PolicyAssumption DEF PolicyOK, evaluate, NoMoreRules, ReportResult, Cancelled, MayCancel
  <1> QED BY <1>2, <1>4, <1>6, <1>7 DEF PolicyOK

\* A step of the session leaves the evaluation where it is.
LEMMA SessionTogether ==
  ASSUME PolicyOK, Next, AgentStep, UNCHANGED policyVars
  PROVE  PolicyOK'
  <1>1. UNCHANGED <<document, benchmark, policies, current, evaluations, run, report, cancels>>
    BY DEF policyVars
  <1>2. Answers' /\ call.pc # "idle" /\ call'.pc # "idle"
    BY AgentStepAnswers DEF PolicyOK
  <1>3. AgentOK' /\ TablesOK' /\ EvaluatingOK'
    BY <1>1, NextOK, SameTables, SameEvaluating DEF PolicyOK
  <1>4. TogetherOK'
    BY <1>1, <1>2 DEF PolicyOK, TogetherOK
  <1> QED BY <1>1, <1>2, <1>3, <1>4 DEF PolicyOK

\* Every step keeps the whole.
LEMMA PolicyNextOK ==
  ASSUME PolicyOK, Next
  PROVE  PolicyOK'
  <1>1. CASE EvaluationStep
    BY <1>1, RuleStepTogether, AskSessionTogether, SessionAnswersTogether, WalkTogether,
       SessionTogether DEF EvaluationStep
  <1>2. CASE ~EvaluationStep
    BY <1>2, TablesTogether, WalkTogether DEF Next
  <1> QED BY <1>1, <1>2

LEMMA PolicySameOK ==
  ASSUME PolicyOK, UNCHANGED vars
  PROVE  PolicyOK'
  <1>1. UNCHANGED agentVars
        /\ UNCHANGED <<document, benchmark, policies, current, evaluations, run, report, cancels>>
    BY DEF vars, policyVars
  <1>2. AgentOK' /\ Answers'
    BY <1>1, UnchangedOK DEF PolicyOK, Answers, agentVars
  <1>3. TablesOK' /\ EvaluatingOK'
    BY <1>1, SameTables, SameEvaluating DEF PolicyOK
  <1>4. TogetherOK'
    BY <1>1 DEF PolicyOK, TogetherOK, agentVars
  <1> QED BY <1>1, <1>2, <1>3, <1>4 DEF PolicyOK

\* It holds at the start.
LEMMA PolicyInitOK ==
  ASSUME Init
  PROVE  PolicyOK
  <1>1. AgentOK /\ Answers /\ call.pc = "idle"
    BY AgentInitOK DEF Init, AgentInit, Answers, Idle, NoValues
  <1>2. TablesOK
    <2>1. UserAdded = {}
      BY DEF Init, UserAdded
    <2>2. AddedOK
      BY <2>1, FS_EmptySet, PolicyAssumption DEF AddedOK
    <2> QED BY <2>2 DEF Init, TablesOK, ModelOK, MadeOK, CurrentOK
  <1>3. EvaluatingOK
    <2>1. run = NotRunning /\ report = <<>>
      BY DEF Init
    <2>2. IsRun(run) /\ run.pc = "idle" /\ run.status = "idle"
      BY <2>1 DEF NotRunning, IsRun
    <2>3. IsSeq(report) /\ Len(report) = 0
      BY <2>1 DEF IsSeq
    <2> QED BY <2>2, <2>3 DEF EvaluatingOK, RunOK, OrderOK, ReportOK, Running
  <1>4. TogetherOK /\ evaluations \in 0 .. MaxEvaluations /\ cancels \in 0 .. MaxCancels
    BY <1>1, PolicyAssumption DEF Init, TogetherOK, NotRunning
  <1> QED BY <1>1, <1>2, <1>3, <1>4 DEF PolicyOK

\* The evaluation and the session stay in order together: the walk over the
\* rules, the tables of the policies and the question that is under way.
THEOREM EvaluationInOrder == Spec => []PolicyOK
  <1>1. Init => PolicyOK
    BY PolicyInitOK
  <1>2. PolicyOK /\ [Next]_vars => PolicyOK'
    BY PolicyNextOK, PolicySameOK
  <1> QED BY <1>1, <1>2, PTL DEF Spec

\* The tables of every policy are about the items of the benchmark however the
\* selects come, the session is at work exactly while a reference is tried,
\* only values are bound, and only results XCCDF knows are reported.
THEOREM TypeCorrect == Spec => []TypeOK
  <1>1. PolicyOK => TypeOK
    <2> SUFFICES ASSUME PolicyOK PROVE TypeOK
      OBVIOUS
    <2>1. benchmark # None => DOMAIN benchmark = Ids
      BY BenchmarkShape DEF PolicyOK, TablesOK
    <2>2. AddedSelects <= MaxSelects
      BY DEF PolicyOK, TablesOK, AddedOK, UserAdded, AddedSelects
    <2>3. DOMAIN policies \subseteq Ids \cup {None}
      BY ItemsFinite DEF PolicyOK, TablesOK, MadeOK
    <2>4. \A p \in DOMAIN policies : policies[p] \in PolicyTables(Attached)
      BY DEF PolicyOK, TablesOK, MadeOK
    <2>5. \A k \in DOMAIN report : report[k].result \in XccdfResult
      BY SeqShape DEF PolicyOK, EvaluatingOK, ReportOK
    <2> QED BY <2>1, <2>2, <2>3, <2>4, <2>5 DEF TypeOK, PolicyOK, Answers, TogetherOK
  <1> QED BY <1>1, EvaluationInOrder, PTL

\* The results are about the rules in document order and pass none by; when
\* the evaluation is complete every rule has one (xccdf_policy.c:1109-1141,
\* 2076-2109), whatever the profile, the checks and the session's answers.
RulesInOrder ==
  /\ Running \/ run.status \in {"complete", "cancelled"} => InOrder
  /\ run.status = "complete" => Walked

\* Every evaluation goes that way.
THEOREM RulesReportedInOrder == Spec => []RulesInOrder
  <1>1. PolicyOK => RulesInOrder
    BY DEF PolicyOK, EvaluatingOK, OrderOK, Walking, Walked, InOrder, RulesInOrder, Running
  <1> QED BY <1>1, EvaluationInOrder, PTL

\* Every result is one its rule deserves: "notselected" exactly for a rule the
\* policy leaves out, and a rule that is selected but does not apply is never
\* checked (xccdf_policy.c:992-1009).
ResultsDeserved ==
  Running => \A j \in 1 .. Len(report) : Deserves(report[j].rule, report[j].result)

\* No evaluation reports anything else.
THEOREM SelectionReported == Spec => []ResultsDeserved
  <1>1. PolicyOK => ResultsDeserved
    BY DEF PolicyOK, EvaluatingOK, ReportOK, ResultsDeserved
  <1> QED BY <1>1, EvaluationInOrder, PTL
=============================================================================
