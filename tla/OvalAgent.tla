----------------------------- MODULE OvalAgent -----------------------------
(***************************************************************************)
(* The OVAL session an XCCDF evaluation drives (oval_agent.c): external    *)
(* variables are bound before each check; the objects of a definition are  *)
(* collected (oval_probe.c) and the definition is evaluated (results/).    *)
(* Collected objects, tests and definitions keep their results for the     *)
(* whole session.  When a variable gets other values, what depends on it   *)
(* is hinted to start a new instance and the probes are started afresh.    *)
(*                                                                         *)
(* An object or a test remembers what it has seen: the pairs of external   *)
(* variable and set of values its result rests on.  The code keeps the     *)
(* same as the variable bindings it reports (tested_variable).             *)
(* All objects are of one kind, thus of one probe; an object and the       *)
(* states of a test name one variable at most; a complete object gives     *)
(* the variables made of it at least one value.                            *)
(***************************************************************************)
EXTENDS Integers, Sequences, FiniteSets, SequencesExt, OvalLogic, XccdfLogic

CONSTANTS
  Filename,      \* the OVAL file of the session
  DefinitionIds, \* its definitions, in the order of their ids
  Criteria,      \* definition -> [op, negate, nodes: Seq([kind, ref])]
  Class,         \* definition -> its class
  Tests,         \* test -> [object, variable (of its states) or None, check, existence, op]
  Objects,       \* object -> [variable or None, members: Seq(object)]
  External,      \* external variables
  Locals,        \* local variable -> the [kind, ref] it is made of
  Values,        \* what a variable may be bound to
  Items(_, _),   \* the items of a test's object, with the results of its
                 \* states, given what the object and the states have seen
  MaxFailures,   \* how often the collection of an object may fail
  None

Definitions == Range(DefinitionIds)
Variables == External \cup DOMAIN Locals

\* Definitions extend definitions made of tests, objects are sets of plain
\* objects, and local variables depend on external ones.
ASSUME ContentAssumption ==
  /\ DefinitionIds \in Seq(Definitions) /\ None \notin Variables
  /\ DOMAIN Criteria = Definitions /\ DOMAIN Class = Definitions
  /\ \A d \in Definitions : Criteria[d].op \in Operator
  /\ \A d \in Definitions :
       Criteria[d].nodes \in Seq([kind : {"test", "extend"}, ref : Definitions \cup DOMAIN Tests])
  /\ \A d \in Definitions : \A n \in Range(Criteria[d].nodes) :
       \/ n.kind = "test" /\ n.ref \in DOMAIN Tests
       \/ /\ n.kind = "extend" /\ n.ref \in Definitions
          /\ \A m \in Range(Criteria[n.ref].nodes) : m.kind = "test"
  /\ \A t \in DOMAIN Tests : /\ Tests[t].object \in DOMAIN Objects
                             /\ Tests[t].variable \in Variables \cup {None}
  /\ \A o \in DOMAIN Objects :
       /\ Objects[o].variable \in Variables \cup {None}
       /\ Objects[o].members \in Seq(DOMAIN Objects)
       /\ \A m \in Range(Objects[o].members) :
            m \in DOMAIN Objects /\ Objects[m].members = <<>>
  /\ Locals \in [DOMAIN Locals -> [kind : {"variable", "object"}, ref : External \cup DOMAIN Objects]]
  /\ \A v \in DOMAIN Locals :
       \/ Locals[v].kind = "variable" /\ Locals[v].ref \in External
       \/ /\ Locals[v].kind = "object" /\ Locals[v].ref \in DOMAIN Objects
          /\ Objects[Locals[v].ref].variable \in External \cup {None}
          /\ Objects[Locals[v].ref].members = <<>>
  /\ MaxFailures \in Nat

VARIABLES
  values,   \* external variable -> the values bound to it
  memo,     \* local variable -> <<[good, saw]>> once computed, <<>> before
  rcache,   \* object -> what the running probe has in its cache, None before
  syschars, \* object -> its collected instances, the last one counts
  rdefs,    \* definition -> its results, the last one counts
  rtests,   \* test -> its results, the last one counts
  call,     \* the check being evaluated
  failures, \* collections that failed
  exposed   \* definitions whose evidence may be older than the bindings

agentVars == <<values, memo, rcache, syschars, rdefs, rtests, call, failures, exposed>>

-----------------------------------------------------------------------------
(* What depends on what.                                                   *)

Nodes(d) == Criteria[d].nodes
TestsOf(d) == UNION {IF n.kind = "test" THEN {n.ref}
                     ELSE {m.ref : m \in Range(Nodes(n.ref))} : n \in Range(Nodes(d))}
ObjectsOf(d) == {Tests[t].object : t \in TestsOf(d)}

\* oval_vardefMapping.c: the variables the objects, the members of sets and
\* the states name.  What a local variable is made of is not followed.
MemberVariables(o) == {Objects[m].variable : m \in Range(Objects[o].members)}
DirectVariables(d) ==
  ({Tests[t].variable : t \in TestsOf(d)} \cup {Objects[o].variable : o \in ObjectsOf(d)}
   \cup UNION {MemberVariables(o) : o \in ObjectsOf(d)}) \ {None}

\* What a local variable reaches through its parts.
Externals(v) ==
  IF v = None THEN {} ELSE IF v \in External THEN {v}
  ELSE {IF Locals[v].kind = "variable" THEN Locals[v].ref
        ELSE Objects[Locals[v].ref].variable} \cap External
Depends(d) == UNION {Externals(v) : v \in DirectVariables(d)}

Seen(v) ==
  IF v = None THEN {} ELSE IF v \in External THEN {<<v, values[v]>>} ELSE memo[v][1].saw
Usable(v) ==
  IF v = None THEN TRUE ELSE IF v \in External THEN values[v] # {} ELSE memo[v][1].good
Current(d) == {<<x, values[x]>> : x \in Depends(d)}

Dependents(x) == {d \in Definitions : x \in DirectVariables(d)}

Newest(instances) == instances[Len(instances)]
Started(instances) == instances # <<>>
Hinted(instances) == Started(instances) /\ Newest(instances).hint # Newest(instances).inst

\* An instance to come, for one that is missing or hinted away.
NextInstance(instances, first) ==
  IF Hinted(instances) THEN Newest(instances).hint ELSE first

-----------------------------------------------------------------------------
(* oval_agent_resolve_variables.  Bindings are a set of [var, value].      *)

Bound(bindings, x) == {b.value : b \in {b \in bindings : b.var = x}}
Named(bindings) == {b.var : b \in bindings} \cap External

\* _stringlist_conflicts_with_value_it.
Conflicts(bindings) ==
  {x \in Named(bindings) : values[x] # {} /\ values[x] # Bound(bindings, x)}

Hint(instances, n) ==
  IF Started(instances) THEN [instances EXCEPT ![Len(instances)].hint = n] ELSE instances

\* The newest result of each dependent definition gets the next number as its
\* hint, and with it the objects of its tests (oval_probe_hint.c): neither
\* members of sets nor objects behind variables.  The definitions are hinted
\* in the order of their ids, so the last one decides for a shared object.
HintedFor(x) == {d \in Dependents(x) : Started(rdefs[d])}
NextNumber(d) == Newest(rdefs[d]).inst + 1
LastOf(S) == CHOOSE d \in S :
  \E i \in DOMAIN DefinitionIds :
    DefinitionIds[i] = d /\ \A j \in DOMAIN DefinitionIds : DefinitionIds[j] \in S => j <= i

\* A mutant: the objects keep their instances.
HintObjects_Never(x) == syschars

HintObjects(x) ==
  [o \in DOMAIN Objects |->
    LET hinting == {d \in HintedFor(x) : o \in ObjectsOf(d)}
    IN IF hinting = {} THEN syschars[o] ELSE Hint(syschars[o], NextNumber(LastOf(hinting)))]

HintDefinitions(x) ==
  [d \in Definitions |-> IF d \in HintedFor(x) THEN Hint(rdefs[d], NextNumber(d)) ELSE rdefs[d]]

\* oval_agent_reset_session: everything external is unbound, the probes end.
NoValues == [x \in External |-> {}]
NothingCached == [o \in DOMAIN Objects |-> None]

\* Only the first variable found in conflict is dealt with.  x is None when
\* there is none.
Rebound(bindings, x) ==
  [v \in External |-> IF v \in Named(bindings) THEN Bound(bindings, v)
                      ELSE IF x = None THEN values[v] ELSE {}]

\* Something is known that definition d rests on.
HasEvidence(d) ==
  \/ Started(rdefs[d])
  \/ \E t \in TestsOf(d) : Started(rtests[t]) \/ Started(syschars[Tests[t].object])
  \/ \E v \in DirectVariables(d) \cap DOMAIN Locals :
       \/ memo[v] # <<>>
       \/ Locals[v].kind = "object" /\ Started(syschars[Locals[v].ref])
  \/ \E o \in ObjectsOf(d), m \in DOMAIN Objects :
       m \in Range(Objects[o].members) /\ Started(syschars[m])
\* The definitions hinted for x that d shares results with have not come as
\* far as d, or further.
OutOfStep(d, x) ==
  \E e \in HintedFor(x) :
    /\ Newest(rdefs[e]).inst # Newest(rdefs[d]).inst
    /\ TestsOf(d) \cap TestsOf(e) # {} \/ ObjectsOf(d) \cap ObjectsOf(e) # {}
\* An object of d has been collected again while d was not evaluated.
Ahead(d) ==
  \E o \in ObjectsOf(d) :
    Started(syschars[o]) /\ Newest(syschars[o]).inst > Newest(rdefs[d]).inst
\* A change of v that the hints for x carry to d, and the definitions a change
\* to other values comes past.
Carried(d, x, v) ==
  /\ v = x /\ Started(rdefs[d]) /\ ~OutOfStep(d, x) /\ ~Ahead(d)
  /\ \A w \in DirectVariables(d) : v \in Externals(w) => w = v
  /\ \A o \in ObjectsOf(d) : v \notin MemberVariables(o)
Escapes(d, x, new) ==
  HasEvidence(d) /\ \E v \in Depends(d) : new[v] # values[v] /\ ~Carried(d, x, v)

oval_agent_resolve_variables(bindings) ==
  \E x \in IF Conflicts(bindings) = {} THEN {None} ELSE Conflicts(bindings) :
    LET new == Rebound(bindings, x)
    IN /\ values' = new
       /\ exposed' = exposed \cup {d \in Definitions : Escapes(d, x, new)}
       /\ IF x = None THEN UNCHANGED <<rdefs, syschars, rcache>>
          ELSE /\ rdefs' = HintDefinitions(x)
               /\ syschars' = HintObjects(x)
               /\ rcache' = NothingCached

-----------------------------------------------------------------------------
(* The call: [pc, defs still to do, todo, file, acc, result].  todo is the *)
(* rest of the recursion of oval_probe_query_criteria over the definition  *)
(* at the head of defs, a sequence of [kind, ref].                         *)

Idle == [pc |-> "idle", defs |-> <<>>, todo |-> <<>>, file |-> FALSE,
         acc |-> "none", result |-> "none"]
Node(kind, ref) == [kind |-> kind, ref |-> ref]
Probing(defs, file, acc) ==
  [Idle EXCEPT !.pc = "probing", !.defs = defs, !.file = file, !.acc = acc,
               !.todo = <<Node("extend", defs[1])>>]
Returned(r) == [Idle EXCEPT !.pc = "returned", !.result = r]

\* oval_agent_eval_rule, for the file of the session.  No name stands for
\* all definitions of the file.
oval_agent_eval_rule(name, bindings) ==
  /\ call.pc = "idle"
  /\ oval_agent_resolve_variables(bindings)
  /\ call' = IF name = None
             THEN IF DefinitionIds = <<>> THEN Returned("error")
                  ELSE Probing(DefinitionIds, TRUE, "none")
             ELSE IF name \notin Definitions THEN Returned("notchecked")
             ELSE Probing(<<name>>, FALSE, "none")
  /\ UNCHANGED <<memo, rtests, failures>>

At(kind) == call.pc = "probing" /\ call.todo # <<>> /\ Head(call.todo).kind = kind
Ref == Head(call.todo).ref
Then(nodes) == call' = [call EXCEPT !.todo = nodes \o Tail(@)]
VariableNode(v) == IF v = None THEN <<>> ELSE <<Node("variable", v)>>

\* The criteria of a definition, its own or an extended one's.
QueryCriteria ==
  /\ At("extend") /\ Then(Nodes(Ref))
  /\ UNCHANGED <<values, memo, rcache, syschars, rdefs, rtests, failures, exposed>>

QueryTest ==
  /\ At("test")
  /\ Then(<<Node("object", Tests[Ref].object)>> \o VariableNode(Tests[Ref].variable))
  /\ UNCHANGED <<values, memo, rcache, syschars, rdefs, rtests, failures, exposed>>

\* oval_probe_query_object: an instance that is hinted away gets a successor;
\* one that has been collected is kept.  A member of a set is asked for
\* without reply, and kept whatever is known of it.
NewSyschar_Reuses(o) ==
  LET n == NextInstance(syschars[o], 1)
      fresh == [inst |-> n, hint |-> n, flag |-> "unknown", saw |-> {}]
  IN [syschars EXCEPT ![o] = IF Started(@) THEN [@ EXCEPT ![Len(@)] = fresh] ELSE <<fresh>>]

NewSyschar(o) ==
  LET n == NextInstance(syschars[o], 1)
  IN [syschars EXCEPT ![o] = Append(@, [inst |-> n, hint |-> n, flag |-> "unknown", saw |-> {}])]

oval_probe_query_object(o, noreply) ==
  LET fresh == ~Started(syschars[o]) \/ Hinted(syschars[o])
      asks == fresh \/ (~noreply /\ Newest(syschars[o]).flag = "unknown")
  IN /\ syschars' = IF fresh THEN NewSyschar(o) ELSE syschars
     /\ Then(IF asks THEN VariableNode(Objects[o].variable)
                          \o <<Node(IF noreply THEN "cache" ELSE "collect", o)>>
             ELSE <<>>)

QueryObject ==
  /\ At("object") /\ oval_probe_query_object(Ref, FALSE)
  /\ UNCHANGED <<values, memo, rcache, rdefs, rtests, failures, exposed>>

\* The probe asks for the members of a set it has no result of.
QueryMember ==
  /\ At("member")
  /\ IF rcache[Ref] # None THEN Then(<<>>) /\ UNCHANGED syschars
     ELSE oval_probe_query_object(Ref, TRUE)
  /\ UNCHANGED <<values, memo, rcache, rdefs, rtests, failures, exposed>>

\* oval_probe_query_variable: the values of a local variable are computed
\* once.
QueryVariable ==
  /\ At("variable")
  /\ Then(IF Ref \in External \/ memo[Ref] # <<>> THEN <<>>
          ELSE <<Locals[Ref], Node("compute", Ref)>>)
  /\ UNCHANGED <<values, memo, rcache, syschars, rdefs, rtests, failures, exposed>>

ComputeVariable ==
  /\ At("compute") /\ Then(<<>>)
  /\ LET part == Locals[Ref].ref
     IN memo' = [memo EXCEPT ![Ref] =
                   IF Locals[Ref].kind = "variable"
                   THEN <<[good |-> Usable(part), saw |-> Seen(part)]>>
                   ELSE <<[good |-> Newest(syschars[part]).flag = "complete",
                           saw |-> Newest(syschars[part]).saw]>>]
  /\ UNCHANGED <<values, rcache, syschars, rdefs, rtests, failures, exposed>>

\* An object is sent to the probe unless its variable has no values.
Sent(o) == Usable(Objects[o].variable)

\* The probe answers from its cache or collects: a plain object with the
\* values it was asked with, a set from what the cache has of its members.
\* A set of which it lacks a member is an error.
Collected(o) ==
  LET members == Range(Objects[o].members)
  IN CASE rcache[o] # None -> rcache[o]
       [] rcache[o] = None /\ \E m \in members : rcache[m] = None ->
            [flag |-> "error", saw |-> {}]
       [] OTHER -> [flag |-> "complete",
                    saw |-> Seen(Objects[o].variable) \cup UNION {rcache[m].saw : m \in members}]

\* The object's newest instance gets what was found.
Found(o, got) ==
  syschars' = [syschars EXCEPT ![o][Len(syschars[o])] =
                 [@ EXCEPT !.flag = got.flag, !.saw = got.saw]]

MembersAsked(o) == rcache[o] # None \/ Objects[o].members = <<>>

\* A set is asked for: its members first.
CollectSet ==
  /\ At("collect") /\ Sent(Ref) /\ ~MembersAsked(Ref)
  /\ call' = [call EXCEPT !.todo =
                [i \in 1 .. Len(Objects[Ref].members) |-> Node("member", Objects[Ref].members[i])]
                \o <<Node("combine", Ref)>> \o Tail(@)]
  /\ UNCHANGED <<values, memo, rcache, syschars, rdefs, rtests, failures, exposed>>

Collect ==
  /\ \/ At("collect") /\ Sent(Ref) /\ MembersAsked(Ref)
     \/ At("combine")
  /\ Then(<<>>)
  /\ rcache' = [rcache EXCEPT ![Ref] = Collected(Ref)]
  /\ Found(Ref, Collected(Ref))
  /\ UNCHANGED <<values, memo, rdefs, rtests, failures, exposed>>

\* Without reply the result stays with the probe.
CacheMember ==
  /\ At("cache") /\ Sent(Ref)
  /\ Then(<<>>)
  /\ rcache' = [rcache EXCEPT ![Ref] = Collected(Ref)]
  /\ UNCHANGED <<values, memo, syschars, rdefs, rtests, failures, exposed>>

\* oval_varref_attr_to_sexp: an object whose variable has no values does not
\* exist, and the probe never hears of it.
NothingToSend ==
  /\ At("collect") \/ At("cache")
  /\ ~Sent(Ref)
  /\ Then(<<>>)
  /\ Found(Ref, [flag |-> "does_not_exist", saw |-> Seen(Objects[Ref].variable)])
  /\ UNCHANGED <<values, memo, rcache, rdefs, rtests, failures, exposed>>

-----------------------------------------------------------------------------
(* Results: oval_result_system_eval_definition.                            *)

\* oval_result_system_get_new_test: tests S get a result for instance k.
NewTest(k) == [inst |-> k, result |-> "noteval", saw |-> {}, syschar |-> 0]
AddTests(results, S, k) ==
  [t \in DOMAIN Tests |->
    IF t \notin S \/ (Started(results[t]) /\ Newest(results[t]).inst = k) THEN results[t]
    ELSE Append(results[t], NewTest(k))]

AddTest(a, t, k) ==
  LET tests == AddTests(a.rtests, {t}, k)
  IN [a EXCEPT !.rtests = tests, !.refs = Append(@, Len(tests[t]))]

Definition(k, refs) == [inst |-> k, hint |-> k, result |-> "noteval", refs |-> refs]

\* oval_result_system_get_new_definition, for an extended definition.
AddExtended(a, e, k) ==
  IF Started(a.rdefs[e]) /\ ~Hinted(a.rdefs[e])
  THEN [a EXCEPT !.refs = Append(@, Len(a.rdefs[e]))]
  ELSE LET n == NextInstance(a.rdefs[e], k)
           tests == AddTests(a.rtests, TestsOf(e), n)
           made == Definition(n, [i \in DOMAIN Nodes(e) |-> Len(tests[Nodes(e)[i].ref])])
       IN [rtests |-> tests, rdefs |-> [a.rdefs EXCEPT ![e] = Append(@, made)],
           refs |-> Append(a.refs, Len(a.rdefs[e]) + 1)]

\* make_result_definition_from_oval_definition: a reference to a result for
\* every node of the criteria, one after the other.
Number(d) == NextInstance(rdefs[d], 1)
MadeFor(d) ==
  LET made[i \in 0 .. Len(Nodes(d))] ==
        IF i = 0 THEN [rdefs |-> rdefs, rtests |-> rtests, refs |-> <<>>]
        ELSE IF Nodes(d)[i].kind = "test" THEN AddTest(made[i - 1], Nodes(d)[i].ref, Number(d))
        ELSE AddExtended(made[i - 1], Nodes(d)[i].ref, Number(d))
  IN made
MakeDefinition(d) ==
  LET made == MadeFor(d)[Len(Nodes(d))]
  IN [rtests |-> made.rtests,
      rdefs |-> [made.rdefs EXCEPT ![d] = Append(@, Definition(Number(d), made.refs))]]

\* oval_result_test_eval: once, from the newest instance of the object.
EvalTest(t, r) ==
  IF r.result # "noteval" THEN r
  ELSE LET instances == syschars[Tests[t].object]
           object == Newest(instances)
           states == Seen(Tests[t].variable)
           test == [existence |-> Tests[t].existence, check |-> Tests[t].check,
                    op |-> Tests[t].op, hasState |-> Tests[t].variable # None]
       IN [r EXCEPT !.result = evaluate_items(test, object.flag, Items(object.saw, states)),
                    !.saw = object.saw \cup states,
                    !.syschar = Len(instances)]

\* oval_result_definition_eval: once; the tests it refers to, then itself.
References(rd, d) == {<<Nodes(d)[i], rd.refs[i]>> : i \in DOMAIN rd.refs}
Reached(made, d) == References(Newest(made.rdefs[d]), d)
ReachedDefinitions(made, d) == {r \in Reached(made, d) : r[1].kind = "extend"}
ReachedTests(made, d) ==
  {r \in Reached(made, d) : r[1].kind = "test"}
  \cup UNION {References(made.rdefs[r[1].ref][r[2]], r[1].ref) : r \in ReachedDefinitions(made, d)}

EvalTests(made, d) ==
  [t \in DOMAIN Tests |->
    [i \in DOMAIN made.rtests[t] |->
      IF <<Node("test", t), i>> \in ReachedTests(made, d) THEN EvalTest(t, made.rtests[t][i])
      ELSE made.rtests[t][i]]]

Judged(rd, result) == IF rd.result # "noteval" THEN rd ELSE [rd EXCEPT !.result = result]
Verdict(rd, d, tests, defs) ==
  criteria_result(Criteria[d].negate, Criteria[d].op,
    [i \in DOMAIN rd.refs |->
      LET n == Nodes(d)[i]
      IN IF n.kind = "test" THEN tests[n.ref][rd.refs[i]].result ELSE defs[n.ref][rd.refs[i]].result])
EvalExtended(made, d, tests) ==
  [e \in Definitions |->
    [i \in DOMAIN made.rdefs[e] |->
      IF <<Node("extend", e), i>> \in ReachedDefinitions(made, d)
      THEN Judged(made.rdefs[e][i], Verdict(made.rdefs[e][i], e, tests, made.rdefs))
      ELSE made.rdefs[e][i]]]
Evaluate(made, d) ==
  LET tests == EvalTests(made, d)
      below == EvalExtended(made, d, tests)
      own == Newest(below[d])
  IN [rtests |-> tests,
      rdefs |-> [below EXCEPT ![d] = [@ EXCEPT ![Len(below[d])] = Judged(own, Verdict(own, d, tests, below))]]]

Probed == call.pc = "probing" /\ call.todo = <<>>
Subject == call.defs[1]

EvalDefinition ==
  /\ Probed
  /\ \E made \in {IF Started(rdefs[Subject]) /\ ~Hinted(rdefs[Subject])
                   THEN [rdefs |-> rdefs, rtests |-> rtests] ELSE MakeDefinition(Subject)} :
       \E done \in {Evaluate(made, Subject)} : rdefs' = done.rdefs /\ rtests' = done.rtests
  /\ call' = [call EXCEPT !.pc = "evaluated"]
  /\ UNCHANGED <<values, memo, rcache, syschars, failures, exposed>>

-----------------------------------------------------------------------------
(* Back to XCCDF.                                                          *)

\* The next definition of a whole file, or the result of the check.
Continue(r) ==
  LET acc == IF call.acc = "none" THEN r ELSE _resolve_operation(call.acc, r, "AND")
  IN IF call.file /\ Len(call.defs) > 1 THEN Probing(Tail(call.defs), TRUE, acc)
     ELSE Returned(IF call.file THEN acc ELSE r)

DefinitionResult(d) == xccdf_get_result_from_oval(Class[d], Newest(rdefs[d]).result)

\* oval_agent_get_definition_result: the newest result of the definition.
GetResult ==
  /\ call.pc = "evaluated"
  /\ call' = Continue(DefinitionResult(Subject))
  /\ UNCHANGED <<values, memo, rcache, syschars, rdefs, rtests, failures, exposed>>

\* The query fails with -1, so nothing is evaluated (oval_agent.c:164-166): a
\* whole file fails; a rule about one definition gets the definition's last
\* result, or, when there is none, whatever is in a variable nobody has set.
Abandon ==
  IF call.file THEN call' = Returned("failure")
  ELSE \E r \in XccdfResult \ {"notselected", "informational"} :
         /\ Started(rdefs[Subject]) => r = DefinitionResult(Subject)
         /\ call' = Returned(r)

\* A collection that fails leaves the object unknown.  A variable made of it
\* has no values then (oval_component.c:1265).  Else an error ends the query;
\* but when the probe has closed the connection (-2, oval_probe_ext.c:595-600)
\* all probes are started afresh and the query goes on without the object
\* (oval_probe.c:361-376).
CollectFails ==
  /\ \/ At("collect") /\ Sent(Ref)
     \/ At("combine")
  /\ failures < MaxFailures
  /\ failures' = failures + 1
  /\ \E aborted \in BOOLEAN :
       /\ rcache' \in {NothingCached} \cup (IF aborted THEN {} ELSE {rcache})
       /\ LET rest == Tail(call.todo)
          IN IF rest # <<>> /\ rest[1].kind = "compute"
             THEN /\ memo' = [memo EXCEPT ![rest[1].ref] = <<[good |-> FALSE, saw |-> {}]>>]
                  /\ call' = [call EXCEPT !.todo = Tail(rest)]
             ELSE /\ UNCHANGED memo
                  /\ IF aborted THEN Then(<<>>) ELSE Abandon
  /\ UNCHANGED <<values, syschars, rdefs, rtests, exposed>>

-----------------------------------------------------------------------------
AgentInit ==
  /\ values = NoValues
  /\ memo = [v \in DOMAIN Locals |-> <<>>]
  /\ rcache = NothingCached
  /\ syschars = [o \in DOMAIN Objects |-> <<>>]
  /\ rdefs = [d \in Definitions |-> <<>>]
  /\ rtests = [t \in DOMAIN Tests |-> <<>>]
  /\ call = Idle
  /\ failures = 0
  /\ exposed = {}

AgentStep ==
  \/ QueryCriteria \/ QueryTest \/ QueryObject \/ QueryMember
  \/ QueryVariable \/ ComputeVariable
  \/ CollectSet \/ Collect \/ CacheMember \/ NothingToSend \/ CollectFails
  \/ EvalDefinition \/ GetResult

-----------------------------------------------------------------------------
(* Properties.                                                             *)

SawByDefinition(d) ==
  LET rd == Newest(rdefs[d])
  IN UNION {IF r[1].kind = "test" THEN rtests[r[1].ref][r[2]].saw
            ELSE UNION {rtests[q[1].ref][q[2]].saw :
                          q \in References(rdefs[r[1].ref][r[2]], r[1].ref)}
            : r \in References(rd, d)}

\* The verdict about to be reported rests on no other values than those bound
\* now, however often the session has been used with others - unless a change
\* came past the hints (oval_agent.c:413-425): a second variable in conflict,
\* a value that was unbound before, a variable behind a local variable or
\* behind a member of a set, a definition without a result or with another
\* instance number than one it shares objects with, or one whose object is
\* ahead of it: collected for a query that failed later, or for a local
\* variable, it has the number already that the next hint gives it.
FreshVerdicts ==
  call.pc = "evaluated" /\ Subject \notin exposed
    => SawByDefinition(Subject) \subseteq Current(Subject)

\* A result of a test stays, and so does what it has been evaluated from:
\* later evaluations add instances and change neither the result nor the
\* object instance it points to (oval_agent.c:214-222).  An instance that
\* could not be collected is collected by a later query (oval_probe.c:258-264),
\* so a result that points to one may only be an error.
EvidenceStays ==
  [][\A t \in DOMAIN Tests : \A i \in DOMAIN rtests[t] :
       LET test == rtests[t][i]
           object == syschars[Tests[t].object][test.syschar]
           later == syschars'[Tests[t].object]
       IN test.result # "noteval" =>
            /\ rtests'[t][i] = test
            /\ test.syschar \in DOMAIN later
            /\ IF object.flag = "unknown" THEN test.result = "error"
               ELSE /\ later[test.syschar].flag = object.flag
                    /\ later[test.syschar].saw = object.saw]_agentVars
=============================================================================
