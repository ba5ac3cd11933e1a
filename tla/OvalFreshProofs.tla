-------------------------- MODULE OvalFreshProofs --------------------------
(***************************************************************************)
(* Verdicts rest on the values that are bound: the invariant that makes    *)
(* FreshVerdicts of OvalAgent hold, and that every step keeps it.          *)
(***************************************************************************)
EXTENDS OvalAgentProofs

-----------------------------------------------------------------------------
(* The invariant.                                                          *)

Pairs(V) == {<<x, values[x]>> : x \in V}
LocalsOf(d) == {v \in DirectVariables(d) : Local(v)}

\* The objects a definition is made of, those its local variables are made
\* of, and the members of its sets.
Behind(d) == {Locals[v].ref : v \in {w \in LocalsOf(d) : Locals[w].kind = "object"}}
MembersOf(d) == UNION {Range(Objects[o].members) : o \in ObjectsOf(d)}
Needs(d) == ObjectsOf(d) \cup Behind(d) \cup MembersOf(d)

\* What is known of a local variable or an object, what the probe has in its
\* cache and what a test has been evaluated from go with the bindings.
MemoFresh(v) == memo[v] # <<>> => memo[v][1].saw \subseteq Pairs(Externals(v))
CacheFresh(o) == rcache[o] # None => rcache[o].saw \subseteq Pairs(ObjVars(o))
ObjectFresh(o) == Started(syschars[o]) => Newest(syschars[o]).saw \subseteq Pairs(ObjVars(o))
TestFresh(t, i) == rtests[t][i].saw \subseteq Pairs(TestVars(t))

\* An object that does not is hinted: it will be collected again, for all the
\* definitions made of it have come to its number.
ObjectDue(o) ==
  /\ Hinted(syschars[o])
  /\ \A e \in Definitions : o \in ObjectsOf(e) /\ Started(rdefs[e]) =>
       Newest(rdefs[e]).inst >= Newest(syschars[o]).inst

\* A test that does not gets another result with definition f.
TestDue(f, t) ==
  Started(rdefs[f]) /\ Hinted(rdefs[f]) /\ Newest(rdefs[f]).hint > Newest(rtests[t]).inst

FreshObjects(d) ==
  /\ \A v \in LocalsOf(d) : MemoFresh(v)
  /\ \A o \in Behind(d) : ObjectFresh(o)
  /\ \A o \in ObjectsOf(d) : ObjectFresh(o) \/ ObjectDue(o)
  /\ \A o \in Needs(d) : CacheFresh(o)

FreshRefs(f, refs) ==
  \A k \in DOMAIN refs : Nodes(f)[k].kind = "test" => TestFresh(Nodes(f)[k].ref, refs[k])
FreshExtended(f, refs) ==
  \A k \in DOMAIN refs : Nodes(f)[k].kind = "extend" =>
    FreshRefs(Nodes(f)[k].ref, rdefs[Nodes(f)[k].ref][refs[k]].refs)
FreshDefinition(f) ==
  Started(rdefs[f]) /\ ~Hinted(rdefs[f]) =>
    FreshRefs(f, Newest(rdefs[f]).refs) /\ FreshExtended(f, Newest(rdefs[f]).refs)
FreshTest(f, t) == Started(rtests[t]) => TestFresh(t, Len(rtests[t])) \/ TestDue(f, t)
FreshResults(d) ==
  \A f \in Family(d) : FreshDefinition(f) /\ \A t \in DirectTests(f) : FreshTest(f, t)

\* Everything a definition that is not exposed rests on.
Fresh == \A d \in Definitions \ exposed : FreshObjects(d) /\ FreshResults(d)

-----------------------------------------------------------------------------
(* What a query finds is fresh.                                            *)

\* The parts of a definition and what is behind them.
LEMMA NeedsShape ==
  ASSUME NEW d \in Definitions
  PROVE  /\ \A v \in LocalsOf(d) :
              /\ v \in DOMAIN Locals /\ Local(v) /\ v \in DirectVariables(d)
              /\ Locals[v].kind = "variable" =>
                   Locals[v].ref \in External /\ Externals(v) = {Locals[v].ref}
              /\ Locals[v].kind # "variable" =>
                   /\ Locals[v].kind = "object" /\ Locals[v].ref \in Behind(d)
                   /\ ObjVars(Locals[v].ref) = Externals(v)
         /\ \A o \in Needs(d) :
              /\ o \in DOMAIN Objects
              /\ Objects[o].variable \in DirectVariables(d) \cup External \cup {None}
              /\ \A m \in Range(Objects[o].members) : m \in Needs(d) /\ ObjVars(m) \subseteq ObjVars(o)
         /\ \A o \in Behind(d) : \E v \in LocalsOf(d) :
              Locals[v].kind = "object" /\ Locals[v].ref = o /\ ObjVars(o) = Externals(v)
         /\ \A v \in DirectVariables(d) : v \in External \/ v \in LocalsOf(d)
  <1>1. ASSUME NEW v \in LocalsOf(d)
        PROVE  /\ v \in DOMAIN Locals /\ Local(v) /\ v \in DirectVariables(d) /\ v # None /\ v \notin External
               /\ \/ Locals[v].kind = "variable" /\ Locals[v].ref \in External
                  \/ /\ Locals[v].kind = "object" /\ Locals[v].ref \in DOMAIN Objects
                     /\ Objects[Locals[v].ref].variable \in External \cup {None}
                     /\ Objects[Locals[v].ref].members = <<>>
    <2>1. v \in DOMAIN Locals /\ Local(v) /\ v \in DirectVariables(d) /\ v \notin External
      BY DEF LocalsOf, Local
    <2> QED BY <2>1, ContentAssumption DEF Variables
  <1>2. \A o \in DOMAIN Objects : Objects[o].members = <<>> => MemberVariables(o) = {}
    BY DEF MemberVariables, Range
  <1>3. Externals(None) = {} /\ \A v \in External : Externals(v) = {v}
    BY VariablesShape
  <1>4. ASSUME NEW v \in LocalsOf(d), Locals[v].kind = "variable"
        PROVE  Locals[v].ref \in External /\ Externals(v) = {Locals[v].ref}
    BY <1>1, <1>4 DEF Externals
  <1>5. ASSUME NEW v \in LocalsOf(d), Locals[v].kind # "variable"
        PROVE  /\ Locals[v].kind = "object" /\ Locals[v].ref \in Behind(d)
               /\ ObjVars(Locals[v].ref) = Externals(v)
    <2>1. PICK o : o = Locals[v].ref
      OBVIOUS
    <2>2. /\ Locals[v].kind = "object" /\ o \in DOMAIN Objects /\ o \in Behind(d)
          /\ Objects[o].variable \in External \cup {None} /\ Objects[o].members = <<>>
      BY <1>1, <1>5, <2>1 DEF Behind
    <2>3. ObjVars(o) = Externals(Objects[o].variable)
      BY <1>2, <2>2 DEF ObjVars
    <2>4. Externals(v) = {Objects[o].variable} \cap External
      BY <1>1, <1>5, <2>1 DEF Externals
    <2>5. Externals(Objects[o].variable) = {Objects[o].variable} \cap External
      <3>1. None \notin External
        BY ContentAssumption DEF Variables
      <3> QED BY <1>3, <2>2, <3>1
    <2> QED BY <2>1, <2>2, <2>3, <2>4, <2>5
  <1>6. ASSUME NEW o \in Behind(d)
        PROVE  \E v \in LocalsOf(d) :
                 Locals[v].kind = "object" /\ Locals[v].ref = o /\ ObjVars(o) = Externals(v)
    BY <1>5 DEF Behind
  <1>7. ASSUME NEW o \in Needs(d)
        PROVE  /\ o \in DOMAIN Objects
               /\ Objects[o].variable \in DirectVariables(d) \cup External \cup {None}
               /\ \A m \in Range(Objects[o].members) : m \in Needs(d) /\ ObjVars(m) \subseteq ObjVars(o)
    <2>1. CASE o \in ObjectsOf(d)
      <3>1. /\ o \in DOMAIN Objects
            /\ Objects[o].variable \in DirectVariables(d) \cup {None}
        BY <2>1, VariablesShape
      <3>2. ASSUME NEW m \in Range(Objects[o].members)
            PROVE  m \in Needs(d) /\ ObjVars(m) \subseteq ObjVars(o)
        <4>1. m \in DOMAIN Objects /\ Objects[m].members = <<>>
          BY <3>1, ContentAssumption
        <4>2. ObjVars(m) = Externals(Objects[m].variable)
          BY <1>2, <4>1 DEF ObjVars
        <4>3. Objects[m].variable \in MemberVariables(o)
          BY DEF MemberVariables
        <4> QED BY <2>1, <4>2, <4>3 DEF ObjVars, Needs, MembersOf
      <3> QED BY <3>1, <3>2
    <2>2. CASE o \in Behind(d)
      <3>1. PICK v \in LocalsOf(d) : Locals[v].kind = "object" /\ Locals[v].ref = o
        BY <1>6, <2>2
      <3>2. /\ o \in DOMAIN Objects /\ Objects[o].variable \in External \cup {None}
            /\ Objects[o].members = <<>>
        BY <1>1, <3>1
      <3> QED BY <3>2 DEF Range
    <2>3. CASE o \in MembersOf(d)
      <3>1. PICK p \in ObjectsOf(d) : o \in Range(Objects[p].members)
        BY <2>3 DEF MembersOf
      <3>2. p \in DOMAIN Objects
        BY VariablesShape
      <3>3. o \in DOMAIN Objects /\ Objects[o].members = <<>>
        BY <3>1, <3>2, ContentAssumption
      <3>4. Objects[o].variable \in MemberVariables(p)
        BY <3>1 DEF MemberVariables
      <3>5. Objects[o].variable \in DirectVariables(d) \cup {None}
        BY <3>4, VariablesShape
      <3> QED BY <3>3, <3>5 DEF Range
    <2> QED BY <2>1, <2>2, <2>3 DEF Needs
  <1>8. \A v \in DirectVariables(d) : v \in External \/ v \in LocalsOf(d)
    BY VariablesShape DEF LocalsOf, Local, Variables
  <1> QED BY <1>1, <1>4, <1>5, <1>6, <1>7, <1>8

\* What a variable of the definition is computed from.
LEMMA SeenFresh ==
  ASSUME NEW d \in Definitions, FreshObjects(d),
         NEW v \in DirectVariables(d) \cup External \cup {None}, Computed(v)
  PROVE  Seen(v) \subseteq Pairs(Externals(v))
  <1>1. CASE v = None
    BY <1>1 DEF Seen
  <1>2. CASE v # None /\ v \in External
    <2>1. Externals(v) = {v}
      BY <1>2, VariablesShape
    <2> QED BY <1>2, <2>1 DEF Seen, Pairs
  <1>3. CASE v # None /\ v \notin External
    <2>1. v \in LocalsOf(d) /\ memo[v] # <<>>
      BY <1>3, NeedsShape DEF Computed
    <2> QED BY <1>3, <2>1 DEF FreshObjects, MemoFresh, Seen
  <1> QED BY <1>1, <1>2, <1>3

\* What a probe answers.
LEMMA CollectedFresh ==
  ASSUME NEW d \in Definitions, FreshObjects(d), NEW o \in Needs(d), Computed(Objects[o].variable)
  PROVE  Collected(o).saw \subseteq Pairs(ObjVars(o))
  <1>1. CASE rcache[o] # None
    <2>1. Collected(o) = rcache[o]
      BY <1>1 DEF Collected
    <2> QED BY <1>1, <2>1 DEF FreshObjects, CacheFresh
  <1>2. CASE rcache[o] = None /\ \E m \in Range(Objects[o].members) : rcache[m] = None
    <2>1. Collected(o) = [flag |-> "error", saw |-> {}]
      BY <1>2 DEF Collected
    <2> QED BY <2>1
  <1>3. CASE rcache[o] = None /\ ~\E m \in Range(Objects[o].members) : rcache[m] = None
    <2>1. PICK saw : saw = Seen(Objects[o].variable) \cup UNION {rcache[m].saw : m \in Range(Objects[o].members)}
      OBVIOUS
    <2>2. Collected(o) = [flag |-> "complete", saw |-> saw]
      BY <1>3, <2>1 DEF Collected
    <2>3. Seen(Objects[o].variable) \subseteq Pairs(Externals(Objects[o].variable))
      BY NeedsShape, SeenFresh
    <2>4. Seen(Objects[o].variable) \subseteq Pairs(ObjVars(o))
      BY <2>3 DEF ObjVars, Pairs
    <2>5. ASSUME NEW m \in Range(Objects[o].members)
          PROVE  rcache[m].saw \subseteq Pairs(ObjVars(o))
      <3>1. m \in Needs(d) /\ ObjVars(m) \subseteq ObjVars(o)
        BY NeedsShape
      <3>2. rcache[m].saw \subseteq Pairs(ObjVars(m))
        BY <1>3, <3>1 DEF FreshObjects, CacheFresh
      <3> QED BY <3>1, <3>2 DEF Pairs
    <2>6. saw \subseteq Pairs(ObjVars(o))
      BY <2>1, <2>4, <2>5
    <2> QED BY <2>2, <2>6
  <1> QED BY <1>1, <1>2, <1>3

-----------------------------------------------------------------------------
(* The steps of a query.                                                   *)

\* Only what the steps find can make a difference.
LEMMA QueryKeepsFresh ==
  ASSUME Fresh, UNCHANGED <<values, rdefs, rtests, exposed>>,
         \A d \in Definitions \ exposed : FreshObjects(d) =>
           /\ \A v \in LocalsOf(d) : MemoFresh(v)'
           /\ \A o \in ObjectsOf(d) \cup Behind(d) : syschars'[o] = syschars[o] \/ ObjectFresh(o)'
           /\ \A o \in Needs(d) : CacheFresh(o)'
  PROVE  Fresh'
  <1>1. ASSUME NEW d \in Definitions \ exposed
        PROVE  FreshResults(d)'
    <2>1. FreshResults(d)
      BY DEF Fresh
    <2>2. \A t, i : TestFresh(t, i)' = TestFresh(t, i)
      BY DEF TestFresh, Pairs
    <2>3. \A f, refs : FreshRefs(f, refs)' = FreshRefs(f, refs)
      BY <2>2 DEF FreshRefs
    <2>4. \A f \in Family(d) : FreshDefinition(f)'
      BY <2>1, <2>2 DEF FreshResults, FreshDefinition, FreshExtended, FreshRefs
    <2>5. \A f \in Family(d) : \A t \in DirectTests(f) : FreshTest(f, t)'
      BY <2>1, <2>2 DEF FreshResults, FreshTest, TestDue
    <2> QED BY <2>4, <2>5 DEF FreshResults
  <1>2. ASSUME NEW d \in Definitions \ exposed
        PROVE  FreshObjects(d)'
    <2>1. FreshObjects(d)
      BY DEF Fresh
    <2>2. /\ \A v \in LocalsOf(d) : MemoFresh(v)'
          /\ \A o \in ObjectsOf(d) \cup Behind(d) : syschars'[o] = syschars[o] \/ ObjectFresh(o)'
          /\ \A o \in Needs(d) : CacheFresh(o)'
      BY <2>1
    <2>3. \A o : syschars'[o] = syschars[o] =>
            ObjectFresh(o)' = ObjectFresh(o) /\ ObjectDue(o)' = ObjectDue(o)
      BY DEF ObjectFresh, ObjectDue, Pairs
    <2>4. \A o \in Behind(d) : ObjectFresh(o)'
      BY <2>1, <2>2, <2>3 DEF FreshObjects
    <2>5. \A o \in ObjectsOf(d) : ObjectFresh(o)' \/ ObjectDue(o)'
      BY <2>1, <2>2, <2>3 DEF FreshObjects
    <2> QED BY <2>2, <2>4, <2>5 DEF FreshObjects
  <1> QED BY <1>1, <1>2 DEF Fresh

\* A step that looks at the content only.
LEMMA LookingFresh ==
  ASSUME Fresh, UNCHANGED <<values, memo, rcache, syschars, rdefs, rtests, exposed>>
  PROVE  Fresh'
  <1>1. ASSUME NEW d \in Definitions \ exposed, FreshObjects(d)
        PROVE  /\ \A v \in LocalsOf(d) : MemoFresh(v)'
               /\ \A o \in Needs(d) : CacheFresh(o)'
    BY <1>1 DEF FreshObjects, MemoFresh, CacheFresh, Pairs
  <1> QED BY <1>1, QueryKeepsFresh

\* Another instance of an object has seen nothing yet.
LEMMA QueriedFresh ==
  ASSUME AgentOK, Fresh, QueryObject \/ QueryMember
  PROVE  Fresh'
  <1>1. UNCHANGED <<values, memo, rcache, rdefs, rtests, exposed>>
    BY DEF QueryObject, QueryMember
  <1>2. PICK o \in DOMAIN Objects : o = Ref
    <2>1. PICK kind \in {"object", "member"} : At(kind)
      BY DEF QueryObject, QueryMember
    <2>2. Head(call.todo).kind = kind /\ Head(call.todo).ref = Ref /\ IsNode(Head(call.todo))
      BY <2>1, HeadNode DEF AgentOK
    <2> QED BY <2>2 DEF IsNode, Plain
  <1>3. syschars' = syschars \/ syschars' = NewSyschar(o)
    BY <1>2 DEF QueryObject, QueryMember, oval_probe_query_object
  <1>4. ASSUME NEW p \in DOMAIN Objects
        PROVE  syschars'[p] = syschars[p] \/ ObjectFresh(p)'
    <2>1. CASE syschars' = NewSyschar(o)
      <3>1. /\ p # o => syschars'[p] = syschars[p]
            /\ Newest(syschars'[o]).saw = {}
        BY <2>1, NewSyscharShape DEF AgentOK
      <3> QED BY <3>1 DEF ObjectFresh
    <2> QED BY <1>3, <2>1
  <1>5. ASSUME NEW d \in Definitions \ exposed, FreshObjects(d)
        PROVE  /\ \A v \in LocalsOf(d) : MemoFresh(v)'
               /\ \A p \in ObjectsOf(d) \cup Behind(d) : syschars'[p] = syschars[p] \/ ObjectFresh(p)'
               /\ \A p \in Needs(d) : CacheFresh(p)'
    <2>1. \A p \in ObjectsOf(d) \cup Behind(d) : p \in DOMAIN Objects
      BY NeedsShape DEF Needs
    <2>2. /\ \A v \in LocalsOf(d) : MemoFresh(v)'
          /\ \A p \in Needs(d) : CacheFresh(p)'
      BY <1>1, <1>5 DEF FreshObjects, MemoFresh, CacheFresh, Pairs
    <2> QED BY <1>4, <2>1, <2>2
  <1> QED BY <1>1, <1>5, QueryKeepsFresh

\* A variable is computed from values that are bound now.
LEMMA ComputeVariableFresh ==
  ASSUME AgentOK, Fresh, ComputeVariable
  PROVE  Fresh'
  <1>1. UNCHANGED <<values, rcache, syschars, rdefs, rtests, exposed>>
    BY DEF ComputeVariable
  <1>2. Head(call.todo).ref = Ref /\ Head(call.todo).kind = "compute" /\ IsNode(Head(call.todo))
    BY HeadNode DEF AgentOK, ComputeVariable
  <1>3. PICK v \in DOMAIN Locals : v = Ref
    BY <1>2 DEF IsNode, Plain, Local
  <1>4. Locals[v].kind = "object" => Ready(Locals[v].ref)
    BY <1>3, HeadDue DEF AgentOK, ComputeVariable
  <1>5. PICK part : part = Locals[v].ref
    OBVIOUS
  <1>6. /\ \A w \in DOMAIN Locals : w # v => memo'[w] = memo[w]
        /\ Locals[v].kind = "variable" => memo'[v][1].saw = Seen(part)
        /\ Locals[v].kind # "variable" => memo'[v][1].saw = Newest(syschars[part]).saw
    <2>1. memo = [w \in DOMAIN Locals |-> memo[w]]
      BY DEF AgentOK, Shapes
    <2>2. CASE Locals[v].kind = "variable"
      <3>1. memo' = [memo EXCEPT ![v] = <<[good |-> Usable(part), saw |-> Seen(part)]>>]
        BY <1>3, <1>5, <2>2 DEF ComputeVariable
      <3> QED BY <2>1, <2>2, <3>1
    <2>3. CASE Locals[v].kind # "variable"
      <3>1. memo' = [memo EXCEPT ![v] = <<[good |-> Newest(syschars[part]).flag = "complete",
                                           saw |-> Newest(syschars[part]).saw]>>]
        BY <1>3, <1>5, <2>3 DEF ComputeVariable
      <3> QED BY <2>1, <2>3, <3>1
    <2> QED BY <2>2, <2>3
  <1>7. ASSUME NEW d \in Definitions \ exposed, FreshObjects(d)
        PROVE  /\ \A w \in LocalsOf(d) : MemoFresh(w)'
               /\ \A p \in Needs(d) : CacheFresh(p)'
    <2>1. \A p \in Needs(d) : CacheFresh(p)'
      BY <1>1, <1>7 DEF FreshObjects, CacheFresh, Pairs
    <2>2. ASSUME NEW w \in LocalsOf(d) PROVE MemoFresh(w)'
      <3>1. CASE w # v
        <4>1. w \in DOMAIN Locals
          BY NeedsShape
        <4> QED BY <1>1, <1>6, <1>7, <3>1, <4>1 DEF FreshObjects, MemoFresh, Pairs
      <3>2. CASE w = v /\ Locals[v].kind = "variable"
        <4>1. part \in External /\ Externals(v) = {part}
          BY <1>5, <3>2, NeedsShape
        <4>2. Seen(part) \subseteq Pairs(Externals(part)) /\ Externals(part) = {part}
          BY <1>7, <4>1, SeenFresh, VariablesShape DEF Computed
        <4> QED BY <1>1, <1>6, <3>2, <4>1, <4>2 DEF MemoFresh, Pairs
      <3>3. CASE w = v /\ Locals[v].kind # "variable"
        <4>1. Locals[v].kind = "object" /\ part \in Behind(d) /\ ObjVars(part) = Externals(v)
          BY <1>5, <3>3, NeedsShape
        <4>2. Newest(syschars[part]).saw \subseteq Pairs(ObjVars(part))
          BY <1>4, <1>5, <1>7, <4>1 DEF FreshObjects, ObjectFresh, Ready
        <4> QED BY <1>1, <1>6, <3>3, <4>1, <4>2 DEF MemoFresh, Pairs
      <3> QED BY <3>1, <3>2, <3>3
    <2> QED BY <2>1, <2>2
  <1> QED BY <1>1, <1>7, QueryKeepsFresh

\* What the probe answers and what it keeps.
LEMMA CollectFresh ==
  ASSUME AgentOK, Fresh, Collect \/ CacheMember
  PROVE  Fresh'
  <1>1. PICK kind \in {"collect", "cache", "combine"} : At(kind)
    BY DEF Collect, CacheMember
  <1>2. /\ Head(call.todo).ref = Ref /\ Head(call.todo).kind = kind /\ IsNode(Head(call.todo))
        /\ Writes(Head(call.todo)) => Awaits(Head(call.todo)) /\ Computed(VariableOf(Head(call.todo)))
    BY <1>1, HeadNode, HeadDue DEF AgentOK
  <1>3. PICK o \in DOMAIN Objects : o = Ref
    BY <1>2 DEF IsNode, Plain
  <1>4. Started(syschars[o]) /\ Computed(Objects[o].variable)
    BY <1>2, <1>3 DEF Writes, Awaits, VariableOf
  <1>5. PICK got : got = Collected(o)
    OBVIOUS
  <1>6. UNCHANGED <<values, memo, rdefs, rtests, exposed>>
    BY DEF Collect, CacheMember
  <1>7. rcache' = [rcache EXCEPT ![o] = got] /\ (syschars' = syschars \/ Found(o, got))
    BY <1>3, <1>5 DEF Collect, CacheMember
  <1>8. /\ \A p \in DOMAIN Objects : p # o => syschars'[p] = syschars[p] /\ rcache'[p] = rcache[p]
        /\ rcache'[o] = got
        /\ syschars'[o] = syschars[o] \/ Newest(syschars'[o]).saw = got.saw
    <2>1. rcache = [p \in DOMAIN Objects |-> rcache[p]]
      BY DEF AgentOK, Shapes
    <2>2. CASE Found(o, got)
      BY <1>4, <1>7, <2>1, <2>2, FoundShape DEF AgentOK
    <2> QED BY <1>7, <2>1, <2>2
  <1>9. ASSUME NEW d \in Definitions \ exposed, FreshObjects(d)
        PROVE  /\ \A v \in LocalsOf(d) : MemoFresh(v)'
               /\ \A p \in ObjectsOf(d) \cup Behind(d) : syschars'[p] = syschars[p] \/ ObjectFresh(p)'
               /\ \A p \in Needs(d) : CacheFresh(p)'
    <2>1. \A v \in LocalsOf(d) : MemoFresh(v)'
      BY <1>6, <1>9 DEF FreshObjects, MemoFresh, Pairs
    <2>2. o \in Needs(d) => got.saw \subseteq Pairs(ObjVars(o))
      BY <1>4, <1>5, <1>9, CollectedFresh
    <2>3. \A p \in Needs(d) : p \in DOMAIN Objects
      BY NeedsShape
    <2>4. ASSUME NEW p \in ObjectsOf(d) \cup Behind(d)
          PROVE  syschars'[p] = syschars[p] \/ ObjectFresh(p)'
      <3>1. p \in Needs(d) /\ p \in DOMAIN Objects
        BY <2>3 DEF Needs
      <3>2. CASE p # o
        BY <1>8, <3>1, <3>2
      <3>3. CASE p = o
        BY <1>6, <1>8, <2>2, <3>1, <3>3 DEF ObjectFresh, Pairs
      <3> QED BY <3>2, <3>3
    <2>5. ASSUME NEW p \in Needs(d) PROVE CacheFresh(p)'
      <3>1. CASE p # o
        BY <1>6, <1>8, <1>9, <2>3, <3>1 DEF FreshObjects, CacheFresh, Pairs
      <3>2. CASE p = o
        BY <1>6, <1>8, <2>2, <3>2 DEF CacheFresh, Pairs
      <3> QED BY <3>1, <3>2
    <2> QED BY <2>1, <2>4, <2>5
  <1> QED BY <1>6, <1>9, QueryKeepsFresh

\* An object that is not sent rests on what its variable has seen.
LEMMA NothingToSendFresh ==
  ASSUME AgentOK, Fresh, NothingToSend
  PROVE  Fresh'
  <1>1. PICK kind \in {"collect", "cache"} : At(kind)
    BY DEF NothingToSend
  <1>2. /\ Head(call.todo).ref = Ref /\ Head(call.todo).kind = kind /\ IsNode(Head(call.todo))
        /\ Writes(Head(call.todo)) => Awaits(Head(call.todo)) /\ Computed(VariableOf(Head(call.todo)))
    BY <1>1, HeadNode, HeadDue DEF AgentOK
  <1>3. PICK o \in DOMAIN Objects : o = Ref
    BY <1>2 DEF IsNode, Plain
  <1>4. Started(syschars[o]) /\ Computed(Objects[o].variable)
    BY <1>2, <1>3 DEF Writes, Awaits, VariableOf
  <1>5. PICK seen : seen = Seen(Objects[o].variable)
    OBVIOUS
  <1>6. UNCHANGED <<values, memo, rcache, rdefs, rtests, exposed>>
    BY DEF NothingToSend
  <1>7. Found(o, [flag |-> "does_not_exist", saw |-> seen])
    BY <1>3, <1>5 DEF NothingToSend
  <1>8. /\ \A p \in DOMAIN Objects : p # o => syschars'[p] = syschars[p]
        /\ Newest(syschars'[o]).saw = seen
    BY <1>4, <1>7, FoundShape DEF AgentOK
  <1>9. ASSUME NEW d \in Definitions \ exposed, FreshObjects(d)
        PROVE  /\ \A v \in LocalsOf(d) : MemoFresh(v)'
               /\ \A p \in ObjectsOf(d) \cup Behind(d) : syschars'[p] = syschars[p] \/ ObjectFresh(p)'
               /\ \A p \in Needs(d) : CacheFresh(p)'
    <2>1. /\ \A v \in LocalsOf(d) : MemoFresh(v)'
          /\ \A p \in Needs(d) : CacheFresh(p)'
      BY <1>6, <1>9 DEF FreshObjects, MemoFresh, CacheFresh, Pairs
    <2>2. o \in Needs(d) => seen \subseteq Pairs(ObjVars(o))
      <3>1. o \in Needs(d) => seen \subseteq Pairs(Externals(Objects[o].variable))
        BY <1>4, <1>5, <1>9, NeedsShape, SeenFresh
      <3> QED BY <3>1 DEF ObjVars, Pairs
    <2>3. ASSUME NEW p \in ObjectsOf(d) \cup Behind(d)
          PROVE  syschars'[p] = syschars[p] \/ ObjectFresh(p)'
      <3>1. p \in Needs(d) /\ p \in DOMAIN Objects
        BY NeedsShape DEF Needs
      <3>2. CASE p # o
        BY <1>8, <3>1, <3>2
      <3>3. CASE p = o
        BY <1>6, <1>8, <2>2, <3>1, <3>3 DEF ObjectFresh, Pairs
      <3> QED BY <3>2, <3>3
    <2> QED BY <2>1, <2>3
  <1> QED BY <1>6, <1>9, QueryKeepsFresh

\* A failure leaves nothing behind that has seen anything.
LEMMA CollectFailsFresh ==
  ASSUME AgentOK, Fresh, CollectFails
  PROVE  Fresh'
  <1>1. \/ memo' = memo
        \/ \E v \in DOMAIN Locals : memo' = [memo EXCEPT ![v] = <<[good |-> FALSE, saw |-> {}]>>]
    BY CollectFailsCall DEF AgentOK
  <1>2. UNCHANGED <<values, syschars, rdefs, rtests, exposed>> /\ rcache' \in {rcache, NothingCached}
    BY DEF CollectFails
  <1>3. \A v \in DOMAIN Locals : memo'[v] = memo[v] \/ memo'[v][1].saw = {}
    <2>1. memo = [v \in DOMAIN Locals |-> memo[v]]
      BY DEF AgentOK, Shapes
    <2> QED BY <1>1, <2>1
  <1>4. \A o \in DOMAIN Objects : rcache'[o] = rcache[o] \/ rcache'[o] = None
    BY <1>2 DEF NothingCached
  <1>5. ASSUME NEW d \in Definitions \ exposed, FreshObjects(d)
        PROVE  /\ \A v \in LocalsOf(d) : MemoFresh(v)'
               /\ \A p \in Needs(d) : CacheFresh(p)'
    <2>1. ASSUME NEW v \in LocalsOf(d) PROVE MemoFresh(v)'
      <3>1. v \in DOMAIN Locals
        BY NeedsShape
      <3> QED BY <1>2, <1>3, <1>5, <3>1 DEF FreshObjects, MemoFresh, Pairs
    <2>2. ASSUME NEW p \in Needs(d) PROVE CacheFresh(p)'
      <3>1. p \in DOMAIN Objects
        BY NeedsShape
      <3> QED BY <1>2, <1>4, <1>5, <3>1 DEF FreshObjects, CacheFresh, Pairs
    <2> QED BY <2>1, <2>2
  <1> QED BY <1>2, <1>5, QueryKeepsFresh

-----------------------------------------------------------------------------
(* A definition is evaluated.                                              *)

\* Objects that are due stay due: those of the definition were not.
LEMMA EvalObjectsFresh ==
  ASSUME AgentOK, NEW s \in Definitions, NEW made, Evaluation(made, s),
         UNCHANGED <<values, memo, rcache, syschars>>,
         \A t \in TestsOf(s) : Ready(Tests[t].object) /\ Computed(Tests[t].variable),
         NEW d \in Definitions, FreshObjects(d)
  PROVE  FreshObjects(d)'
  <1>1. ASSUME NEW o \in DOMAIN Objects, ObjectDue(o)
        PROVE  ObjectDue(o)'
    <2>1. ASSUME NEW e \in Definitions, o \in ObjectsOf(e), Started(rdefs'[e])
          PROVE  Newest(rdefs'[e]).inst >= Newest(syschars[o]).inst
      <3>1. /\ SameNumbers(rdefs'[e], made.rdefs[e])
            /\ made.rdefs[e] = rdefs[e] \/ e \in Family(s)
        BY DEF Evaluation, Instanced
      <3>2. CASE made.rdefs[e] = rdefs[e]
        <4>1. Started(rdefs[e]) /\ Newest(rdefs'[e]).inst = Newest(rdefs[e]).inst
          BY <2>1, <3>1, <3>2 DEF SameNumbers
        <4> QED BY <1>1, <2>1, <4>1 DEF ObjectDue
      <3>3. CASE e \in Family(s)
        <4>1. o \in ObjectsOf(s)
          BY <2>1, <3>3, FamilyShape
        <4>2. Ready(o)
          BY <4>1 DEF ObjectsOf
        <4> QED BY <1>1, <4>2 DEF ObjectDue, Ready
      <3> QED BY <3>1, <3>2, <3>3
    <2> QED BY <1>1, <2>1 DEF ObjectDue
  <1>2. \A o \in ObjectsOf(d) : o \in DOMAIN Objects
    BY VariablesShape
  <1>3. \A o : ObjectFresh(o)' = ObjectFresh(o)
    BY DEF ObjectFresh, Pairs
  <1>4. /\ \A v \in LocalsOf(d) : MemoFresh(v)'
        /\ \A o \in Needs(d) : CacheFresh(o)'
    BY DEF FreshObjects, MemoFresh, CacheFresh, Pairs
  <1> QED BY <1>1, <1>2, <1>3, <1>4 DEF FreshObjects

TestsKept(d) ==
  \A t \in TestsOf(d) : \A i \in DOMAIN rtests'[t] :
    \/ TestFresh(t, i)'
    \/ i \in DOMAIN rtests[t] /\ rtests'[t][i] = rtests[t][i]

\* What is evaluated is fresh.
LEMMA EvalTestsKept ==
  ASSUME AgentOK, NEW s \in Definitions, NEW made, Evaluation(made, s), UNCHANGED values,
         \A t \in TestsOf(s) : Ready(Tests[t].object) /\ Computed(Tests[t].variable),
         NEW d \in Definitions, FreshObjects(d)
  PROVE  TestsKept(d)
  <1> SUFFICES ASSUME NEW t \in TestsOf(d), NEW i \in DOMAIN rtests'[t]
               PROVE  \/ TestFresh(t, i)'
                      \/ i \in DOMAIN rtests[t] /\ rtests'[t][i] = rtests[t][i]
    BY DEF TestsKept
  <1>1. /\ t \in DOMAIN Tests /\ Tests[t].object \in ObjectsOf(d)
        /\ Tests[t].variable # None => Tests[t].variable \in DirectVariables(d)
    BY VariablesShape
  <1>2. i \in DOMAIN made.rtests[t]
    BY <1>1 DEF Evaluation
  <1>3. CASE rtests'[t][i] = made.rtests[t][i]
    <2>1. Longer(made.rtests[t], rtests[t])
      BY <1>1 DEF Evaluation, Instanced, Growing
    <2>2. CASE i \in DOMAIN rtests[t]
      BY <1>3, <2>1, <2>2 DEF Longer
    <2>3. CASE i \notin DOMAIN rtests[t]
      <3>1. made.rtests[t][i].saw = {}
        BY <1>2, <2>1, <2>3 DEF Longer
      <3> QED BY <1>3, <3>1 DEF TestFresh
    <2> QED BY <2>2, <2>3
  <1>4. CASE /\ t \in TestsOf(s)
             /\ rtests'[t][i].saw = Newest(syschars[Tests[t].object]).saw \cup Seen(Tests[t].variable)
    <2>1. PICK o : o = Tests[t].object
      OBVIOUS
    <2>2. Ready(o) /\ Computed(Tests[t].variable) /\ o \in ObjectsOf(d)
      BY <1>1, <1>4, <2>1
    <2>3. ObjectFresh(o)
      BY <2>2 DEF FreshObjects, ObjectDue, Ready
    <2>4. Newest(syschars[o]).saw \subseteq Pairs(ObjVars(o))
      BY <2>2, <2>3 DEF ObjectFresh, Ready
    <2>5. Seen(Tests[t].variable) \subseteq Pairs(Externals(Tests[t].variable))
      BY <1>1, <2>2, SeenFresh
    <2>6. rtests'[t][i].saw \subseteq Pairs(TestVars(t))
      BY <1>4, <2>1, <2>4, <2>5 DEF Pairs, TestVars
    <2> QED BY <2>6 DEF TestFresh, Pairs
  <1> QED BY <1>1, <1>2, <1>3, <1>4 DEF Evaluation

\* The references of a result that is there already.
LEMMA EvalRefsFresh ==
  ASSUME UNCHANGED values, NEW d \in Definitions, TestsKept(d),
         NEW f \in Definitions, DirectTests(f) \subseteq TestsOf(d),
         NEW refs, FreshRefs(f, refs), DOMAIN refs = DOMAIN Nodes(f),
         \A k \in DOMAIN refs : Nodes(f)[k].kind = "test" => refs[k] \in DOMAIN rtests'[Nodes(f)[k].ref],
         NEW new, new = refs
  PROVE  FreshRefs(f, new)'
  <1>1. ASSUME NEW k \in DOMAIN refs, Nodes(f)[k].kind = "test"
        PROVE  TestFresh(Nodes(f)[k].ref, refs[k])'
    <2>1. PICK t : t = Nodes(f)[k].ref
      OBVIOUS
    <2>2. PICK i : i = refs[k]
      OBVIOUS
    <2>3. t \in TestsOf(d) /\ i \in DOMAIN rtests'[t]
      BY <1>1, <2>1, <2>2, NodesShape
    <2>4. TestFresh(t, i)
      BY <1>1, <2>1, <2>2 DEF FreshRefs
    <2>5. TestFresh(t, i)' \/ rtests'[t][i] = rtests[t][i]
      BY <2>3 DEF TestsKept
    <2>6. TestFresh(t, i)'
      BY <2>4, <2>5 DEF TestFresh, Pairs
    <2> QED BY <2>1, <2>2, <2>6
  <1> QED BY <1>1 DEF FreshRefs

\* The last result of a test, unless another is still due.
LEMMA EvalTestFresh ==
  ASSUME AgentOK, NEW s \in Definitions, NEW made, Evaluation(made, s), UNCHANGED values,
         NEW d \in Definitions, TestsKept(d), NEW f \in Family(d), NEW t \in DirectTests(f),
         FreshTest(f, t)
  PROVE  FreshTest(f, t)'
  <1>1. f \in Definitions /\ t \in TestsOf(d) /\ t \in DOMAIN Tests
    BY FamilyShape
  <1>2. /\ IsSeq(rtests'[t]) /\ IsSeq(rtests[t]) /\ DOMAIN rtests[t] \subseteq DOMAIN rtests'[t]
        /\ DOMAIN rtests'[t] = DOMAIN made.rtests[t] /\ Len(rtests'[t]) = Len(made.rtests[t])
    BY <1>1 DEF Evaluation, AgentOK, Shapes
  <1> SUFFICES ASSUME Started(rtests'[t]), NEW n, n = Len(rtests'[t]), ~TestFresh(t, n)'
               PROVE  TestDue(f, t)'
    BY DEF FreshTest
  <1>3. n \in DOMAIN rtests[t] /\ rtests'[t][n] = rtests[t][n]
    <2>1. n \in DOMAIN rtests'[t]
      BY <1>2, SeqShape
    <2> QED BY <1>1, <2>1 DEF TestsKept
  <1>4. n = Len(rtests[t]) /\ Started(rtests[t])
    <2>1. /\ DOMAIN rtests[t] = 1 .. Len(rtests[t]) /\ Len(rtests[t]) \in Nat
          /\ DOMAIN rtests'[t] = 1 .. n /\ n \in Nat
          /\ Started(rtests[t]) <=> Len(rtests[t]) \in DOMAIN rtests[t]
      BY <1>2, SeqShape
    <2> QED BY <1>2, <1>3, <2>1
  <1>5. Newest(rtests'[t]) = Newest(rtests[t])
    BY <1>3, <1>4 DEF Newest
  <1>6. TestDue(f, t)
    <2>1. ~TestFresh(t, n)
      BY <1>3 DEF TestFresh, Pairs
    <2> QED BY <1>4, <2>1 DEF FreshTest
  <1>7. SameNumbers(rdefs'[f], made.rdefs[f])
    BY <1>1 DEF Evaluation
  <1>8. CASE made.rdefs[f] = rdefs[f]
    <2>1. /\ Started(rdefs'[f]) /\ Hinted(rdefs'[f])
          /\ Newest(rdefs'[f]).hint = Newest(rdefs[f]).hint
      BY <1>6, <1>7, <1>8 DEF SameNumbers, TestDue
    <2> QED BY <1>5, <1>6, <2>1 DEF TestDue
  <1>9. CASE Added(made.rtests, made.rdefs, f)
    <2>1. PICK m \in Nat : /\ Hinted(rdefs[f]) => m = Newest(rdefs[f]).hint
                           /\ \E rd : NewResult(made.rtests, f, m, rd)
      BY <1>9 DEF Added
    <2> PICK rd : NewResult(made.rtests, f, m, rd)
      BY <2>1
    <2>2. PICK k \in DOMAIN Nodes(f) : Nodes(f)[k].kind = "test" /\ Nodes(f)[k].ref = t
      BY <1>1, TestsShape
    <2>3. RefFor(made.rtests, t, rd.refs[k], m)
      BY <2>1, <2>2 DEF NewResult
    <2>4. \/ rd.refs[k] \in DOMAIN rtests'[t] /\ rd.refs[k] > n
          \/ Newest(rtests[t]).inst = m
      BY <1>2, <1>4, <2>3 DEF RefFor
    <2>5. DOMAIN rtests'[t] = 1 .. n
      BY <1>2, SeqShape
    <2>6. Newest(rtests[t]).inst = m
      BY <2>4, <2>5
    <2>7. m = Newest(rdefs[f]).hint
      BY <1>6, <2>1 DEF TestDue
    <2>8. IsTest(Newest(rtests[t]))
      BY <1>1, <1>3, <1>4 DEF AgentOK, Shapes, Newest
    <2> QED BY <1>6, <2>6, <2>7, <2>8 DEF TestDue, IsTest
  <1> QED BY <1>1, <1>8, <1>9 DEF Evaluation, Instanced

\* The references of a definition that did not need another result, or of
\* the one that was made for it.
LEMMA EvalOwnRefsFresh ==
  ASSUME AgentOK, NEW s \in Definitions, NEW made, Evaluation(made, s), UNCHANGED values,
         NEW d \in Definitions, TestsKept(d), NEW f \in Family(d), FreshDefinition(f),
         \A t \in DirectTests(f) : FreshTest(f, t),
         Started(rdefs'[f]), ~Hinted(rdefs'[f]), NEW refs, refs = Newest(rdefs'[f]).refs
  PROVE  /\ FreshRefs(f, refs)'
         /\ made.rdefs[f] = rdefs[f] =>
              /\ Started(rdefs[f]) /\ ~Hinted(rdefs[f]) /\ refs = Newest(rdefs[f]).refs
              /\ RefsOK(f, refs)
  <1>1. f \in Definitions /\ DirectTests(f) \subseteq TestsOf(d)
    BY FamilyShape
  <1>2. SameNumbers(rdefs'[f], made.rdefs[f])
    BY <1>1 DEF Evaluation
  <1>3. \A t \in DOMAIN Tests : DOMAIN rtests[t] \subseteq DOMAIN rtests'[t]
    BY DEF Evaluation
  <1>4. CASE made.rdefs[f] = rdefs[f]
    <2>1. Started(rdefs[f]) /\ ~Hinted(rdefs[f]) /\ refs = Newest(rdefs[f]).refs
      BY <1>2, <1>4 DEF SameNumbers
    <2>2. RefsOK(f, refs)
      <3>1. IsSeq(rdefs[f]) /\ Len(rdefs[f]) \in DOMAIN rdefs[f]
        BY <1>1, <2>1, SeqShape DEF AgentOK, Shapes
      <3> QED BY <1>1, <2>1, <3>1 DEF AgentOK, References_, Newest
    <2>3. FreshRefs(f, refs)
      BY <2>1 DEF FreshDefinition
    <2>4. ASSUME NEW k \in DOMAIN refs, Nodes(f)[k].kind = "test"
          PROVE  refs[k] \in DOMAIN rtests'[Nodes(f)[k].ref]
      <3>1. refs[k] \in DOMAIN rtests[Nodes(f)[k].ref] /\ Nodes(f)[k].ref \in DOMAIN Tests
        BY <1>1, <2>2, <2>4, NodesShape DEF RefsOK
      <3> QED BY <1>3, <3>1
    <2>5. DOMAIN refs = DOMAIN Nodes(f)
      BY <2>2 DEF RefsOK
    <2>6. FreshRefs(f, refs)'
      BY <1>1, <2>3, <2>4, <2>5, EvalRefsFresh
    <2> QED BY <2>1, <2>2, <2>6
  <1>5. CASE made.rdefs[f] # rdefs[f]
    <2>1. Added(made.rtests, made.rdefs, f)
      BY <1>1, <1>5 DEF Evaluation, Instanced
    <2> PICK m \in Nat : /\ Hinted(rdefs[f]) => m = Newest(rdefs[f]).hint
                         /\ \E rd : /\ NewResult(made.rtests, f, m, rd)
                                   /\ made.rdefs[f] = Append(rdefs[f], rd)
      BY <2>1 DEF Added
    <2>2. PICK rd : /\ Hinted(rdefs[f]) => m = Newest(rdefs[f]).hint
                    /\ NewResult(made.rtests, f, m, rd) /\ made.rdefs[f] = Append(rdefs[f], rd)
      OBVIOUS
    <2>3. refs = rd.refs
      <3>1. IsSeq(rdefs[f])
        BY <1>1 DEF AgentOK, Shapes
      <3>2. Newest(made.rdefs[f]) = rd /\ Started(made.rdefs[f])
        BY <2>2, <3>1, Appended
      <3> QED BY <1>2, <3>2 DEF SameNumbers
    <2>4. ASSUME NEW k \in DOMAIN refs, Nodes(f)[k].kind = "test"
          PROVE  TestFresh(Nodes(f)[k].ref, refs[k])'
      <3>1. PICK t : t = Nodes(f)[k].ref
        OBVIOUS
      <3>2. PICK i : i = refs[k]
        OBVIOUS
      <3>3. k \in DOMAIN Nodes(f) /\ RefFor(made.rtests, t, i, m)
        BY <2>2, <2>3, <2>4, <3>1, <3>2 DEF NewResult
      <3>4. t \in DirectTests(f) /\ t \in DOMAIN Tests
        BY <1>1, <2>4, <3>1, <3>3, NodesShape
      <3>5. i \in DOMAIN rtests'[t] /\ (i > Len(rtests[t]) \/ (i = Len(rtests[t]) /\ Newest(rtests[t]).inst = m))
        BY <3>3, <3>4 DEF RefFor, Evaluation
      <3>6. TestFresh(t, i)' \/ (i \in DOMAIN rtests[t] /\ rtests'[t][i] = rtests[t][i])
        BY <1>1, <3>4, <3>5 DEF TestsKept
      <3>7. ASSUME i \in DOMAIN rtests[t], rtests'[t][i] = rtests[t][i]
            PROVE  TestFresh(t, i)'
        <4>1. DOMAIN rtests[t] = 1 .. Len(rtests[t]) /\ IsTest(rtests[t][i]) /\ Started(rtests[t])
          BY <3>4, <3>7, SeqShape DEF AgentOK, Shapes, Started
        <4>2. i = Len(rtests[t]) /\ Newest(rtests[t]).inst = m
          BY <3>5, <3>7, <4>1
        <4>3. ~TestDue(f, t)
          BY <2>2, <4>1, <4>2 DEF TestDue, IsTest, Newest
        <4>4. TestFresh(t, i)
          BY <3>4, <4>1, <4>2, <4>3 DEF FreshTest
        <4> QED BY <3>7, <4>4 DEF TestFresh, Pairs
      <3> QED BY <3>1, <3>2, <3>6, <3>7
    <2>5. FreshRefs(f, refs)'
      BY <2>4 DEF FreshRefs
    <2> QED BY <1>5, <2>5
  <1> QED BY <1>4, <1>5

\* The references of the definitions a definition extends: the ones of a
\* result that stays are, and one that is made refers to their last results.
LEMMA EvalExtendedFresh ==
  ASSUME AgentOK, NEW s \in Definitions, NEW made, Evaluation(made, s), UNCHANGED values,
         NEW d \in Definitions, TestsKept(d),
         \A g \in Family(d) : FreshDefinition(g) /\ \A t \in DirectTests(g) : FreshTest(g, t),
         NEW f \in Family(d), Started(rdefs'[f]), ~Hinted(rdefs'[f]),
         NEW refs, refs = Newest(rdefs'[f]).refs,
         NEW k \in DOMAIN refs, Nodes(f)[k].kind = "extend", k \in DOMAIN Nodes(f),
         NEW e, e = Nodes(f)[k].ref, NEW own, own = rdefs'[e][refs[k]].refs
  PROVE  FreshRefs(e, own)'
  <1>1. /\ e \in Definitions /\ e \in ExtendedBy(f) /\ f \in Definitions
        /\ DirectTests(e) \subseteq TestsOf(d)
    <2>1. f \in Definitions /\ TestsOf(f) \subseteq TestsOf(d)
      BY FamilyShape
    <2>2. e \in Definitions /\ e \in ExtendedBy(f)
      BY <2>1, NodesShape
    <2> QED BY <2>1, <2>2, TestsShape
  <1>2. \A t \in DOMAIN Tests : DOMAIN rtests[t] \subseteq DOMAIN rtests'[t]
    BY DEF Evaluation
  <1>3. SameNumbers(rdefs'[e], made.rdefs[e])
    BY <1>1 DEF Evaluation
  <1>4. CASE made.rdefs[f] = rdefs[f]
    <2>1. /\ Started(rdefs[f]) /\ ~Hinted(rdefs[f]) /\ refs = Newest(rdefs[f]).refs
          /\ RefsOK(f, refs)
      BY <1>4, EvalOwnRefsFresh
    <2>2. refs[k] \in DOMAIN rdefs[e]
      BY <2>1 DEF RefsOK
    <2>3. own = rdefs[e][refs[k]].refs
      BY <1>1, <1>3, <2>2 DEF Evaluation, SameNumbers
    <2>4. FreshRefs(e, own)
      BY <2>1, <2>3 DEF FreshDefinition, FreshExtended
    <2>5. RefsOK(e, own)
      BY <1>1, <2>2, <2>3 DEF AgentOK, References_
    <2>6. ASSUME NEW j \in DOMAIN own, Nodes(e)[j].kind = "test"
          PROVE  own[j] \in DOMAIN rtests'[Nodes(e)[j].ref]
      <3>1. own[j] \in DOMAIN rtests[Nodes(e)[j].ref] /\ Nodes(e)[j].ref \in DOMAIN Tests
        BY <1>1, <2>5, <2>6, NodesShape DEF RefsOK
      <3> QED BY <1>2, <3>1
    <2>7. DOMAIN own = DOMAIN Nodes(e)
      BY <2>5 DEF RefsOK
    <2> QED BY <1>1, <2>4, <2>6, <2>7, EvalRefsFresh
  <1>5. CASE made.rdefs[f] # rdefs[f]
    <2>1. f \in Family(s) /\ Pending(f)
      BY <1>1, <1>5 DEF Evaluation, Instanced, Added
    <2>2. f = s
      BY <1>1, <2>1, TestsShape DEF Family
    <2>3. /\ Started(made.rdefs[e]) /\ ~Hinted(made.rdefs[e])
          /\ Newest(made.rdefs[s]).refs[k] = Len(made.rdefs[e])
      BY <2>1, <2>2 DEF Evaluation, Instanced
    <2>4. SameNumbers(rdefs'[s], made.rdefs[s]) /\ Started(made.rdefs[s])
      BY DEF Evaluation, Instanced
    <2>5. refs[k] = Len(rdefs'[e])
      BY <1>3, <2>2, <2>3, <2>4 DEF SameNumbers
    <2>6. /\ Started(rdefs'[e]) /\ ~Hinted(rdefs'[e])
          /\ own = Newest(rdefs'[e]).refs
      BY <1>3, <2>3, <2>5 DEF SameNumbers, Newest
    <2>7. e \in Family(d)
      BY <1>1, TestsShape DEF Family
    <2> QED BY <2>6, <2>7, EvalOwnRefsFresh
  <1> QED BY <1>4, <1>5

\* The definition whose query has come to its end is evaluated from what is
\* bound now, whether its result is new or it was there and not hinted away.
LEMMA EvalDefinitionFresh ==
  ASSUME AgentOK, Fresh, EvalDefinition
  PROVE  Fresh'
  <1>1. PICK s \in Definitions : s = Subject
    BY EvalDefinitionShape DEF AgentOK
  <1>2. PICK made : Evaluation(made, s)
    BY <1>1, EvalDefinitionShape DEF AgentOK
  <1>3. UNCHANGED <<values, memo, rcache, syschars, exposed>>
    BY DEF EvalDefinition
  <1>4. \A t \in TestsOf(s) : Ready(Tests[t].object) /\ Computed(Tests[t].variable)
    BY <1>1, ProbedReady DEF AgentOK, EvalDefinition
  <1>5. ASSUME NEW d \in Definitions \ exposed
        PROVE  FreshObjects(d)' /\ FreshResults(d)'
    <2>1. FreshObjects(d) /\ FreshResults(d)
      BY DEF Fresh
    <2>2. FreshObjects(d)'
      BY <1>2, <1>3, <1>4, <2>1, EvalObjectsFresh
    <2>3. TestsKept(d)
      BY <1>2, <1>3, <1>4, <2>1, EvalTestsKept
    <2>4. \A g \in Family(d) : FreshDefinition(g) /\ \A t \in DirectTests(g) : FreshTest(g, t)
      BY <2>1 DEF FreshResults
    <2>5. ASSUME NEW f \in Family(d)
          PROVE  FreshDefinition(f)' /\ \A t \in DirectTests(f) : FreshTest(f, t)'
      <3>1. \A t \in DirectTests(f) : FreshTest(f, t)'
        BY <1>2, <1>3, <2>3, <2>4, EvalTestFresh
      <3>2. ASSUME Started(rdefs'[f]), ~Hinted(rdefs'[f]), NEW refs, refs = Newest(rdefs'[f]).refs
            PROVE  FreshRefs(f, refs)' /\ DOMAIN refs = DOMAIN Nodes(f)
        <4>1. FreshRefs(f, refs)'
          BY <1>2, <1>3, <2>3, <2>4, <3>2, EvalOwnRefsFresh
        <4>2. f \in Definitions /\ SameNumbers(rdefs'[f], made.rdefs[f])
          BY <1>2, FamilyShape DEF Evaluation
        <4>3. /\ IsSeq(made.rdefs[f]) /\ Started(made.rdefs[f]) /\ refs = Newest(made.rdefs[f]).refs
              /\ \A i \in DOMAIN made.rdefs[f] :
                   RefsIn(made.rtests, made.rdefs, f, made.rdefs[f][i].refs)
          BY <1>2, <3>2, <4>2 DEF SameNumbers, Evaluation, DefinitionResults, ReferencesIn
        <4>4. Len(made.rdefs[f]) \in DOMAIN made.rdefs[f]
          BY <4>3, SeqShape
        <4> QED BY <4>1, <4>3, <4>4 DEF RefsIn, Newest
      <3>3. ASSUME Started(rdefs'[f]), ~Hinted(rdefs'[f]), NEW refs, refs = Newest(rdefs'[f]).refs
            PROVE  FreshExtended(f, refs)'
        <4>1. ASSUME NEW k \in DOMAIN refs, Nodes(f)[k].kind = "extend",
                     NEW own, own = rdefs'[Nodes(f)[k].ref][refs[k]].refs
              PROVE  FreshRefs(Nodes(f)[k].ref, own)'
          <5>1. k \in DOMAIN Nodes(f)
            BY <3>2, <3>3
          <5> QED BY <1>2, <1>3, <2>3, <2>4, <3>3, <4>1, <5>1, EvalExtendedFresh
        <4> QED BY <4>1 DEF FreshExtended
      <3> QED BY <3>1, <3>2, <3>3 DEF FreshDefinition
    <2> QED BY <2>2, <2>5 DEF FreshResults
  <1> QED BY <1>3, <1>5 DEF Fresh

-----------------------------------------------------------------------------
(* Variables are bound.                                                    *)

\* What the hints for variable x leave, and what they change.
DefinitionsHinted(x) ==
  \A d \in Definitions :
    /\ IsSeq(rdefs'[d]) /\ DOMAIN rdefs'[d] = DOMAIN rdefs[d]
    /\ Started(rdefs'[d]) <=> Started(rdefs[d])
    /\ \A i \in DOMAIN rdefs[d] : rdefs'[d][i].refs = rdefs[d][i].refs
    /\ Started(rdefs[d]) => /\ Newest(rdefs'[d]).inst = Newest(rdefs[d]).inst
                            /\ Newest(rdefs[d]).inst \in Nat
                            /\ Newest(rdefs[d]).hint \in {Newest(rdefs[d]).inst, Newest(rdefs[d]).inst + 1}
    /\ d \in HintedFor(x) => Hinted(rdefs'[d]) /\ Newest(rdefs'[d]).hint = Newest(rdefs[d]).inst + 1
    /\ d \notin HintedFor(x) => rdefs'[d] = rdefs[d]
ObjectsHinted(x) ==
  \A o \in DOMAIN Objects :
    /\ Started(syschars'[o]) <=> Started(syschars[o])
    /\ Started(syschars[o]) => /\ Newest(syschars'[o]).inst = Newest(syschars[o]).inst
                               /\ Newest(syschars[o]).inst \in Nat
                               /\ Newest(syschars'[o]).flag = Newest(syschars[o]).flag
                               /\ Newest(syschars'[o]).saw = Newest(syschars[o]).saw
    /\ Hinting(x, o) = {} => syschars'[o] = syschars[o]
    /\ Started(syschars[o]) /\ Hinting(x, o) # {} =>
         \E d \in Hinting(x, o) : Newest(syschars'[o]).hint = Newest(rdefs[d]).inst + 1
Rehinted(x) ==
  /\ UNCHANGED <<memo, rtests>>
  /\ DefinitionsHinted(x) /\ ObjectsHinted(x)
  /\ \A o \in DOMAIN Objects : rcache'[o] = None \/ (x = None /\ rcache'[o] = rcache[o])

\* oval_agent_resolve_variables hints what depends on one variable, and a
\* definition it does not expose had each of its changes carried by that.
LEMMA ResolvedShape ==
  ASSUME AgentOK, NEW bindings, oval_agent_resolve_variables(bindings), UNCHANGED <<memo, rtests>>
  PROVE  \E x : /\ Rehinted(x)
                /\ \A d \in Definitions \ exposed' :
                     /\ d \notin exposed
                     /\ HasEvidence(d) => \A v \in Depends(d) : values'[v] # values[v] => Carried(d, x, v)
  <1>1. PICK x : /\ exposed' = exposed \cup {d \in Definitions : Escapes(d, x, Rebound(bindings, x))}
                 /\ values' = Rebound(bindings, x)
                 /\ x = None => UNCHANGED <<rdefs, syschars, rcache>>
                 /\ x # None => /\ rdefs' = HintDefinitions(x) /\ syschars' = HintObjects(x)
                                /\ rcache' = NothingCached
    BY DEF oval_agent_resolve_variables
  <1>2. ASSUME NEW d \in Definitions \ exposed'
        PROVE  /\ d \notin exposed
               /\ HasEvidence(d) => \A v \in Depends(d) : values'[v] # values[v] => Carried(d, x, v)
    <2>1. d \notin exposed /\ ~Escapes(d, x, Rebound(bindings, x))
      BY <1>1
    <2> QED BY <1>1, <2>1 DEF Escapes
  <1>3. /\ \A d \in Definitions : IsSeq(rdefs[d]) /\ \A i \in DOMAIN rdefs[d] : IsDefinition(rdefs[d][i])
        /\ \A o \in DOMAIN Objects :
             IsSeq(syschars[o]) /\ \A i \in DOMAIN syschars[o] : IsInstance(syschars[o][i])
    BY DEF AgentOK, Shapes
  <1>4. \A d \in Definitions : Started(rdefs[d]) => IsDefinition(Newest(rdefs[d]))
    BY <1>3, SeqShape DEF Newest
  <1>5. \A o \in DOMAIN Objects : Started(syschars[o]) => IsInstance(Newest(syschars[o]))
    BY <1>3, SeqShape DEF Newest
  <1>6. CASE x = None
    <2>1. HintedFor(x) = {} /\ \A o : Hinting(x, o) = {}
      BY <1>6 DEF HintedFor, Hinting, Dependents, DirectVariables
    <2>2. DefinitionsHinted(x)
      BY <1>1, <1>3, <1>4, <1>6, <2>1 DEF DefinitionsHinted, IsDefinition
    <2>3. ObjectsHinted(x)
      BY <1>1, <1>5, <1>6, <2>1 DEF ObjectsHinted, IsInstance
    <2> QED BY <1>1, <1>2, <1>6, <2>2, <2>3 DEF Rehinted
  <1>7. CASE x # None
    <2>1. DefinitionsHinted(x)
      <3>1. \A d \in Definitions :
              /\ DefinitionResults(rdefs'[d]) /\ DOMAIN rdefs'[d] = DOMAIN rdefs[d]
              /\ Started(rdefs'[d]) <=> Started(rdefs[d])
              /\ \A i \in DOMAIN rdefs[d] : rdefs'[d][i].refs = rdefs[d][i].refs
              /\ Started(rdefs[d]) => Newest(rdefs'[d]).inst = Newest(rdefs[d]).inst
              /\ d \in HintedFor(x) => /\ Hinted(rdefs'[d])
                                       /\ Newest(rdefs'[d]).hint = Newest(rdefs[d]).inst + 1
              /\ d \notin HintedFor(x) => rdefs'[d] = rdefs[d]
        BY <1>1, <1>7, HintedDefinitions DEF AgentOK
      <3>2. \A d \in Definitions : Started(rdefs[d]) =>
              /\ Newest(rdefs[d]).inst \in Nat
              /\ Newest(rdefs[d]).hint \in {Newest(rdefs[d]).inst, Newest(rdefs[d]).inst + 1}
        BY <1>4 DEF IsDefinition
      <3> QED BY <3>1, <3>2 DEF DefinitionsHinted, DefinitionResults
    <2>2. ObjectsHinted(x)
      <3>1. \A o \in DOMAIN Objects :
              /\ Started(syschars'[o]) <=> Started(syschars[o])
              /\ Started(syschars[o]) => /\ Newest(syschars'[o]).inst = Newest(syschars[o]).inst
                                         /\ Newest(syschars'[o]).flag = Newest(syschars[o]).flag
                                         /\ Newest(syschars'[o]).saw = Newest(syschars[o]).saw
              /\ Hinting(x, o) = {} => syschars'[o] = syschars[o]
              /\ Started(syschars[o]) /\ Hinting(x, o) # {} =>
                   \E d \in Hinting(x, o) : Newest(syschars'[o]).hint = Newest(rdefs[d]).inst + 1
        BY <1>1, <1>7, HintedObjects DEF AgentOK
      <3>2. \A o \in DOMAIN Objects : Started(syschars[o]) => Newest(syschars[o]).inst \in Nat
        BY <1>5 DEF IsInstance
      <3> QED BY <3>1, <3>2 DEF ObjectsHinted
    <2>3. \A o \in DOMAIN Objects : rcache'[o] = None
      BY <1>1, <1>7 DEF NothingCached
    <2> QED BY <1>2, <2>1, <2>2, <2>3 DEF Rehinted
  <1> QED BY <1>6, <1>7

\* What is due stays due: a later number is hinted.
LEMMA RehintedDue ==
  ASSUME AgentOK, NEW x, Rehinted(x)
  PROVE  /\ \A o \in DOMAIN Objects : ObjectDue(o) => ObjectDue(o)'
         /\ \A f \in Definitions : \A t \in DOMAIN Tests :
              Started(rtests[t]) /\ TestDue(f, t) => TestDue(f, t)'
  <1>1. ASSUME NEW o \in DOMAIN Objects, ObjectDue(o)
        PROVE  ObjectDue(o)'
    <2>1. /\ Started(syschars[o]) /\ Started(syschars'[o])
          /\ Newest(syschars'[o]).inst = Newest(syschars[o]).inst /\ Newest(syschars[o]).inst \in Nat
      BY <1>1 DEF ObjectDue, Hinted, Rehinted, ObjectsHinted
    <2>2. Hinted(syschars'[o])
      <3>1. CASE Hinting(x, o) = {}
        BY <1>1, <3>1 DEF ObjectDue, Rehinted, ObjectsHinted
      <3>2. CASE Hinting(x, o) # {}
        <4>1. PICK e \in Hinting(x, o) : Newest(syschars'[o]).hint = Newest(rdefs[e]).inst + 1
          BY <2>1, <3>2 DEF Rehinted, ObjectsHinted
        <4>2. e \in Definitions /\ Started(rdefs[e]) /\ o \in ObjectsOf(e)
          BY DEF Hinting, HintedFor, Dependents
        <4>3. Newest(rdefs[e]).inst >= Newest(syschars[o]).inst /\ Newest(rdefs[e]).inst \in Nat
          BY <1>1, <4>2 DEF ObjectDue, Rehinted, DefinitionsHinted
        <4> QED BY <2>1, <4>1, <4>3 DEF Hinted
      <3> QED BY <3>1, <3>2
    <2>3. \A e \in Definitions : o \in ObjectsOf(e) /\ Started(rdefs'[e]) =>
            Newest(rdefs'[e]).inst >= Newest(syschars'[o]).inst
      BY <1>1, <2>1 DEF ObjectDue, Rehinted, DefinitionsHinted
    <2> QED BY <2>2, <2>3 DEF ObjectDue
  <1>2. ASSUME NEW f \in Definitions, NEW t \in DOMAIN Tests, Started(rtests[t]), TestDue(f, t)
        PROVE  TestDue(f, t)'
    <2>1. rtests' = rtests
      BY DEF Rehinted
    <2>2. CASE f \notin HintedFor(x)
      BY <1>2, <2>1, <2>2 DEF TestDue, Rehinted, DefinitionsHinted
    <2>3. CASE f \in HintedFor(x)
      <3>1. /\ Hinted(rdefs'[f]) /\ Newest(rdefs'[f]).hint = Newest(rdefs[f]).inst + 1
            /\ Newest(rdefs[f]).hint = Newest(rdefs[f]).inst + 1
        BY <1>2, <2>3 DEF TestDue, Rehinted, DefinitionsHinted, Hinted
      <3> QED BY <1>2, <2>1, <3>1 DEF TestDue, Hinted
    <2> QED BY <2>2, <2>3
  <1> QED BY <1>1, <1>2

\* What does not rest on the variables that got other values.
LEMMA SamePairs ==
  ASSUME NEW V, NEW W, V \subseteq W, \A v \in W : values'[v] = values[v],
         NEW saw, saw \subseteq Pairs(V)
  PROVE  saw \subseteq Pairs(V)'
  BY DEF Pairs

\* What none of the changed variables reaches stays as fresh as it was: an
\* object,
LEMMA RehintedObjectFresh ==
  ASSUME AgentOK, NEW x, Rehinted(x), NEW o \in DOMAIN Objects, ObjectFresh(o),
         \A v \in ObjVars(o) : values'[v] = values[v]
  PROVE  ObjectFresh(o)'
  <1> SUFFICES ASSUME Started(syschars'[o])
               PROVE  Newest(syschars'[o]).saw \subseteq Pairs(ObjVars(o))'
    BY DEF ObjectFresh
  <1>1. Started(syschars[o]) /\ Newest(syschars'[o]).saw = Newest(syschars[o]).saw
    BY DEF Rehinted, ObjectsHinted
  <1>2. Newest(syschars[o]).saw \subseteq Pairs(ObjVars(o))
    BY <1>1 DEF ObjectFresh
  <1> QED BY <1>1, <1>2, SamePairs

\* a test,
LEMMA RehintedTestFresh ==
  ASSUME AgentOK, NEW x, Rehinted(x), NEW t \in DOMAIN Tests, NEW i, TestFresh(t, i),
         \A v \in TestVars(t) : values'[v] = values[v]
  PROVE  TestFresh(t, i)'
  <1>1. rtests' = rtests
    BY DEF Rehinted
  <1>2. rtests[t][i].saw \subseteq Pairs(TestVars(t))
    BY DEF TestFresh
  <1> QED BY <1>1, <1>2, SamePairs DEF TestFresh

\* and the tests of an instance of a definition.
LEMMA RehintedRefsFresh ==
  ASSUME AgentOK, NEW x, Rehinted(x), NEW f \in Definitions, NEW refs, FreshRefs(f, refs),
         DOMAIN refs \subseteq DOMAIN Nodes(f), \A v \in Depends(f) : values'[v] = values[v]
  PROVE  FreshRefs(f, refs)'
  <1>1. ASSUME NEW k \in DOMAIN refs, Nodes(f)[k].kind = "test"
        PROVE  TestFresh(Nodes(f)[k].ref, refs[k])'
    <2>1. PICK t \in DirectTests(f) : t = Nodes(f)[k].ref
      BY <1>1, NodesShape
    <2>2. PICK i : i = refs[k]
      OBVIOUS
    <2>3. t \in DOMAIN Tests /\ TestVars(t) \subseteq Depends(f)
      BY FamilyShape, OwnFamily, VariablesShape
    <2>4. TestFresh(t, i)
      BY <1>1, <2>1, <2>2 DEF FreshRefs
    <2>5. TestFresh(t, i)'
      BY <2>3, <2>4, RehintedTestFresh
    <2> QED BY <2>1, <2>2, <2>5
  <1> QED BY <1>1 DEF FreshRefs

\* A result that nothing hints away, of a definition whose variables keep
\* their values.
LEMMA RehintedDefinitionFresh ==
  ASSUME AgentOK, NEW x, Rehinted(x), NEW f \in Definitions, FreshDefinition(f),
         \A v \in Depends(f) : values'[v] = values[v]
  PROVE  FreshDefinition(f)'
  <1> SUFFICES ASSUME Started(rdefs'[f]), ~Hinted(rdefs'[f]), NEW refs, refs = Newest(rdefs'[f]).refs
               PROVE  FreshRefs(f, refs)' /\ FreshExtended(f, refs)'
    BY DEF FreshDefinition
  <1>1. rdefs'[f] = rdefs[f]
    BY DEF Rehinted, DefinitionsHinted
  <1>2. refs = Newest(rdefs[f]).refs
    BY <1>1
  <1>3. FreshRefs(f, refs) /\ FreshExtended(f, refs)
    BY <1>1, <1>2 DEF FreshDefinition
  <1>4. RefsOK(f, refs)
    <2>1. Len(rdefs[f]) \in DOMAIN rdefs[f]
      BY <1>1, SeqShape DEF AgentOK, Shapes
    <2> QED BY <1>2, <2>1 DEF AgentOK, References_, Newest
  <1>5. FreshRefs(f, refs)'
    BY <1>3, <1>4, RehintedRefsFresh DEF RefsOK
  <1>6. FreshExtended(f, refs)'
    <2>1. ASSUME NEW k \in DOMAIN refs, Nodes(f)[k].kind = "extend",
                 NEW own, own = rdefs'[Nodes(f)[k].ref][refs[k]].refs
          PROVE  FreshRefs(Nodes(f)[k].ref, own)'
      <3>1. k \in DOMAIN Nodes(f)
        BY <1>4 DEF RefsOK
      <3>2. PICK e \in ExtendedBy(f) : e = Nodes(f)[k].ref /\ e \in Definitions
        BY <2>1, <3>1, NodesShape
      <3>3. refs[k] \in DOMAIN rdefs[e]
        BY <1>4, <2>1, <3>2 DEF RefsOK
      <3>4. own = rdefs[e][refs[k]].refs
        BY <2>1, <3>2, <3>3 DEF Rehinted, DefinitionsHinted
      <3>5. FreshRefs(e, own)
        BY <1>3, <2>1, <3>2, <3>4 DEF FreshExtended
      <3>6. DOMAIN own \subseteq DOMAIN Nodes(e)
        BY <3>2, <3>3, <3>4 DEF AgentOK, References_, RefsOK
      <3>7. Depends(e) \subseteq Depends(f)
        BY FamilyShape, OwnFamily
      <3> QED BY <3>2, <3>5, <3>6, <3>7, RehintedRefsFresh
    <2> QED BY <2>1 DEF FreshExtended
  <1> QED BY <1>5, <1>6

\* A definition whose variables keep their values.
LEMMA SameValuesFresh ==
  ASSUME AgentOK, NEW x, Rehinted(x), NEW d \in Definitions, FreshObjects(d), FreshResults(d),
         \A v \in Depends(d) : values'[v] = values[v]
  PROVE  FreshObjects(d)' /\ FreshResults(d)'
  <1>1. \A v \in LocalsOf(d) : MemoFresh(v)'
    <2>1. ASSUME NEW v \in LocalsOf(d), memo[v] # <<>>
          PROVE  memo[v][1].saw \subseteq Pairs(Externals(v))'
      <3>1. Externals(v) \subseteq Depends(d)
        BY NeedsShape, VariablesShape
      <3>2. memo[v][1].saw \subseteq Pairs(Externals(v))
        BY <2>1 DEF FreshObjects, MemoFresh
      <3> QED BY <3>1, <3>2, SamePairs
    <2> QED BY <2>1 DEF MemoFresh, Rehinted
  <1>2. \A o \in Needs(d) : o \in DOMAIN Objects /\ ObjVars(o) \subseteq Depends(d)
    <2>1. \A o \in ObjectsOf(d) : o \in DOMAIN Objects /\ ObjVars(o) \subseteq Depends(d)
      BY VariablesShape
    <2>2. \A o \in Behind(d) : ObjVars(o) \subseteq Depends(d)
      BY NeedsShape, VariablesShape
    <2>3. \A o \in MembersOf(d) : ObjVars(o) \subseteq Depends(d)
      <3>1. ASSUME NEW p \in ObjectsOf(d), NEW o \in Range(Objects[p].members)
            PROVE  ObjVars(o) \subseteq Depends(d)
        <4>1. p \in Needs(d)
          BY DEF Needs
        <4> QED BY <2>1, <4>1, NeedsShape
      <3> QED BY <3>1 DEF MembersOf
    <2>4. \A o \in Needs(d) : o \in DOMAIN Objects
      BY NeedsShape
    <2> QED BY <2>1, <2>2, <2>3, <2>4 DEF Needs
  <1>3. \A o \in Needs(d) : ObjectFresh(o) => ObjectFresh(o)'
    BY <1>2, RehintedObjectFresh
  <1>4. \A o \in Needs(d) : CacheFresh(o)'
    <2>1. ASSUME NEW o \in Needs(d), rcache'[o] # None
          PROVE  rcache'[o].saw \subseteq Pairs(ObjVars(o))'
      <3>1. rcache'[o] = rcache[o]
        BY <1>2, <2>1 DEF Rehinted
      <3>2. rcache[o].saw \subseteq Pairs(ObjVars(o))
        BY <2>1, <3>1 DEF FreshObjects, CacheFresh
      <3> QED BY <1>2, <3>1, <3>2, SamePairs
    <2> QED BY <2>1 DEF CacheFresh
  <1>5. FreshObjects(d)'
    <2>1. \A o \in ObjectsOf(d) : ObjectFresh(o)' \/ ObjectDue(o)'
      BY <1>2, <1>3, RehintedDue DEF FreshObjects, Needs
    <2>2. \A o \in Behind(d) : ObjectFresh(o)'
      BY <1>3 DEF FreshObjects, Needs
    <2> QED BY <1>1, <1>4, <2>1, <2>2 DEF FreshObjects
  <1>6. ASSUME NEW f \in Family(d)
        PROVE  FreshDefinition(f)' /\ \A t \in DirectTests(f) : FreshTest(f, t)'
    <2>1. f \in Definitions /\ Depends(f) \subseteq Depends(d)
      BY FamilyShape
    <2>2. FreshDefinition(f)'
      BY <2>1, RehintedDefinitionFresh DEF FreshResults
    <2>3. ASSUME NEW t \in DirectTests(f), Started(rtests'[t])
          PROVE  TestFresh(t, Len(rtests[t]))' \/ TestDue(f, t)'
      <3>1. t \in DOMAIN Tests /\ TestVars(t) \subseteq Depends(d) /\ Started(rtests[t])
        BY <2>1, <2>3, FamilyShape, OwnFamily, VariablesShape DEF Rehinted
      <3>2. TestFresh(t, Len(rtests[t])) \/ TestDue(f, t)
        BY <3>1 DEF FreshResults, FreshTest
      <3>3. PICK i : i = Len(rtests[t])
        OBVIOUS
      <3>4. TestFresh(t, i) => TestFresh(t, i)'
        BY <3>1, RehintedTestFresh
      <3> QED BY <2>1, <3>1, <3>2, <3>3, <3>4, RehintedDue DEF Rehinted, TestFresh
    <2> QED BY <2>2, <2>3 DEF FreshTest
  <1> QED BY <1>5, <1>6 DEF FreshResults

\* A definition nothing is known of.
LEMMA NoEvidenceFresh ==
  ASSUME AgentOK, NEW x, Rehinted(x), NEW d \in Definitions, ~HasEvidence(d)
  PROVE  FreshObjects(d)' /\ FreshResults(d)'
  <1>1. /\ ~Started(rdefs[d])
        /\ \A t \in TestsOf(d) : ~Started(rtests[t])
        /\ \A o \in ObjectsOf(d) : ~Started(syschars[o])
        /\ \A v \in LocalsOf(d) : memo[v] = <<>>
        /\ \A o \in Behind(d) : ~Started(syschars[o])
        /\ \A o \in MembersOf(d) : ~Started(syschars[o])
    <2>1. ~Started(rdefs[d]) /\ \A t \in TestsOf(d) : ~Started(rtests[t]) /\ ~Started(syschars[Tests[t].object])
      BY DEF HasEvidence
    <2>2. \A v \in LocalsOf(d) : /\ memo[v] = <<>>
                                 /\ Locals[v].kind = "object" => ~Started(syschars[Locals[v].ref])
      BY NeedsShape DEF HasEvidence
    <2>3. \A o \in MembersOf(d) : ~Started(syschars[o])
      <3>1. ASSUME NEW p \in ObjectsOf(d), NEW o \in Range(Objects[p].members)
            PROVE  ~Started(syschars[o])
        <4>1. p \in Needs(d) /\ o \in DOMAIN Objects
          BY NeedsShape DEF Needs
        <4> QED BY <4>1 DEF HasEvidence
      <3> QED BY <3>1 DEF MembersOf
    <2> QED BY <2>1, <2>2, <2>3 DEF ObjectsOf, Behind
  <1>2. \A o \in Needs(d) : o \in DOMAIN Objects /\ ~Started(syschars[o])
    BY <1>1, NeedsShape DEF Needs
  <1>3. \A o \in Needs(d) : ObjectFresh(o)' /\ CacheFresh(o)'
    BY <1>2 DEF ObjectFresh, CacheFresh, Rehinted, ObjectsHinted, AgentOK, Cached
  <1>4. FreshObjects(d)'
    BY <1>1, <1>3 DEF FreshObjects, MemoFresh, Rehinted, Needs
  <1>5. ASSUME NEW f \in Family(d)
        PROVE  FreshDefinition(f)' /\ \A t \in DirectTests(f) : FreshTest(f, t)'
    <2>1. f \in Definitions /\ DirectTests(f) \subseteq TestsOf(d) /\ TestsOf(d) \subseteq DOMAIN Tests
      BY FamilyShape
    <2>2. \A t \in DirectTests(f) : FreshTest(f, t)'
      BY <1>1, <2>1 DEF FreshTest, Rehinted
    <2>3. CASE f = d
      <3>1. ~Started(rdefs'[f])
        BY <1>1, <2>3 DEF Rehinted, DefinitionsHinted
      <3> QED BY <2>2, <3>1 DEF FreshDefinition
    <2>4. CASE f # d
      <3> SUFFICES ASSUME Started(rdefs'[f]), NEW refs, refs = Newest(rdefs'[f]).refs
                   PROVE  FreshRefs(f, refs)' /\ FreshExtended(f, refs)'
        BY <2>2 DEF FreshDefinition
      <3>1. RefsOK(f, refs)
        <4>1. Len(rdefs'[f]) \in DOMAIN rdefs'[f] /\ DOMAIN rdefs'[f] = DOMAIN rdefs[f]
          BY <2>1, SeqShape DEF Rehinted, DefinitionsHinted
        <4>2. refs = rdefs[f][Len(rdefs'[f])].refs
          BY <2>1, <4>1 DEF Newest, Rehinted, DefinitionsHinted
        <4> QED BY <2>1, <4>1, <4>2 DEF AgentOK, References_
      <3>2. f \in ExtendedBy(d) /\ ExtendedBy(f) = {}
        BY <2>4, TestsShape DEF Family
      <3>3. \A k \in DOMAIN refs : Nodes(f)[k].kind # "test"
        <4>1. ASSUME NEW k \in DOMAIN refs, Nodes(f)[k].kind = "test"
              PROVE  FALSE
          <5>1. PICK t \in DirectTests(f) : t = Nodes(f)[k].ref
            BY <2>1, <3>1, <4>1, NodesShape DEF RefsOK
          <5>2. refs[k] \in DOMAIN rtests[t]
            BY <3>1, <4>1, <5>1 DEF RefsOK
          <5>3. ~Started(rtests[t])
            BY <1>1, <2>1
          <5> QED BY <5>2, <5>3 DEF Started
        <4> QED BY <4>1
      <3>4. \A k \in DOMAIN refs : Nodes(f)[k].kind # "extend"
        BY <2>1, <3>1, <3>2, NodesShape DEF RefsOK
      <3> QED BY <3>3, <3>4 DEF FreshRefs, FreshExtended
    <2> QED BY <2>2, <2>3, <2>4
  <1> QED BY <1>4, <1>5 DEF FreshResults

\* The change is carried: the hints reach the definition and whatever shares
\* objects or tests with it, and all of these are at the same number.
CarriedTo(d, x) ==
  /\ d \in HintedFor(x) /\ x \in External /\ x \in DirectVariables(d)
  /\ ~OutOfStep(d, x) /\ ~Ahead(d)
  /\ \A w \in DirectVariables(d) : x \in Externals(w) => w = x
  /\ \A o \in ObjectsOf(d) : x \notin MemberVariables(o)
  /\ \A v \in Depends(d) : v # x => values'[v] = values[v]

\* A definition to which a change is carried has a result, depends on the
\* variable directly, and its objects are no further than it is.
LEMMA CarriedShape ==
  ASSUME AgentOK, NEW x, NEW d \in Definitions, NEW v0 \in Depends(d), values'[v0] # values[v0],
         \A v \in Depends(d) : values'[v] # values[v] => Carried(d, x, v)
  PROVE  CarriedTo(d, x)
  <1>1. Carried(d, x, v0) /\ v0 = x
    BY DEF Carried
  <1>2. PICK w \in DirectVariables(d) : x \in Externals(w)
    BY <1>1 DEF Depends
  <1>3. w = x /\ x \in External
    BY <1>1, <1>2, VariablesShape DEF Carried
  <1>4. d \in HintedFor(x)
    BY <1>1, <1>3 DEF Carried, HintedFor, Dependents
  <1>5. \A v \in Depends(d) : v # x => values'[v] = values[v]
    BY DEF Carried
  <1> QED BY <1>1, <1>3, <1>4, <1>5 DEF Carried, CarriedTo

\* What the variable is behind names it: so every definition made of it is
\* hinted, and those that share it are at the number of d.
LEMMA CarriedParts ==
  ASSUME AgentOK, NEW x, NEW d \in Definitions, CarriedTo(d, x)
  PROVE  /\ \A o \in ObjectsOf(d) : x \in ObjVars(o) =>
              /\ o \in DOMAIN Objects /\ d \in Hinting(x, o)
              /\ Started(syschars[o]) => Newest(syschars[o]).inst <= Newest(rdefs[d]).inst
              /\ \A e \in Definitions : o \in ObjectsOf(e) /\ Started(rdefs[e]) =>
                   e \in Hinting(x, o) /\ Newest(rdefs[e]).inst = Newest(rdefs[d]).inst
         /\ \A t \in TestsOf(d) : x \in TestVars(t) =>
              \A e \in Definitions : t \in TestsOf(e) /\ Started(rdefs[e]) =>
                e \in HintedFor(x) /\ Newest(rdefs[e]).inst = Newest(rdefs[d]).inst
  <1>1. ASSUME NEW o \in ObjectsOf(d), x \in ObjVars(o)
        PROVE  Objects[o].variable = x /\ x # None
    <2>1. x # None
      BY VariablesShape DEF CarriedTo, DirectVariables
    <2>2. CASE x \in Externals(Objects[o].variable)
      <3>1. Objects[o].variable # None
        BY <2>2, VariablesShape
      <3>2. Objects[o].variable \in DirectVariables(d)
        BY <3>1, VariablesShape
      <3> QED BY <2>1, <2>2, <3>2 DEF CarriedTo
    <2>3. CASE x \notin Externals(Objects[o].variable)
      <3>1. PICK w \in MemberVariables(o) : x \in Externals(w)
        BY <1>1, <2>3 DEF ObjVars
      <3>2. w # None
        BY <3>1, VariablesShape
      <3>3. w \in DirectVariables(d)
        BY <3>2, VariablesShape
      <3> QED BY <3>1, <3>3 DEF CarriedTo
    <2> QED BY <2>2, <2>3
  <1>2. ASSUME NEW o \in ObjectsOf(d), x \in ObjVars(o)
        PROVE  /\ o \in DOMAIN Objects /\ d \in Hinting(x, o)
               /\ Started(syschars[o]) => Newest(syschars[o]).inst <= Newest(rdefs[d]).inst
               /\ \A e \in Definitions : o \in ObjectsOf(e) /\ Started(rdefs[e]) =>
                    e \in Hinting(x, o) /\ Newest(rdefs[e]).inst = Newest(rdefs[d]).inst
    <2>1. o \in DOMAIN Objects /\ d \in Hinting(x, o)
      BY VariablesShape DEF CarriedTo, Hinting
    <2>2. ASSUME Started(syschars[o]) PROVE Newest(syschars[o]).inst <= Newest(rdefs[d]).inst
      <3>1. ~(Newest(syschars[o]).inst > Newest(rdefs[d]).inst)
        BY <2>2 DEF CarriedTo, Ahead
      <3>2. Newest(syschars[o]).inst \in Nat
        <4>1. Len(syschars[o]) \in DOMAIN syschars[o] /\ IsInstance(syschars[o][Len(syschars[o])])
          BY <2>1, <2>2, SeqShape DEF AgentOK, Shapes
        <4> QED BY <4>1 DEF IsInstance, Newest
      <3>3. Newest(rdefs[d]).inst \in Nat
        <4>1. Started(rdefs[d])
          BY DEF CarriedTo, HintedFor
        <4>2. Len(rdefs[d]) \in DOMAIN rdefs[d] /\ IsDefinition(rdefs[d][Len(rdefs[d])])
          BY <4>1, SeqShape DEF AgentOK, Shapes
        <4> QED BY <4>2 DEF IsDefinition, Newest
      <3> QED BY <3>1, <3>2, <3>3
    <2>3. ASSUME NEW e \in Definitions, o \in ObjectsOf(e), Started(rdefs[e])
          PROVE  e \in Hinting(x, o) /\ Newest(rdefs[e]).inst = Newest(rdefs[d]).inst
      <3>1. x \in DirectVariables(e)
        BY <1>1, <1>2, <2>3, VariablesShape
      <3>2. e \in HintedFor(x)
        BY <2>3, <3>1 DEF HintedFor, Dependents
      <3>3. ObjectsOf(d) \cap ObjectsOf(e) # {}
        BY <2>3
      <3> QED BY <2>3, <3>2, <3>3 DEF CarriedTo, OutOfStep, Hinting
    <2> QED BY <2>1, <2>2, <2>3
  <1>3. ASSUME NEW t \in TestsOf(d), x \in TestVars(t), NEW e \in Definitions, t \in TestsOf(e), Started(rdefs[e])
        PROVE  e \in HintedFor(x) /\ Newest(rdefs[e]).inst = Newest(rdefs[d]).inst
    <2>1. TestsOf(d) \cap TestsOf(e) # {}
      BY <1>3
    <2>2. x \in DirectVariables(e)
      <3>1. CASE x \in Externals(Tests[t].variable)
        <4>1. Tests[t].variable # None
          BY <3>1, VariablesShape
        <4>2. Tests[t].variable = x
          BY <3>1, <4>1, VariablesShape DEF CarriedTo
        <4> QED BY <1>3, <4>1, <4>2, VariablesShape
      <3>2. CASE x \in ObjVars(Tests[t].object)
        <4>1. Tests[t].object \in ObjectsOf(d) /\ Tests[t].object \in ObjectsOf(e)
          BY <1>3, VariablesShape
        <4>2. Objects[Tests[t].object].variable = x /\ x # None
          BY <1>1, <3>2, <4>1
        <4> QED BY <4>1, <4>2, VariablesShape
      <3> QED BY <1>3, <3>1, <3>2 DEF TestVars
    <2>3. e \in HintedFor(x)
      BY <1>3, <2>2 DEF HintedFor, Dependents
    <2> QED BY <2>1, <2>3 DEF CarriedTo, OutOfStep
  <1> QED BY <1>2, <1>3

\* Its objects that rest on the variable are due, the others are as before.
LEMMA CarriedObjectsFresh ==
  ASSUME AgentOK, NEW x, Rehinted(x), NEW d \in Definitions, FreshObjects(d), CarriedTo(d, x)
  PROVE  FreshObjects(d)'
  <1>1. x # None
    BY DEF CarriedTo, DirectVariables
  <1>2. \A o \in Needs(d) : CacheFresh(o)'
    BY <1>1, NeedsShape DEF CacheFresh, Rehinted
  <1>3. ASSUME NEW v \in LocalsOf(d)
        PROVE  \A y \in Externals(v) : values'[y] = values[y]
    <2>1. v \in DirectVariables(d) /\ Local(v) /\ Externals(v) \subseteq Depends(d)
      BY NeedsShape, VariablesShape
    <2>2. x \notin Externals(v)
      BY <2>1 DEF CarriedTo, Local
    <2> QED BY <2>1, <2>2 DEF CarriedTo
  <1>4. \A v \in LocalsOf(d) : MemoFresh(v)'
    <2>1. ASSUME NEW v \in LocalsOf(d), memo[v] # <<>>
          PROVE  memo[v][1].saw \subseteq Pairs(Externals(v))'
      <3>1. memo[v][1].saw \subseteq Pairs(Externals(v))
        BY <2>1 DEF FreshObjects, MemoFresh
      <3> QED BY <1>3, <3>1, SamePairs
    <2> QED BY <2>1 DEF MemoFresh, Rehinted
  <1>5. ASSUME NEW o \in Behind(d) PROVE ObjectFresh(o)'
    <2>1. PICK v \in LocalsOf(d) : ObjVars(o) = Externals(v)
      BY NeedsShape
    <2>2. o \in DOMAIN Objects
      BY NeedsShape DEF Needs
    <2>3. ObjectFresh(o) /\ \A y \in ObjVars(o) : values'[y] = values[y]
      BY <1>3, <2>1 DEF FreshObjects
    <2> QED BY <2>2, <2>3, RehintedObjectFresh
  <1>6. ASSUME NEW o \in ObjectsOf(d) PROVE ObjectFresh(o)' \/ ObjectDue(o)'
    <2>1. o \in DOMAIN Objects /\ ObjVars(o) \subseteq Depends(d)
      BY VariablesShape
    <2>2. CASE ObjectDue(o)
      BY <2>1, <2>2, RehintedDue
    <2>3. CASE ObjectFresh(o) /\ x \notin ObjVars(o)
      <3>1. \A y \in ObjVars(o) : values'[y] = values[y]
        BY <2>1, <2>3 DEF CarriedTo
      <3> QED BY <2>1, <2>3, <3>1, RehintedObjectFresh
    <2>4. CASE ~Started(syschars[o])
      BY <2>1, <2>4 DEF ObjectFresh, Rehinted, ObjectsHinted
    <2>5. CASE x \in ObjVars(o) /\ Started(syschars[o])
      <3>1. /\ d \in Hinting(x, o) /\ Newest(syschars[o]).inst <= Newest(rdefs[d]).inst
            /\ \A e \in Definitions : o \in ObjectsOf(e) /\ Started(rdefs[e]) =>
                 e \in Hinting(x, o) /\ Newest(rdefs[e]).inst = Newest(rdefs[d]).inst
        BY <2>5, CarriedParts
      <3>2. /\ Started(syschars'[o]) /\ Newest(syschars'[o]).inst = Newest(syschars[o]).inst
            /\ Newest(syschars[o]).inst \in Nat
        BY <2>1, <2>5 DEF Rehinted, ObjectsHinted
      <3>3. PICK e \in Hinting(x, o) : Newest(syschars'[o]).hint = Newest(rdefs[e]).inst + 1
        BY <2>1, <2>5, <3>1 DEF Rehinted, ObjectsHinted
      <3>4. e \in Definitions /\ Started(rdefs[e]) /\ o \in ObjectsOf(e)
        BY DEF Hinting, HintedFor, Dependents
      <3>5. Newest(rdefs[e]).inst = Newest(rdefs[d]).inst /\ Newest(rdefs[e]).inst \in Nat
        BY <3>1, <3>4 DEF Rehinted, DefinitionsHinted
      <3>6. Hinted(syschars'[o])
        BY <3>1, <3>2, <3>3, <3>5 DEF Hinted
      <3>7. \A g \in Definitions : o \in ObjectsOf(g) /\ Started(rdefs'[g]) =>
              Newest(rdefs'[g]).inst >= Newest(syschars'[o]).inst
        <4>1. ASSUME NEW g \in Definitions, o \in ObjectsOf(g), Started(rdefs'[g])
              PROVE  Newest(rdefs'[g]).inst >= Newest(syschars'[o]).inst
          <5>1. Started(rdefs[g]) /\ Newest(rdefs'[g]).inst = Newest(rdefs[g]).inst
            BY <4>1 DEF Rehinted, DefinitionsHinted
          <5>2. Newest(rdefs[g]).inst = Newest(rdefs[d]).inst
            BY <3>1, <4>1, <5>1
          <5> QED BY <3>1, <3>2, <3>5, <5>1, <5>2
        <4> QED BY <4>1
      <3> QED BY <3>6, <3>7 DEF ObjectDue
    <2> QED BY <2>2, <2>3, <2>4, <2>5 DEF FreshObjects
  <1> QED BY <1>2, <1>4, <1>5, <1>6 DEF FreshObjects

\* It gets another result, and with it a result of every test that rests on
\* the variable; what it extends either does too or does not depend on it.
LEMMA CarriedResultsFresh ==
  ASSUME AgentOK, NEW x, Rehinted(x), NEW d \in Definitions, FreshResults(d), CarriedTo(d, x)
  PROVE  FreshResults(d)'
  <1>1. ASSUME NEW f \in Family(d) PROVE FreshDefinition(f)'
    <2>1. f \in Definitions /\ DirectVariables(f) \subseteq DirectVariables(d) /\ Depends(f) \subseteq Depends(d)
      BY FamilyShape
    <2>2. CASE f \in HintedFor(x)
      <3>1. Hinted(rdefs'[f])
        BY <2>1, <2>2 DEF Rehinted, DefinitionsHinted
      <3> QED BY <3>1 DEF FreshDefinition
    <2>3. CASE ~Started(rdefs'[f])
      BY <2>3 DEF FreshDefinition
    <2>4. CASE f \notin HintedFor(x) /\ Started(rdefs'[f])
      <3>1. x \notin DirectVariables(f)
        BY <2>1, <2>4 DEF HintedFor, Dependents, Rehinted, DefinitionsHinted
      <3>2. x \notin Depends(f)
        <4>1. ASSUME NEW w \in DirectVariables(f), x \in Externals(w) PROVE FALSE
          BY <2>1, <3>1, <4>1 DEF CarriedTo
        <4> QED BY <4>1 DEF Depends
      <3>3. \A v \in Depends(f) : values'[v] = values[v]
        BY <2>1, <3>2 DEF CarriedTo
      <3> QED BY <2>1, <3>3, RehintedDefinitionFresh DEF FreshResults
    <2> QED BY <2>2, <2>3, <2>4
  <1>2. ASSUME NEW f \in Family(d), NEW t \in DirectTests(f), Started(rtests'[t])
        PROVE  TestFresh(t, Len(rtests[t]))' \/ TestDue(f, t)'
    <2>1. /\ f \in Definitions /\ t \in TestsOf(d) /\ t \in TestsOf(f) /\ t \in DOMAIN Tests
          /\ TestVars(t) \subseteq Depends(d) /\ Started(rtests[t])
      BY <1>2, FamilyShape, VariablesShape DEF Rehinted
    <2>2. TestFresh(t, Len(rtests[t])) \/ TestDue(f, t)
      BY <2>1 DEF FreshResults, FreshTest
    <2>3. CASE TestDue(f, t)
      BY <2>1, <2>3, RehintedDue
    <2>4. CASE TestFresh(t, Len(rtests[t])) /\ x \notin TestVars(t)
      <3>1. \A v \in TestVars(t) : values'[v] = values[v]
        BY <2>1, <2>4 DEF CarriedTo
      <3>2. PICK i : i = Len(rtests[t])
        OBVIOUS
      <3>3. TestFresh(t, i)'
        BY <2>1, <2>4, <3>1, <3>2, RehintedTestFresh
      <3> QED BY <3>2, <3>3 DEF Rehinted, TestFresh
    <2>5. CASE x \in TestVars(t)
      <3>1. \A e \in Definitions : t \in TestsOf(e) /\ Started(rdefs[e]) =>
              e \in HintedFor(x) /\ Newest(rdefs[e]).inst = Newest(rdefs[d]).inst
        BY <2>1, <2>5, CarriedParts
      <3>2. PICK g \in Definitions : /\ t \in DirectTests(g) /\ Started(rdefs[g])
                                     /\ Newest(rtests[t]).inst <= Newest(rdefs[g]).inst
        BY <2>1 DEF AgentOK, Numbers
      <3>3. Newest(rdefs[g]).inst = Newest(rdefs[d]).inst
        BY <3>1, <3>2, FamilyShape, OwnFamily
      <3>4. Started(rdefs[f])
        <4>1. Started(rdefs[d])
          BY DEF CarriedTo, HintedFor
        <4> QED BY <4>1 DEF Family, AgentOK, References_
      <3>5. f \in HintedFor(x) /\ Newest(rdefs[f]).inst = Newest(rdefs[d]).inst
        BY <2>1, <3>1, <3>4
      <3>6. /\ Hinted(rdefs'[f]) /\ Started(rdefs'[f])
            /\ Newest(rdefs'[f]).hint = Newest(rdefs[f]).inst + 1
            /\ Newest(rdefs[f]).inst \in Nat
        BY <2>1, <3>4, <3>5 DEF Rehinted, DefinitionsHinted
      <3>7. Newest(rtests[t]).inst \in Nat
        <4>1. Len(rtests[t]) \in DOMAIN rtests[t] /\ IsTest(rtests[t][Len(rtests[t])])
          BY <2>1, SeqShape DEF AgentOK, Shapes
        <4> QED BY <4>1 DEF IsTest, Newest
      <3>8. Newest(rdefs'[f]).hint > Newest(rtests'[t]).inst
        BY <3>2, <3>3, <3>5, <3>6, <3>7 DEF Rehinted
      <3> QED BY <3>6, <3>8 DEF TestDue
    <2> QED BY <2>2, <2>3, <2>4, <2>5
  <1>3. \A f \in Family(d) : \A t \in DirectTests(f) : FreshTest(f, t)'
    BY <1>2 DEF FreshTest, TestFresh, Rehinted
  <1> QED BY <1>1, <1>3 DEF FreshResults

\* New values leave every definition fresh that they do not expose.
LEMMA ResolvedFresh ==
  ASSUME AgentOK, Fresh, NEW bindings, oval_agent_resolve_variables(bindings), UNCHANGED <<memo, rtests>>
  PROVE  Fresh'
  <1>1. PICK x : /\ Rehinted(x)
                 /\ \A d \in Definitions \ exposed' :
                      /\ d \notin exposed
                      /\ HasEvidence(d) => \A v \in Depends(d) : values'[v] # values[v] => Carried(d, x, v)
    BY ResolvedShape
  <1>2. ASSUME NEW d \in Definitions \ exposed'
        PROVE  FreshObjects(d)' /\ FreshResults(d)'
    <2>1. FreshObjects(d) /\ FreshResults(d)
      BY <1>1 DEF Fresh
    <2>2. CASE ~HasEvidence(d)
      BY <1>1, <2>2, NoEvidenceFresh
    <2>3. CASE \A v \in Depends(d) : values'[v] = values[v]
      BY <1>1, <2>1, <2>3, SameValuesFresh
    <2>4. CASE HasEvidence(d) /\ \E v \in Depends(d) : values'[v] # values[v]
      <3>1. CarriedTo(d, x)
        BY <1>1, <2>4, CarriedShape
      <3> QED BY <1>1, <2>1, <3>1, CarriedObjectsFresh, CarriedResultsFresh
    <2> QED BY <2>2, <2>3, <2>4
  <1> QED BY <1>2 DEF Fresh

-----------------------------------------------------------------------------
(* Every step keeps it, and a verdict follows.                             *)

\* Every step of the session keeps what is fresh,
LEMMA AgentStepFresh ==
  ASSUME AgentOK, Fresh, AgentStep
  PROVE  Fresh'
  <1>1. CASE QueryCriteria
    BY <1>1, LookingFresh DEF QueryCriteria
  <1>2. CASE QueryTest
    BY <1>2, LookingFresh DEF QueryTest
  <1>3. CASE QueryObject \/ QueryMember
    BY <1>3, QueriedFresh
  <1>4. CASE QueryVariable
    BY <1>4, LookingFresh DEF QueryVariable
  <1>5. CASE ComputeVariable
    BY <1>5, ComputeVariableFresh
  <1>6. CASE CollectSet
    BY <1>6, LookingFresh DEF CollectSet
  <1>7. CASE Collect \/ CacheMember
    BY <1>7, CollectFresh
  <1>8. CASE NothingToSend
    BY <1>8, NothingToSendFresh
  <1>9. CASE CollectFails
    BY <1>9, CollectFailsFresh
  <1>10. CASE EvalDefinition
    BY <1>10, EvalDefinitionFresh
  <1>11. CASE GetResult
    BY <1>11, LookingFresh DEF GetResult
  <1> QED BY <1>1, <1>2, <1>3, <1>4, <1>5, <1>6, <1>7, <1>8, <1>9, <1>10, <1>11 DEF AgentStep

\* and so does every question that is put to it.
LEMMA EvalRuleFresh ==
  ASSUME AgentOK, Fresh, NEW name, NEW bindings, oval_agent_eval_rule(name, bindings)
  PROVE  Fresh'
  <1>1. oval_agent_resolve_variables(bindings) /\ UNCHANGED <<memo, rtests>>
    BY DEF oval_agent_eval_rule
  <1> QED BY <1>1, ResolvedFresh

\* A new session has seen nothing.
LEMMA AgentInitFresh ==
  ASSUME AgentInit
  PROVE  Fresh
  <1>1. ASSUME NEW d \in Definitions PROVE FreshObjects(d)
    <2>1. \A v \in LocalsOf(d) : memo[v] = <<>>
      BY NeedsShape DEF AgentInit
    <2>2. \A o \in Needs(d) : syschars[o] = <<>> /\ rcache[o] = None
      BY NeedsShape DEF AgentInit, NothingCached
    <2> QED BY <2>1, <2>2 DEF FreshObjects, MemoFresh, ObjectFresh, CacheFresh, Started, Needs
  <1>2. ASSUME NEW d \in Definitions PROVE FreshResults(d)
    <2>1. \A f \in Family(d) : f \in Definitions /\ DirectTests(f) \subseteq DOMAIN Tests
      BY FamilyShape
    <2>2. \A f \in Family(d) : ~Started(rdefs[f]) /\ \A t \in DirectTests(f) : ~Started(rtests[t])
      BY <2>1 DEF AgentInit, Started
    <2> QED BY <2>2 DEF FreshResults, FreshDefinition, FreshTest
  <1> QED BY <1>1, <1>2 DEF Fresh

\* A definition that has just been evaluated has a newest result whose tests
\* are fresh.
LEMMA FreshMeansFreshVerdicts ==
  ASSUME AgentOK, Fresh
  PROVE  FreshVerdicts
  <1> SUFFICES ASSUME call.pc = "evaluated", NEW s, s = Subject, s \notin exposed
               PROVE  SawByDefinition(s) \subseteq Current(s)
    BY DEF FreshVerdicts
  <1>1. s \in Definitions
    <2>1. call.defs \in Seq(Definitions) /\ call.defs # <<>>
      BY DEF AgentOK, CallOK
    <2>2. PICK defs : defs = call.defs
      OBVIOUS
    <2>3. defs \in Seq(Definitions) /\ defs # <<>> /\ s = defs[1]
      BY <2>1, <2>2 DEF Subject
    <2> QED BY <2>3
  <1>2. Started(rdefs[s]) /\ ~Hinted(rdefs[s])
    BY DEF AgentOK, Evaluated
  <1>3. PICK rd : rd = Newest(rdefs[s])
    OBVIOUS
  <1>4. FreshRefs(s, rd.refs) /\ FreshExtended(s, rd.refs)
    BY <1>1, <1>2, <1>3, OwnFamily DEF Fresh, FreshResults, FreshDefinition
  <1>5. RefsOK(s, rd.refs)
    <2>1. Len(rdefs[s]) \in DOMAIN rdefs[s]
      BY <1>1, <1>2, SeqShape DEF AgentOK, Shapes
    <2> QED BY <1>1, <1>3, <2>1 DEF AgentOK, References_, Newest
  <1>6. Current(s) = Pairs(Depends(s))
    BY DEF Current, Pairs
  <1>7. ASSUME NEW f \in Family(s), NEW t \in DirectTests(f), NEW i, TestFresh(t, i)
        PROVE  rtests[t][i].saw \subseteq Current(s)
    <2>1. t \in TestsOf(s)
      BY <1>1, FamilyShape
    <2>2. TestVars(t) \subseteq Depends(s)
      BY <1>1, <2>1, VariablesShape
    <2> QED BY <1>6, <1>7, <2>2 DEF TestFresh, Pairs
  <1>8. ASSUME NEW k \in DOMAIN rd.refs, Nodes(s)[k].kind = "test"
        PROVE  rtests[Nodes(s)[k].ref][rd.refs[k]].saw \subseteq Current(s)
    <2>1. Nodes(s)[k].ref \in DirectTests(s)
      BY <1>1, <1>5, <1>8, NodesShape DEF RefsOK
    <2>2. TestFresh(Nodes(s)[k].ref, rd.refs[k])
      BY <1>4, <1>8 DEF FreshRefs
    <2> QED BY <1>1, <1>7, <2>1, <2>2, OwnFamily
  <1>9. ASSUME NEW k \in DOMAIN rd.refs, Nodes(s)[k].kind # "test",
               NEW q \in References(rdefs[Nodes(s)[k].ref][rd.refs[k]], Nodes(s)[k].ref)
        PROVE  rtests[q[1].ref][q[2]].saw \subseteq Current(s)
    <2>1. PICK e : e = Nodes(s)[k].ref
      OBVIOUS
    <2>2. /\ Nodes(s)[k].kind = "extend" /\ e \in ExtendedBy(s) /\ e \in Definitions
          /\ \A m \in DOMAIN Nodes(e) : Nodes(e)[m].kind = "test"
      <3>1. k \in DOMAIN Nodes(s)
        BY <1>5 DEF RefsOK
      <3>2. /\ Nodes(s)[k].kind = "extend" /\ Nodes(s)[k].ref \in ExtendedBy(s)
            /\ Nodes(s)[k].ref \in Definitions
        BY <1>1, <1>9, <3>1, NodesShape
      <3>3. e \in Definitions /\ ExtendedBy(e) = {}
        BY <1>1, <2>1, <3>2, TestsShape
      <3>4. \A m \in DOMAIN Nodes(e) : Nodes(e)[m].kind = "test"
        BY <3>3, NodesShape
      <3> QED BY <2>1, <3>2, <3>4
    <2>3. PICK own : own = rdefs[e][rd.refs[k]].refs
      OBVIOUS
    <2>4. FreshRefs(e, own)
      BY <1>4, <2>1, <2>2, <2>3 DEF FreshExtended
    <2>5. RefsOK(e, own)
      <3>1. rd.refs[k] \in DOMAIN rdefs[e]
        BY <1>5, <1>9, <2>1 DEF RefsOK
      <3> QED BY <2>2, <2>3, <3>1 DEF AgentOK, References_
    <2>6. PICK j \in DOMAIN own : q = <<Nodes(e)[j], own[j]>>
      BY <2>1, <2>3 DEF References
    <2>7. Nodes(e)[j].kind = "test" /\ Nodes(e)[j].ref \in DirectTests(e)
      BY <2>2, <2>5, NodesShape DEF RefsOK
    <2>8. TestFresh(Nodes(e)[j].ref, own[j])
      BY <2>4, <2>7 DEF FreshRefs
    <2>9. e \in Family(s)
      BY <1>1, <2>2, OwnFamily
    <2> QED BY <1>7, <2>6, <2>7, <2>8, <2>9
  <1>10. ASSUME NEW r \in References(rd, s)
         PROVE  (IF r[1].kind = "test" THEN rtests[r[1].ref][r[2]].saw
                 ELSE UNION {rtests[q[1].ref][q[2]].saw :
                               q \in References(rdefs[r[1].ref][r[2]], r[1].ref)}) \subseteq Current(s)
    <2>1. PICK k \in DOMAIN rd.refs : r = <<Nodes(s)[k], rd.refs[k]>>
      BY DEF References
    <2>2. CASE Nodes(s)[k].kind = "test"
      BY <1>8, <2>1, <2>2
    <2>3. CASE Nodes(s)[k].kind # "test"
      BY <1>9, <2>1, <2>3
    <2> QED BY <2>2, <2>3
  <1> QED BY <1>3, <1>10 DEF SawByDefinition
=============================================================================
