-------------------------- MODULE OvalAgentProofs --------------------------
(***************************************************************************)
(* A session is in order: AgentOK, that every step of OvalAgent keeps it,  *)
(* and that no step changes what a test has been evaluated from.           *)
(*                                                                         *)
(* AgentOK says of the results that they refer to results that exist       *)
(* (References_), that a test is never ahead of all definitions made of it *)
(* (Numbers) and that an evaluated test points to an instance of its       *)
(* object, and is an error when that could not be collected (Evidence).    *)
(* It says of a query that the nodes still to do write to instances that   *)
(* wait for it, come after what they need, and, with what has been tried   *)
(* already, make up the whole definition (QueryOK).                        *)
(***************************************************************************)
EXTENDS OvalAgent, WellFoundedInduction, TLAPS

-----------------------------------------------------------------------------
(* What the sequences and records of a session are.                        *)

IsSeq(s) == Len(s) \in Nat /\ s = [i \in 1 .. Len(s) |-> s[i]]
IsInstance(r) ==
  /\ r = [inst |-> r.inst, hint |-> r.hint, flag |-> r.flag, saw |-> r.saw]
  /\ r.inst \in Nat /\ r.hint \in Nat
IsDefinition(r) ==
  /\ r = [inst |-> r.inst, hint |-> r.hint, result |-> r.result, refs |-> r.refs]
  /\ r.inst \in Nat /\ r.hint \in {r.inst, r.inst + 1} /\ r.result \in Result /\ IsSeq(r.refs) /\ Range(r.refs) \subseteq Nat
IsTest(r) ==
  /\ r = [inst |-> r.inst, result |-> r.result, saw |-> r.saw, syschar |-> r.syschar]
  /\ r.inst \in Nat /\ r.syschar \in Nat

Shapes ==
  /\ memo = [v \in DOMAIN Locals |-> memo[v]]
  /\ rcache = [o \in DOMAIN Objects |-> rcache[o]]
  /\ syschars = [o \in DOMAIN Objects |-> syschars[o]]
  /\ rdefs = [d \in Definitions |-> rdefs[d]]
  /\ rtests = [t \in DOMAIN Tests |-> rtests[t]]
  /\ \A o \in DOMAIN Objects :
       IsSeq(syschars[o]) /\ \A i \in DOMAIN syschars[o] : IsInstance(syschars[o][i])
  /\ \A d \in Definitions :
       IsSeq(rdefs[d]) /\ \A i \in DOMAIN rdefs[d] : IsDefinition(rdefs[d][i])
  /\ \A t \in DOMAIN Tests :
       IsSeq(rtests[t]) /\ \A i \in DOMAIN rtests[t] : IsTest(rtests[t][i])

DirectTests(d) == {n.ref : n \in {m \in Range(Nodes(d)) : m.kind = "test"}}
ExtendedBy(d) == {n.ref : n \in {m \in Range(Nodes(d)) : m.kind = "extend"}}

\* The references of an instance of definition d.
RefsOK(d, refs) ==
  /\ DOMAIN refs = DOMAIN Nodes(d)
  /\ \A k \in DOMAIN refs :
       refs[k] \in IF Nodes(d)[k].kind = "test" THEN DOMAIN rtests[Nodes(d)[k].ref]
                   ELSE DOMAIN rdefs[Nodes(d)[k].ref]

References_ ==
  \A d \in Definitions :
    /\ \A i \in DOMAIN rdefs[d] : RefsOK(d, rdefs[d][i].refs)
    /\ Started(rdefs[d]) => \A e \in ExtendedBy(d) : Started(rdefs[e])

\* A test has results for the instances of definitions made of it.
Numbers ==
  \A t \in DOMAIN Tests : Started(rtests[t]) =>
    \E d \in Definitions : /\ t \in DirectTests(d) /\ Started(rdefs[d])
                           /\ Newest(rtests[t]).inst <= Newest(rdefs[d]).inst

\* What has been evaluated points to an instance of the object, and is an error
\* when that has not been collected.
Evidence ==
  \A t \in DOMAIN Tests : \A i \in DOMAIN rtests[t] :
    rtests[t][i].result # "noteval" =>
      LET object == syschars[Tests[t].object]
      IN /\ rtests[t][i].syschar \in DOMAIN object
         /\ object[rtests[t][i].syschar].flag = "unknown" => rtests[t][i].result = "error"

Cached ==
  \A o \in DOMAIN Objects :
    rcache[o] # None => rcache[o].flag # "unknown" /\ Started(syschars[o])

-----------------------------------------------------------------------------
(* The query of a definition.                                              *)

Local(v) == v \in DOMAIN Locals /\ v \notin External
Plain(o) == o \in DOMAIN Objects /\ Objects[o].members = <<>>
IsNode(n) ==
  \/ n.kind = "extend" /\ n.ref \in Definitions
  \/ n.kind = "test" /\ n.ref \in DOMAIN Tests
  \/ n.kind \in {"object", "collect"} /\ n.ref \in DOMAIN Objects
  \/ n.kind \in {"member", "cache"} /\ Plain(n.ref)
  \/ n.kind = "combine" /\ n.ref \in DOMAIN Objects /\ ~Plain(n.ref)
  \/ n.kind = "variable" /\ n.ref \in Variables
  \/ n.kind = "compute" /\ Local(n.ref)
TodoNodes ==
  {n \in [kind : {"extend", "test", "object", "collect", "member", "cache", "combine",
                  "variable", "compute"},
          ref : Definitions \cup DOMAIN Tests \cup DOMAIN Objects \cup Variables] : IsNode(n)}

\* The nodes that write what was found to an instance.
Writes(n) == n.kind \in {"collect", "cache", "combine"}
VariableOf(n) == Objects[n.ref].variable
BehindObject(v, o) == Local(v) /\ Locals[v].kind = "object" /\ Locals[v].ref = o

\* What may come before what: an object is asked for its variable, a local
\* variable for an object without one, a set for its members.
MayPrecede(a, b) ==
  /\ Writes(b) => a.kind \in {"variable", "compute", "object", "member", "collect", "cache"}
  /\ b.kind \in {"collect", "cache"} =>
       CASE a.kind = "variable" ->
              \/ a.ref = VariableOf(b)
              \/ Local(VariableOf(b)) /\ a.ref \in External
         [] a.kind = "compute" -> a.ref = VariableOf(b)
         [] a.kind \in {"object", "collect"} -> BehindObject(VariableOf(b), a.ref)
         [] OTHER -> FALSE
  /\ b.kind = "combine" => a.kind \in {"variable", "compute"} \/ Plain(a.ref)
  /\ b.kind = "compute" =>
       \/ a.kind = "variable" /\ a.ref \in External
       \/ a.kind \in {"object", "collect"} /\ BehindObject(b.ref, a.ref)

Computed(v) == v = None \/ v \in External \/ memo[v] # <<>>
\* An object has been asked for, with success or without.
Ready(o) == Started(syschars[o]) /\ ~Hinted(syschars[o])

\* The work a node does for an object or a variable.
ForObject(n, o) ==
  \/ n.kind = "extend" /\ o \in ObjectsOf(n.ref)
  \/ n.kind = "test" /\ Tests[n.ref].object = o
  \/ n.kind \in {"object", "collect", "combine"} /\ n.ref = o
ForVariable(n, v) ==
  \/ n.kind = "extend" /\ \E t \in TestsOf(n.ref) : Tests[t].variable = v
  \/ n.kind = "test" /\ Tests[n.ref].variable = v
  \/ n.kind \in {"variable", "compute"} /\ n.ref = v

\* Not for the sake of a local variable, where a failure is no end.
Final(todo, i) == \A j \in DOMAIN todo : j > i => todo[j].kind # "compute"

\* The instance a node writes to waits for it.
Awaits(n) ==
  /\ Started(syschars[n.ref]) /\ ~Hinted(syschars[n.ref])
  /\ Newest(syschars[n.ref]).flag = "unknown"

Ordered(todo) == \A i, j \in DOMAIN todo : i < j => MayPrecede(todo[i], todo[j])
WritesOK(todo) ==
  \A i \in DOMAIN todo : Writes(todo[i]) =>
    /\ Awaits(todo[i])
    /\ \/ Computed(VariableOf(todo[i]))
       \/ \E j \in 1 .. i - 1 : ForVariable(todo[j], VariableOf(todo[i]))
ComputesOK(todo) ==
  \A i \in DOMAIN todo : todo[i].kind = "compute" /\ Locals[todo[i].ref].kind = "object" =>
    \/ Ready(Locals[todo[i].ref].ref)
    \/ \E j \in 1 .. i - 1 : ForObject(todo[j], Locals[todo[i].ref].ref)
Covered(d, todo) ==
  \A t \in TestsOf(d) :
    /\ \/ Ready(Tests[t].object)
       \/ \E i \in DOMAIN todo : Final(todo, i) /\ ForObject(todo[i], Tests[t].object)
    /\ \/ Computed(Tests[t].variable)
       \/ \E i \in DOMAIN todo : Final(todo, i) /\ ForVariable(todo[i], Tests[t].variable)

QueryOK ==
  /\ Ordered(call.todo) /\ WritesOK(call.todo) /\ ComputesOK(call.todo)
  /\ call.pc = "probing" => Covered(Subject, call.todo)

CallOK ==
  /\ call = [pc |-> call.pc, defs |-> call.defs, todo |-> call.todo, file |-> call.file,
             acc |-> call.acc, result |-> call.result]
  /\ call.defs \in Seq(Definitions) /\ call.todo \in Seq(TodoNodes)
  /\ call.pc \in {"probing", "evaluated"} => call.defs # <<>>
  /\ call.pc # "probing" => call.todo = <<>>

-----------------------------------------------------------------------------
(* A definition and what it extends; the external variables of parts.      *)

Family(d) == {d} \cup ExtendedBy(d)
ObjVars(o) == Externals(Objects[o].variable) \cup UNION {Externals(v) : v \in MemberVariables(o)}
TestVars(t) == Externals(Tests[t].variable) \cup ObjVars(Tests[t].object)

\* A definition is evaluated when its newest instance counts.
Evaluated ==
  call.pc = "evaluated" => Started(rdefs[Subject]) /\ ~Hinted(rdefs[Subject])

-----------------------------------------------------------------------------
(* Sequences.                                                              *)

\* The shape of a sequence.
LEMMA SeqShape ==
  ASSUME NEW s, IsSeq(s)
  PROVE  /\ Len(s) \in Nat /\ DOMAIN s = 1 .. Len(s)
         /\ s \in Seq(Range(s))
         /\ Started(s) <=> Len(s) \in DOMAIN s
         /\ ~Started(s) <=> Len(s) = 0
  <1>1. DOMAIN s = 1 .. Len(s) /\ Len(s) \in Nat
    BY DEF IsSeq
  <1>2. s \in Seq(Range(s))
    BY <1>1 DEF IsSeq, Range
  <1>3. (s = <<>>) <=> Len(s) = 0
    BY <1>2
  <1> QED BY <1>1, <1>2, <1>3 DEF Started

\* A function over 1 .. n is a sequence.
LEMMA SeqOfLength ==
  ASSUME NEW s, NEW n \in Nat, s = [i \in 1 .. n |-> s[i]]
  PROVE  IsSeq(s) /\ Len(s) = n
  <1>1. s \in Seq(Range(s))
    BY DEF Range
  <1>2. Len(s) = n
    BY <1>1
  <1> QED BY <1>2 DEF IsSeq

\* Sequences in the sense of the library are sequences here.
LEMMA SeqIsSeq ==
  ASSUME NEW S, NEW s \in Seq(S)
  PROVE  IsSeq(s)
  BY DEF IsSeq

\* What an element of a sequence is.
LEMMA SeqElement ==
  ASSUME NEW S, NEW s \in Seq(S), NEW i \in DOMAIN s
  PROVE  s[i] \in S
  OBVIOUS

\* What an element more changes.
LEMMA Appended ==
  ASSUME NEW s, NEW e, IsSeq(s)
  PROVE  /\ IsSeq(Append(s, e)) /\ Len(Append(s, e)) = Len(s) + 1
         /\ DOMAIN Append(s, e) = DOMAIN s \cup {Len(s) + 1}
         /\ \A i \in DOMAIN s : Append(s, e)[i] = s[i]
         /\ Append(s, e)[Len(s) + 1] = e /\ Newest(Append(s, e)) = e
         /\ Started(Append(s, e))
  <1>1. s \in Seq(Range(s) \cup {e}) /\ Len(s) \in Nat /\ DOMAIN s = 1 .. Len(s)
    BY SeqShape DEF IsSeq, Range
  <1>2. /\ Append(s, e) \in Seq(Range(s) \cup {e}) /\ Len(Append(s, e)) = Len(s) + 1
        /\ \A i \in 1 .. Len(s) : Append(s, e)[i] = s[i]
        /\ Append(s, e)[Len(s) + 1] = e
    BY <1>1
  <1>4. IsSeq(Append(s, e))
    BY <1>2, SeqIsSeq
  <1> QED BY <1>1, <1>2, <1>4, SeqShape DEF Newest, Started

\* A function over the domain of a sequence.
LEMMA SameLength ==
  ASSUME NEW s, NEW r, IsSeq(s), r = [i \in DOMAIN s |-> r[i]]
  PROVE  IsSeq(r) /\ Len(r) = Len(s)
  BY SeqShape, SeqOfLength

-----------------------------------------------------------------------------
(* Hints.                                                                  *)

Instances(s) == IsSeq(s) /\ \A i \in DOMAIN s : IsInstance(s[i])
DefinitionResults(s) == IsSeq(s) /\ \A i \in DOMAIN s : IsDefinition(s[i])

\* A hint changes the hint of the newest instance.
LEMMA HintInstances ==
  ASSUME NEW s, NEW n \in Nat, Instances(s)
  PROVE  /\ Instances(Hint(s, n)) /\ Len(Hint(s, n)) = Len(s) /\ DOMAIN Hint(s, n) = DOMAIN s
         /\ \A i \in DOMAIN s : /\ Hint(s, n)[i].inst = s[i].inst
                                /\ Hint(s, n)[i].flag = s[i].flag
                                /\ Hint(s, n)[i].saw = s[i].saw
         /\ Started(s) => Newest(Hint(s, n)).hint = n
         /\ ~Started(s) => Hint(s, n) = s
  <1>1. CASE ~Started(s)
    BY <1>1 DEF Hint, Instances
  <1>2. CASE Started(s)
    <2> DEFINE r == [s EXCEPT ![Len(s)].hint = n]
    <2>1. Hint(s, n) = r /\ Len(s) \in DOMAIN s
      BY <1>2, SeqShape DEF Hint, Instances
    <2>2. IsSeq(r) /\ Len(r) = Len(s) /\ DOMAIN r = DOMAIN s
      <3>1. r = [i \in DOMAIN s |-> r[i]]
        BY DEF Instances, IsSeq
      <3> QED BY <3>1, SameLength DEF Instances
    <2>3. ASSUME NEW i \in DOMAIN s
          PROVE  /\ IsInstance(r[i]) /\ r[i].inst = s[i].inst /\ r[i].flag = s[i].flag
                 /\ r[i].saw = s[i].saw /\ (i = Len(s) => r[i].hint = n)
      <3>1. IsInstance(s[i])
        BY DEF Instances
      <3>2. r[i] = IF i = Len(s) THEN [s[i] EXCEPT !.hint = n] ELSE s[i]
        OBVIOUS
      <3>3. [s[i] EXCEPT !.hint = n]
              = [inst |-> s[i].inst, hint |-> n, flag |-> s[i].flag, saw |-> s[i].saw]
        BY <3>1 DEF IsInstance
      <3> QED BY <3>1, <3>2, <3>3 DEF IsInstance
    <2> QED BY <1>2, <2>1, <2>2, <2>3 DEF Instances, Newest
  <1> QED BY <1>1, <1>2

\* A hint leaves the results of a definition as they are, but for the
\* number the next one gets.
LEMMA HintResults ==
  ASSUME NEW s, NEW n \in Nat, DefinitionResults(s), Started(s) => n = Newest(s).inst + 1
  PROVE  /\ DefinitionResults(Hint(s, n)) /\ Len(Hint(s, n)) = Len(s)
         /\ DOMAIN Hint(s, n) = DOMAIN s
         /\ \A i \in DOMAIN s : /\ Hint(s, n)[i].inst = s[i].inst
                                /\ Hint(s, n)[i].refs = s[i].refs
         /\ Started(s) => Newest(Hint(s, n)).hint = n /\ Hinted(Hint(s, n))
         /\ ~Started(s) => Hint(s, n) = s
  <1>1. CASE ~Started(s)
    BY <1>1 DEF Hint, DefinitionResults
  <1>2. CASE Started(s)
    <2> DEFINE r == [s EXCEPT ![Len(s)].hint = n]
    <2>1. Hint(s, n) = r /\ Len(s) \in DOMAIN s
      BY <1>2, SeqShape DEF Hint, DefinitionResults
    <2>2. IsSeq(r) /\ Len(r) = Len(s) /\ DOMAIN r = DOMAIN s
      <3>1. r = [i \in DOMAIN s |-> r[i]]
        BY DEF DefinitionResults, IsSeq
      <3> QED BY <3>1, SameLength DEF DefinitionResults
    <2>3. ASSUME NEW i \in DOMAIN s
          PROVE  /\ IsDefinition(r[i]) /\ r[i].inst = s[i].inst /\ r[i].refs = s[i].refs
                 /\ (i = Len(s) => r[i].hint = n)
      <3>1. IsDefinition(s[i]) /\ (i = Len(s) => n = s[i].inst + 1)
        BY <1>2 DEF DefinitionResults, Newest
      <3>2. r[i] = IF i = Len(s) THEN [s[i] EXCEPT !.hint = n] ELSE s[i]
        OBVIOUS
      <3>3. [s[i] EXCEPT !.hint = n]
              = [inst |-> s[i].inst, hint |-> n, result |-> s[i].result, refs |-> s[i].refs]
        BY <3>1 DEF IsDefinition
      <3> QED BY <3>1, <3>2, <3>3 DEF IsDefinition
    <2> HIDE DEF r
    <2>4. Started(r) /\ Newest(r) = r[Len(s)] /\ Newest(s) = s[Len(s)]
      <3>1. Started(r)
        BY <2>1, <2>2, SeqShape
      <3> QED BY <2>2, <3>1 DEF Newest
    <2>5. Newest(r).hint = n /\ Newest(r).inst = s[Len(s)].inst /\ s[Len(s)].inst \in Nat
      BY <2>1, <2>3, <2>4 DEF IsDefinition, DefinitionResults
    <2>6. Hinted(r)
      BY <1>2, <2>4, <2>5 DEF Hinted
    <2>7. DefinitionResults(r)
      BY <2>2, <2>3 DEF DefinitionResults
    <2> QED BY <1>2, <2>1, <2>2, <2>3, <2>5, <2>6, <2>7
  <1> QED BY <1>1, <1>2

-----------------------------------------------------------------------------
(* The content.                                                            *)

\* The nodes of the criteria of a definition.
LEMMA NodesShape ==
  ASSUME NEW d \in Definitions
  PROVE  /\ IsSeq(Nodes(d)) /\ Len(Nodes(d)) \in Nat /\ DOMAIN Nodes(d) = 1 .. Len(Nodes(d))
         /\ \A k \in DOMAIN Nodes(d) :
              /\ Nodes(d)[k] \in [kind : {"test", "extend"}, ref : Definitions \cup DOMAIN Tests]
              /\ Nodes(d)[k].kind = "test" =>
                   Nodes(d)[k].ref \in DirectTests(d) /\ Nodes(d)[k].ref \in DOMAIN Tests
              /\ Nodes(d)[k].kind # "test" =>
                   /\ Nodes(d)[k].kind = "extend" /\ Nodes(d)[k].ref \in ExtendedBy(d)
                   /\ Nodes(d)[k].ref \in Definitions /\ Nodes(d)[k].ref # d
                   /\ \A m \in DOMAIN Nodes(Nodes(d)[k].ref) :
                        Nodes(Nodes(d)[k].ref)[m].kind = "test"
  <1>1. Nodes(d) \in Seq([kind : {"test", "extend"}, ref : Definitions \cup DOMAIN Tests])
    BY ContentAssumption DEF Nodes
  <1>2. /\ IsSeq(Nodes(d)) /\ Len(Nodes(d)) \in Nat /\ DOMAIN Nodes(d) = 1 .. Len(Nodes(d))
    BY <1>1, SeqIsSeq
  <1>3. ASSUME NEW k \in DOMAIN Nodes(d)
        PROVE  /\ Nodes(d)[k] \in [kind : {"test", "extend"}, ref : Definitions \cup DOMAIN Tests]
               /\ Nodes(d)[k] \in Range(Nodes(d))
    <2>2. Nodes(d)[k] \in [kind : {"test", "extend"}, ref : Definitions \cup DOMAIN Tests]
      BY <1>1, SeqElement
    <2> QED BY <2>2 DEF Range
  <1>4. \A n \in Range(Nodes(d)) :
          \/ n.kind = "test" /\ n.ref \in DOMAIN Tests
          \/ /\ n.kind = "extend" /\ n.ref \in Definitions
             /\ \A m \in Range(Nodes(n.ref)) : m.kind = "test"
    BY ContentAssumption DEF Nodes
  <1>5. ASSUME NEW k \in DOMAIN Nodes(d), Nodes(d)[k].kind = "test"
        PROVE  Nodes(d)[k].ref \in DirectTests(d) /\ Nodes(d)[k].ref \in DOMAIN Tests
    BY <1>3, <1>4, <1>5 DEF DirectTests
  <1>6. ASSUME NEW k \in DOMAIN Nodes(d), Nodes(d)[k].kind # "test"
        PROVE  /\ Nodes(d)[k].kind = "extend" /\ Nodes(d)[k].ref \in ExtendedBy(d)
               /\ Nodes(d)[k].ref \in Definitions
               /\ \A m \in Range(Nodes(Nodes(d)[k].ref)) : m.kind = "test"
    BY <1>3, <1>4, <1>6 DEF ExtendedBy
  <1>7. ASSUME NEW k \in DOMAIN Nodes(d), Nodes(d)[k].kind # "test"
        PROVE  /\ Nodes(d)[k].ref # d
               /\ \A m \in DOMAIN Nodes(Nodes(d)[k].ref) : Nodes(Nodes(d)[k].ref)[m].kind = "test"
    <2>1. Nodes(d)[k].ref # d
      BY <1>3, <1>6, <1>7
    <2> QED BY <1>6, <1>7, <2>1 DEF Range
  <1> QED BY <1>2, <1>3, <1>5, <1>6, <1>7

\* The tests of a definition are its own and those of what it extends.
LEMMA TestsShape ==
  ASSUME NEW d \in Definitions
  PROVE  /\ DirectTests(d) \subseteq DOMAIN Tests
         /\ \A t \in DirectTests(d) : \E k \in DOMAIN Nodes(d) :
              Nodes(d)[k].kind = "test" /\ Nodes(d)[k].ref = t
         /\ \A e \in ExtendedBy(d) :
              /\ e \in Definitions /\ e # d /\ ExtendedBy(e) = {}
              /\ \E k \in DOMAIN Nodes(d) : Nodes(d)[k].kind = "extend" /\ Nodes(d)[k].ref = e
         /\ TestsOf(d) = DirectTests(d) \cup UNION {DirectTests(e) : e \in ExtendedBy(d)}
  <1>1. \A t \in DirectTests(d) : \E k \in DOMAIN Nodes(d) :
          Nodes(d)[k].kind = "test" /\ Nodes(d)[k].ref = t
    BY DEF DirectTests, Range
  <1>2. \A e \in ExtendedBy(d) : \E k \in DOMAIN Nodes(d) :
          Nodes(d)[k].kind = "extend" /\ Nodes(d)[k].ref = e
    BY DEF ExtendedBy, Range
  <1>3. DirectTests(d) \subseteq DOMAIN Tests
    BY <1>1, NodesShape
  <1>4. ASSUME NEW e \in ExtendedBy(d)
        PROVE  /\ e \in Definitions /\ e # d /\ \A n \in Range(Nodes(e)) : n.kind = "test"
    <2>1. PICK k \in DOMAIN Nodes(d) : Nodes(d)[k].kind = "extend" /\ Nodes(d)[k].ref = e
      BY <1>2
    <2>2. e \in Definitions /\ e # d /\ \A m \in DOMAIN Nodes(e) : Nodes(e)[m].kind = "test"
      BY <2>1, NodesShape
    <2> QED BY <2>2 DEF Range
  <1>5. ASSUME NEW e \in ExtendedBy(d)
        PROVE  ExtendedBy(e) = {} /\ {m.ref : m \in Range(Nodes(e))} = DirectTests(e)
    BY <1>4 DEF ExtendedBy, DirectTests
  <1>6. TestsOf(d) = DirectTests(d) \cup UNION {DirectTests(e) : e \in ExtendedBy(d)}
    <2>1. ASSUME NEW t \in TestsOf(d)
          PROVE  t \in DirectTests(d) \cup UNION {DirectTests(e) : e \in ExtendedBy(d)}
      <3>1. PICK n \in Range(Nodes(d)) :
              t \in (IF n.kind = "test" THEN {n.ref} ELSE {m.ref : m \in Range(Nodes(n.ref))})
        BY DEF TestsOf
      <3>2. CASE n.kind = "test"
        BY <3>1, <3>2 DEF DirectTests
      <3>3. CASE n.kind # "test"
        <4>1. n.ref \in ExtendedBy(d)
          BY <3>3, NodesShape DEF ExtendedBy, Range
        <4> QED BY <1>5, <3>1, <3>3, <4>1
      <3> QED BY <3>2, <3>3
    <2>2. ASSUME NEW t \in DirectTests(d)
          PROVE  t \in TestsOf(d)
      BY DEF TestsOf, DirectTests
    <2>3. ASSUME NEW e \in ExtendedBy(d), NEW t \in DirectTests(e)
          PROVE  t \in TestsOf(d)
      <3>1. PICK n \in Range(Nodes(d)) : n.kind = "extend" /\ n.ref = e
        BY DEF ExtendedBy
      <3>2. t \in (IF n.kind = "test" THEN {n.ref} ELSE {m.ref : m \in Range(Nodes(n.ref))})
        BY <1>5, <3>1
      <3> QED BY <3>2 DEF TestsOf
    <2> QED BY <2>1, <2>2, <2>3
  <1> QED BY <1>1, <1>2, <1>3, <1>4, <1>5, <1>6

\* What a definition extends is part of it.
LEMMA FamilyShape ==
  ASSUME NEW d \in Definitions, NEW f \in Family(d)
  PROVE  /\ f \in Definitions
         /\ TestsOf(f) \subseteq TestsOf(d) /\ TestsOf(d) \subseteq DOMAIN Tests
         /\ DirectTests(f) \subseteq TestsOf(f)
         /\ ObjectsOf(f) \subseteq ObjectsOf(d) /\ ObjectsOf(d) \subseteq DOMAIN Objects
         /\ DirectVariables(f) \subseteq DirectVariables(d)
         /\ Depends(f) \subseteq Depends(d)
  <1>1. f \in Definitions /\ (f = d \/ (f \in ExtendedBy(d) /\ ExtendedBy(f) = {}))
    BY TestsShape DEF Family
  <1>2. TestsOf(f) \subseteq TestsOf(d) /\ DirectTests(f) \subseteq TestsOf(f)
    BY <1>1, TestsShape
  <1>3. TestsOf(d) \subseteq DOMAIN Tests
    BY TestsShape
  <1>4. ObjectsOf(f) \subseteq ObjectsOf(d) /\ ObjectsOf(d) \subseteq DOMAIN Objects
    BY <1>2, <1>3, ContentAssumption DEF ObjectsOf
  <1>5. DirectVariables(f) \subseteq DirectVariables(d)
    BY <1>2, <1>4 DEF DirectVariables
  <1>6. Depends(f) \subseteq Depends(d)
    BY <1>5 DEF Depends
  <1> QED BY <1>1, <1>2, <1>3, <1>4, <1>5, <1>6

\* A definition and what it extends are its family.
LEMMA OwnFamily ==
  ASSUME NEW d \in Definitions
  PROVE  d \in Family(d) /\ \A e \in ExtendedBy(d) : e \in Family(d)
  BY DEF Family

\* The external variables behind the parts of a definition.
LEMMA VariablesShape ==
  ASSUME NEW d \in Definitions
  PROVE  /\ \A v : Externals(v) \subseteq External /\ (v \in External => Externals(v) = {v})
         /\ Externals(None) = {}
         /\ \A v \in DirectVariables(d) : Externals(v) \subseteq Depends(d) /\ v \in Variables
         /\ \A o \in ObjectsOf(d) :
              /\ o \in DOMAIN Objects /\ ObjVars(o) \subseteq Depends(d)
              /\ Objects[o].variable # None => Objects[o].variable \in DirectVariables(d)
              /\ \A v \in MemberVariables(o) : v # None => v \in DirectVariables(d)
         /\ \A t \in TestsOf(d) :
              /\ t \in DOMAIN Tests /\ Tests[t].object \in ObjectsOf(d)
              /\ Tests[t].variable # None => Tests[t].variable \in DirectVariables(d)
              /\ TestVars(t) \subseteq Depends(d)
  <1>0. d \in Family(d)
    BY OwnFamily
  <1>1. /\ \A v : Externals(v) \subseteq External /\ (v \in External => Externals(v) = {v})
        /\ Externals(None) = {}
    BY ContentAssumption DEF Externals, Variables
  <1>2. \A t \in TestsOf(d) :
          /\ t \in DOMAIN Tests /\ Tests[t].object \in ObjectsOf(d)
          /\ Tests[t].variable # None => Tests[t].variable \in DirectVariables(d)
    BY <1>0, FamilyShape DEF ObjectsOf, DirectVariables
  <1>3. \A o \in ObjectsOf(d) :
          /\ o \in DOMAIN Objects
          /\ Objects[o].variable # None => Objects[o].variable \in DirectVariables(d)
          /\ \A v \in MemberVariables(o) : v # None => v \in DirectVariables(d)
    BY <1>0, FamilyShape DEF DirectVariables
  <1>4. \A v \in DirectVariables(d) : Externals(v) \subseteq Depends(d)
    BY DEF Depends
  <1>5. \A v \in DirectVariables(d) : v \in Variables
    <2>1. ASSUME NEW o \in ObjectsOf(d), NEW v \in MemberVariables(o) PROVE v \in Variables \cup {None}
      BY <1>3, ContentAssumption DEF MemberVariables
    <2> QED BY <1>2, <1>3, <2>1, ContentAssumption DEF DirectVariables
  <1>6. \A o \in ObjectsOf(d) : ObjVars(o) \subseteq Depends(d)
    <2>1. ASSUME NEW o \in ObjectsOf(d) PROVE Externals(Objects[o].variable) \subseteq Depends(d)
      BY <1>1, <1>3, <1>4
    <2>2. ASSUME NEW o \in ObjectsOf(d), NEW v \in MemberVariables(o) PROVE Externals(v) \subseteq Depends(d)
      BY <1>1, <1>3, <1>4
    <2> QED BY <2>1, <2>2 DEF ObjVars
  <1>7. \A t \in TestsOf(d) : TestVars(t) \subseteq Depends(d)
    <2>1. ASSUME NEW t \in TestsOf(d) PROVE Externals(Tests[t].variable) \subseteq Depends(d)
      BY <1>1, <1>2, <1>4
    <2> QED BY <1>2, <1>6, <2>1 DEF TestVars
  <1> QED BY <1>1, <1>2, <1>3, <1>4, <1>5, <1>6, <1>7

-----------------------------------------------------------------------------
(* One step of a query: the node at the head gives way to others.          *)

Kept == /\ \A o \in DOMAIN Objects : Ready(o) => Ready(o)'
        /\ \A v \in Variables \cup {None} : Computed(v) => Computed(v)'

Step(nodes) ==
  /\ call.pc = "probing" /\ call.todo # <<>>
  /\ nodes \in Seq(TodoNodes) /\ Then(nodes) /\ Kept
  /\ Ordered(nodes)
  /\ \A k \in DOMAIN nodes : \A b \in TodoNodes :
       MayPrecede(Head(call.todo), b) => MayPrecede(nodes[k], b)
  /\ \A b \in TodoNodes :
       MayPrecede(Head(call.todo), b) /\ Writes(b) /\ Awaits(b) => Awaits(b)'
  /\ WritesOK(nodes)' /\ ComputesOK(nodes)'
  /\ \A o \in DOMAIN Objects : ForObject(Head(call.todo), o) =>
       Ready(o)' \/ \E k \in DOMAIN nodes : Final(nodes, k) /\ ForObject(nodes[k], o)
  /\ \A v \in Variables \cup {None} : ForVariable(Head(call.todo), v) =>
       Computed(v)' \/ \E k \in DOMAIN nodes : Final(nodes, k) /\ ForVariable(nodes[k], v)

\* Where the nodes of the sequence come from.
LEMMA Replaced ==
  ASSUME NEW S, NEW old \in Seq(S), old # <<>>, NEW nodes \in Seq(S), NEW new, new = nodes \o Tail(old)
  PROVE  /\ new \in Seq(S) /\ DOMAIN new = 1 .. Len(nodes) + Len(old) - 1
         /\ DOMAIN nodes = 1 .. Len(nodes) /\ DOMAIN old = 1 .. Len(old)
         /\ Len(nodes) \in Nat /\ Len(old) \in Nat /\ Len(old) >= 1 /\ Head(old) = old[1]
         /\ \A k \in DOMAIN nodes : k \in DOMAIN new /\ new[k] = nodes[k]
         /\ \A k \in DOMAIN new : k > Len(nodes) =>
              k - Len(nodes) + 1 \in DOMAIN old /\ new[k] = old[k - Len(nodes) + 1]
         /\ \A j \in DOMAIN old : j > 1 =>
              j + Len(nodes) - 1 \in DOMAIN new /\ new[j + Len(nodes) - 1] = old[j]
         /\ \A k \in DOMAIN new : k <= Len(nodes) => k \in DOMAIN nodes
  <1>1. Len(old) \in Nat /\ Len(nodes) \in Nat /\ Len(old) >= 1
    OBVIOUS
  <1>2. Tail(old) \in Seq(S) /\ Len(Tail(old)) = Len(old) - 1
        /\ \A i \in 1 .. Len(old) - 1 : Tail(old)[i] = old[i + 1]
    OBVIOUS
  <1>3. /\ new \in Seq(S) /\ Len(new) = Len(nodes) + Len(old) - 1
        /\ \A k \in 1 .. Len(nodes) : new[k] = nodes[k]
    BY <1>1, <1>2
  <1>4. \A k \in Len(nodes) + 1 .. Len(nodes) + Len(old) - 1 : new[k] = Tail(old)[k - Len(nodes)]
    BY <1>1, <1>2
  <1>5. \A k \in Len(nodes) + 1 .. Len(nodes) + Len(old) - 1 : new[k] = old[k - Len(nodes) + 1]
    BY <1>1, <1>2, <1>4
  <1>6. DOMAIN new = 1 .. Len(nodes) + Len(old) - 1 /\ DOMAIN nodes = 1 .. Len(nodes) /\ DOMAIN old = 1 .. Len(old)
    BY <1>3
  <1>7. \A k \in DOMAIN new : k > Len(nodes) =>
              k - Len(nodes) + 1 \in DOMAIN old /\ new[k] = old[k - Len(nodes) + 1]
    BY <1>1, <1>5, <1>6
  <1>8. ASSUME NEW j \in DOMAIN old, j > 1
        PROVE  j + Len(nodes) - 1 \in DOMAIN new /\ new[j + Len(nodes) - 1] = old[j]
    BY <1>1, <1>5, <1>6, <1>8
  <1> QED BY <1>1, <1>3, <1>6, <1>7, <1>8

\* What a query still has to do is done in order.
LEMMA StepKeepsQuery ==
  ASSUME NEW nodes, CallOK, QueryOK, Step(nodes)
  PROVE  CallOK' /\ QueryOK' /\ call'.pc = "probing" /\ call'.defs = call.defs
  <1>1. PICK old : old = call.todo
    OBVIOUS
  <1>2. PICK new : new = nodes \o Tail(old)
    OBVIOUS
  <1>3. old \in Seq(TodoNodes) /\ old # <<>> /\ nodes \in Seq(TodoNodes) /\ call.pc = "probing"
    BY <1>1 DEF CallOK, Step
  <1>4. /\ call' = [pc |-> call.pc, defs |-> call.defs, todo |-> new, file |-> call.file,
                    acc |-> call.acc, result |-> call.result]
        /\ call'.todo = new /\ call'.pc = "probing" /\ call'.defs = call.defs
    <2>1. call' = [call EXCEPT !.todo = nodes \o Tail(@)]
      BY DEF Step, Then
    <2>2. call = [pc |-> call.pc, defs |-> call.defs, todo |-> call.todo, file |-> call.file,
                  acc |-> call.acc, result |-> call.result]
      BY DEF CallOK
    <2> QED BY <1>1, <1>2, <1>3, <2>1, <2>2
  <1>5. /\ new \in Seq(TodoNodes) /\ DOMAIN new = 1 .. Len(nodes) + Len(old) - 1
        /\ DOMAIN nodes = 1 .. Len(nodes) /\ DOMAIN old = 1 .. Len(old)
        /\ Len(nodes) \in Nat /\ Len(old) \in Nat /\ Len(old) >= 1 /\ Head(old) = old[1]
        /\ \A k \in DOMAIN nodes : k \in DOMAIN new /\ new[k] = nodes[k]
        /\ \A k \in DOMAIN new : k > Len(nodes) =>
             k - Len(nodes) + 1 \in DOMAIN old /\ new[k] = old[k - Len(nodes) + 1]
        /\ \A j \in DOMAIN old : j > 1 =>
             j + Len(nodes) - 1 \in DOMAIN new /\ new[j + Len(nodes) - 1] = old[j]
        /\ \A k \in DOMAIN new : k <= Len(nodes) => k \in DOMAIN nodes
    BY ONLY <1>2, <1>3, Replaced
  <1>6. CallOK'
    <2>1. call.defs \in Seq(Definitions) /\ call.defs # <<>>
      BY <1>3 DEF CallOK
    <2> QED BY <1>4, <1>5, <2>1 DEF CallOK
  <1>7. /\ Ordered(old) /\ WritesOK(old) /\ ComputesOK(old) /\ Covered(Subject, old)
        /\ Ordered(nodes) /\ WritesOK(nodes)' /\ ComputesOK(nodes)' /\ Kept
    BY <1>1, <1>3 DEF QueryOK, Step
  <1>8. /\ \A k \in DOMAIN nodes : \A b \in TodoNodes :
             MayPrecede(old[1], b) => MayPrecede(nodes[k], b)
        /\ \A b \in TodoNodes : MayPrecede(old[1], b) /\ Writes(b) /\ Awaits(b) => Awaits(b)'
        /\ \A o \in DOMAIN Objects : ForObject(old[1], o) =>
             Ready(o)' \/ \E k \in DOMAIN nodes : Final(nodes, k) /\ ForObject(nodes[k], o)
        /\ \A v \in Variables \cup {None} : ForVariable(old[1], v) =>
             Computed(v)' \/ \E k \in DOMAIN nodes : Final(nodes, k) /\ ForVariable(nodes[k], v)
    BY <1>1, <1>5 DEF Step
  <1>9. /\ \A k \in DOMAIN old : old[k] \in TodoNodes
        /\ \A k \in DOMAIN new : new[k] \in TodoNodes
    BY <1>3, <1>5, SeqElement
  <1>10. \A j \in DOMAIN old : j > 1 => MayPrecede(old[1], old[j])
    BY <1>5, <1>7 DEF Ordered
  <1>11. Ordered(new)
    <2> SUFFICES ASSUME NEW i \in DOMAIN new, NEW j \in DOMAIN new, i < j
                 PROVE  MayPrecede(new[i], new[j])
      BY DEF Ordered
    <2>1. CASE j <= Len(nodes)
      <3>1. i \in DOMAIN nodes /\ j \in DOMAIN nodes
        BY <1>5, <2>1
      <3> QED BY <1>5, <1>7, <3>1 DEF Ordered
    <2>2. CASE i <= Len(nodes) /\ j > Len(nodes)
      <3>1. i \in DOMAIN nodes /\ j - Len(nodes) + 1 \in DOMAIN old /\ j - Len(nodes) + 1 > 1
        BY <1>5, <2>2
      <3>2. new[i] = nodes[i] /\ new[j] = old[j - Len(nodes) + 1]
        BY <1>5, <2>2, <3>1
      <3> QED BY <1>8, <1>9, <1>10, <3>1, <3>2
    <2>3. CASE i > Len(nodes)
      <3>1. /\ i - Len(nodes) + 1 \in DOMAIN old /\ j - Len(nodes) + 1 \in DOMAIN old
            /\ i - Len(nodes) + 1 < j - Len(nodes) + 1
            /\ new[i] = old[i - Len(nodes) + 1] /\ new[j] = old[j - Len(nodes) + 1]
        BY <1>5, <2>3
      <3> QED BY <1>7, <3>1 DEF Ordered
    <2> QED BY <1>5, <2>1, <2>2, <2>3
  \* A node of the rest is served by the rest or by what replaces the head.
  <1>12. ASSUME NEW j \in DOMAIN old, j > 1, NEW o \in DOMAIN Objects, NEW i \in 1 .. j - 1,
                ForObject(old[i], o)
         PROVE  Ready(o)' \/ \E k \in 1 .. j + Len(nodes) - 2 : ForObject(new[k], o)
    <2>1. CASE i = 1
      <3>1. CASE \E k \in DOMAIN nodes : ForObject(nodes[k], o)
        <4>1. PICK k \in DOMAIN nodes : ForObject(nodes[k], o)
          BY <3>1
        <4>2. k \in 1 .. j + Len(nodes) - 2 /\ new[k] = nodes[k]
          BY <1>5, <1>12, <4>1
        <4> QED BY <4>1, <4>2
      <3> QED BY <1>8, <1>12, <2>1, <3>1
    <2>2. CASE i > 1
      <3>1. i \in DOMAIN old /\ i + Len(nodes) - 1 \in 1 .. j + Len(nodes) - 2
        BY <1>5, <1>12, <2>2
      <3>2. new[i + Len(nodes) - 1] = old[i]
        BY <1>5, <2>2, <3>1
      <3> QED BY <1>12, <3>1, <3>2
    <2> QED BY <2>1, <2>2
  <1>13. ASSUME NEW j \in DOMAIN old, j > 1, NEW v \in Variables \cup {None}, NEW i \in 1 .. j - 1,
                ForVariable(old[i], v)
         PROVE  Computed(v)' \/ \E k \in 1 .. j + Len(nodes) - 2 : ForVariable(new[k], v)
    <2>1. CASE i = 1
      <3>1. CASE \E k \in DOMAIN nodes : ForVariable(nodes[k], v)
        <4>1. PICK k \in DOMAIN nodes : ForVariable(nodes[k], v)
          BY <3>1
        <4>2. k \in 1 .. j + Len(nodes) - 2 /\ new[k] = nodes[k]
          BY <1>5, <1>13, <4>1
        <4> QED BY <4>1, <4>2
      <3> QED BY <1>8, <1>13, <2>1, <3>1
    <2>2. CASE i > 1
      <3>1. i \in DOMAIN old /\ i + Len(nodes) - 1 \in 1 .. j + Len(nodes) - 2
        BY <1>5, <1>13, <2>2
      <3>2. new[i + Len(nodes) - 1] = old[i]
        BY <1>5, <2>2, <3>1
      <3> QED BY <1>13, <3>1, <3>2
    <2> QED BY <2>1, <2>2
  <1>14. WritesOK(new)'
    <2> SUFFICES ASSUME NEW i \in DOMAIN new, Writes(new[i])
                 PROVE  /\ Awaits(new[i])'
                        /\ \/ Computed(VariableOf(new[i]))'
                           \/ \E j \in 1 .. i - 1 : ForVariable(new[j], VariableOf(new[i]))
      BY DEF WritesOK
    <2>1. CASE i <= Len(nodes)
      <3>1. i \in DOMAIN nodes /\ new[i] = nodes[i] /\ \A j \in 1 .. i - 1 : new[j] = nodes[j]
        BY <1>5, <2>1
      <3> QED BY <1>7, <3>1 DEF WritesOK
    <2>2. CASE i > Len(nodes)
      <3>1. PICK j \in DOMAIN old : j = i - Len(nodes) + 1 /\ j > 1 /\ new[i] = old[j] /\ j + Len(nodes) - 2 = i - 1
        BY <1>5, <2>2
      <3>2. /\ Awaits(old[j])
            /\ \/ Computed(VariableOf(old[j]))
               \/ \E k \in 1 .. j - 1 : ForVariable(old[k], VariableOf(old[j]))
        BY <1>7, <3>1 DEF WritesOK
      <3>3. Awaits(old[j])'
        BY <1>8, <1>9, <1>10, <3>1, <3>2
      <3>4. VariableOf(old[j]) \in Variables \cup {None}
        <4>1. old[j].ref \in DOMAIN Objects
          BY <1>9, <3>1 DEF TodoNodes, IsNode, Writes, Plain
        <4> QED BY <4>1, ContentAssumption DEF VariableOf
      <3>5. CASE Computed(VariableOf(old[j]))
        BY <1>7, <3>1, <3>3, <3>4, <3>5 DEF Kept
      <3>6. CASE \E k \in 1 .. j - 1 : ForVariable(old[k], VariableOf(old[j]))
        BY <1>13, <3>1, <3>3, <3>4, <3>6
      <3> QED BY <3>2, <3>5, <3>6
    <2>3. i <= Len(nodes) \/ i > Len(nodes)
      BY <1>5
    <2> QED BY <2>1, <2>2, <2>3, Zenon
  <1>15. ComputesOK(new)'
    <2> SUFFICES ASSUME NEW i \in DOMAIN new, new[i].kind = "compute", Locals[new[i].ref].kind = "object"
                 PROVE  \/ Ready(Locals[new[i].ref].ref)'
                        \/ \E j \in 1 .. i - 1 : ForObject(new[j], Locals[new[i].ref].ref)
      BY DEF ComputesOK
    <2>1. CASE i <= Len(nodes)
      <3>1. i \in DOMAIN nodes /\ new[i] = nodes[i] /\ \A j \in 1 .. i - 1 : new[j] = nodes[j]
        BY <1>5, <2>1
      <3> QED BY <1>7, <3>1 DEF ComputesOK
    <2>2. CASE i > Len(nodes)
      <3>1. PICK j \in DOMAIN old : j = i - Len(nodes) + 1 /\ j > 1 /\ new[i] = old[j] /\ j + Len(nodes) - 2 = i - 1
        BY <1>5, <2>2
      <3>2. \/ Ready(Locals[old[j].ref].ref)
            \/ \E k \in 1 .. j - 1 : ForObject(old[k], Locals[old[j].ref].ref)
        BY <1>7, <3>1 DEF ComputesOK
      <3>4. Locals[old[j].ref].ref \in DOMAIN Objects
        <4>1. old[j].ref \in DOMAIN Locals
          BY <1>9, <3>1 DEF TodoNodes, IsNode, Local
        <4> QED BY <3>1, <4>1, ContentAssumption
      <3>5. CASE Ready(Locals[old[j].ref].ref)
        BY <1>7, <3>1, <3>4, <3>5 DEF Kept
      <3>6. CASE \E k \in 1 .. j - 1 : ForObject(old[k], Locals[old[j].ref].ref)
        BY <1>12, <3>1, <3>4, <3>6
      <3> QED BY <3>2, <3>5, <3>6
    <2>3. i <= Len(nodes) \/ i > Len(nodes)
      BY <1>5
    <2> QED BY <2>1, <2>2, <2>3, Zenon
  \* What is final among the nodes is final, for the rest holds no "compute".
  <1>16. ASSUME NEW i \in DOMAIN old, Final(old, i), i > 1
         PROVE  Final(new, i + Len(nodes) - 1)
    <2> SUFFICES ASSUME NEW j \in DOMAIN new, j > i + Len(nodes) - 1
                 PROVE  new[j].kind # "compute"
      BY DEF Final
    <2>1. j - Len(nodes) + 1 \in DOMAIN old /\ new[j] = old[j - Len(nodes) + 1] /\ j - Len(nodes) + 1 > i
      BY <1>5, <1>16
    <2> QED BY <1>16, <2>1 DEF Final
  <1>17. ASSUME NEW k \in DOMAIN nodes, Final(old, 1), Final(nodes, k)
         PROVE  Final(new, k)
    <2> SUFFICES ASSUME NEW j \in DOMAIN new, j > k
                 PROVE  new[j].kind # "compute"
      BY DEF Final
    <2>1. CASE j <= Len(nodes)
      BY <1>5, <1>17, <2>1 DEF Final
    <2>2. CASE j > Len(nodes)
      <3>1. j - Len(nodes) + 1 \in DOMAIN old /\ new[j] = old[j - Len(nodes) + 1] /\ j - Len(nodes) + 1 > 1
        BY <1>5, <2>2
      <3> QED BY <1>17, <3>1 DEF Final
    <2> QED BY <1>5, <2>1, <2>2
  <1>18. Covered(Subject, new)'
    <2>0. Subject' = Subject
      BY <1>4 DEF Subject
    <2>1. Subject \in Definitions
      <3>1. call.defs \in Seq(Definitions) /\ call.defs # <<>>
        BY <1>3 DEF CallOK
      <3> QED BY <3>1 DEF Subject
    <2> SUFFICES ASSUME NEW t \in TestsOf(Subject)
                 PROVE  /\ \/ Ready(Tests[t].object)'
                           \/ \E i \in DOMAIN new : Final(new, i) /\ ForObject(new[i], Tests[t].object)
                        /\ \/ Computed(Tests[t].variable)'
                           \/ \E i \in DOMAIN new : Final(new, i) /\ ForVariable(new[i], Tests[t].variable)
      BY <2>0 DEF Covered
    <2>2. Tests[t].object \in DOMAIN Objects /\ Tests[t].variable \in Variables \cup {None}
      BY <2>1, VariablesShape, ContentAssumption
    <2>3. ASSUME NEW i \in DOMAIN old, Final(old, i), ForObject(old[i], Tests[t].object)
          PROVE  \/ Ready(Tests[t].object)'
                 \/ \E k \in DOMAIN new : Final(new, k) /\ ForObject(new[k], Tests[t].object)
      <3>1. CASE i = 1
        BY <1>5, <1>8, <1>17, <2>2, <2>3, <3>1
      <3>2. CASE i > 1
        BY <1>5, <1>16, <2>3, <3>2
      <3> QED BY <1>5, <3>1, <3>2
    <2>4. ASSUME NEW i \in DOMAIN old, Final(old, i), ForVariable(old[i], Tests[t].variable)
          PROVE  \/ Computed(Tests[t].variable)'
                 \/ \E k \in DOMAIN new : Final(new, k) /\ ForVariable(new[k], Tests[t].variable)
      <3>1. CASE i = 1
        BY <1>5, <1>8, <1>17, <2>2, <2>4, <3>1
      <3>2. CASE i > 1
        BY <1>5, <1>16, <2>4, <3>2
      <3> QED BY <1>5, <3>1, <3>2
    <2>5. /\ \/ Ready(Tests[t].object)
             \/ \E i \in DOMAIN old : Final(old, i) /\ ForObject(old[i], Tests[t].object)
          /\ \/ Computed(Tests[t].variable)
             \/ \E i \in DOMAIN old : Final(old, i) /\ ForVariable(old[i], Tests[t].variable)
      BY <1>7 DEF Covered
    <2> QED BY <1>7, <2>2, <2>3, <2>4, <2>5 DEF Kept
  <1>19. QueryOK'
    BY <1>4, <1>11, <1>14, <1>15, <1>18 DEF QueryOK
  <1> QED BY <1>4, <1>6, <1>19

-----------------------------------------------------------------------------
(* The steps of a query.                                                   *)

\* The node at the head.
LEMMA HeadNode ==
  ASSUME CallOK, NEW kind, At(kind)
  PROVE  /\ call.pc = "probing" /\ call.todo # <<>>
         /\ Head(call.todo) \in TodoNodes /\ Head(call.todo).kind = kind
         /\ Head(call.todo).ref = Ref /\ IsNode(Head(call.todo))
         /\ 1 \in DOMAIN call.todo /\ call.todo[1] = Head(call.todo)
  <1>1. call.todo \in Seq(TodoNodes) /\ call.todo # <<>> /\ call.pc = "probing"
    BY DEF At, CallOK
  <1>2. Head(call.todo) \in TodoNodes /\ 1 \in DOMAIN call.todo /\ call.todo[1] = Head(call.todo)
    BY <1>1
  <1>3. IsNode(Head(call.todo))
    BY <1>2 DEF TodoNodes
  <1> QED BY <1>1, <1>2, <1>3 DEF At, Ref

\* Nothing precedes the head: what it waits for has been done.
LEMMA HeadDue ==
  ASSUME CallOK, QueryOK, NEW kind, At(kind)
  PROVE  /\ Writes(Head(call.todo)) =>
              Awaits(Head(call.todo)) /\ Computed(VariableOf(Head(call.todo)))
         /\ kind = "compute" /\ Locals[Ref].kind = "object" => Ready(Locals[Ref].ref)
  <1>1. /\ 1 \in DOMAIN call.todo /\ call.todo[1] = Head(call.todo)
        /\ Head(call.todo).kind = kind /\ Head(call.todo).ref = Ref
    BY HeadNode
  <1>2. WritesOK(call.todo) /\ ComputesOK(call.todo)
    BY DEF QueryOK
  <1>3. ~ \E j \in 1 .. 1 - 1 : TRUE
    OBVIOUS
  <1>4. Writes(call.todo[1]) => Awaits(call.todo[1]) /\ Computed(VariableOf(call.todo[1]))
    BY <1>1, <1>2, <1>3 DEF WritesOK
  <1>5. call.todo[1].kind = "compute" /\ Locals[call.todo[1].ref].kind = "object" =>
          Ready(Locals[call.todo[1].ref].ref)
    BY <1>1, <1>2, <1>3 DEF ComputesOK
  <1> QED BY <1>1, <1>4, <1>5

\* Steps that look at neither objects nor variables.
LEMMA SameState ==
  ASSUME UNCHANGED <<memo, syschars>>
  PROVE  Kept /\ \A b \in TodoNodes : Awaits(b) => Awaits(b)'
  <1>1. \A o \in DOMAIN Objects : Ready(o)' = Ready(o)
    BY DEF Ready
  <1>2. \A v : Computed(v)' = Computed(v)
    BY DEF Computed
  <1>3. \A b : Awaits(b)' = Awaits(b)
    BY DEF Awaits
  <1> QED BY <1>1, <1>2, <1>3 DEF Kept

\* Only what writes or computes is particular about what comes before it.
LEMMA PlainNodes ==
  /\ \A a, b : b.kind \in {"extend", "test", "object", "member", "variable"} => MayPrecede(a, b)
  /\ \A a, b, c : a.kind \in {"extend", "test"} /\ b \in TodoNodes /\ MayPrecede(a, b) => MayPrecede(c, b)
  BY DEF MayPrecede, Writes, TodoNodes

\* A node that is done leaves nothing behind.
LEMMA NoNodes ==
  ASSUME CallOK, call.pc = "probing", call.todo # <<>>, Then(<<>>), Kept,
         \A b \in TodoNodes :
           MayPrecede(Head(call.todo), b) /\ Writes(b) /\ Awaits(b) => Awaits(b)',
         \A o \in DOMAIN Objects : ForObject(Head(call.todo), o) => Ready(o)',
         \A v \in Variables \cup {None} : ForVariable(Head(call.todo), v) => Computed(v)'
  PROVE  Step(<<>>)
  <1>1. <<>> \in Seq(TodoNodes) /\ DOMAIN <<>> = {}
    OBVIOUS
  <1>2. Ordered(<<>>) /\ WritesOK(<<>>)' /\ ComputesOK(<<>>)'
    BY <1>1 DEF Ordered, WritesOK, ComputesOK
  <1> QED BY <1>1, <1>2 DEF Step

\* In place of a definition its criteria are to be queried.
LEMMA QueryCriteriaStep ==
  ASSUME CallOK, QueryOK, QueryCriteria
  PROVE  Step(Nodes(Ref))
  <1>1. /\ Head(call.todo) \in TodoNodes /\ Head(call.todo).kind = "extend"
        /\ Head(call.todo).ref = Ref /\ IsNode(Head(call.todo))
        /\ call.pc = "probing" /\ call.todo # <<>>
    BY HeadNode DEF QueryCriteria
  <1>2. PICK h : h = Head(call.todo)
    OBVIOUS
  <1>3. PICK d \in Definitions : d = Ref
    BY <1>1 DEF IsNode, Plain
  <1>4. PICK nodes : nodes = Nodes(d)
    OBVIOUS
  <1>5. /\ \A k \in DOMAIN nodes : nodes[k] \in TodoNodes /\ nodes[k].kind \in {"test", "extend"}
        /\ nodes \in Seq(TodoNodes)
    <2>1. IsSeq(nodes) /\ Len(nodes) \in Nat /\ DOMAIN nodes = 1 .. Len(nodes)
      BY <1>4, NodesShape
    <2>2. ASSUME NEW k \in DOMAIN nodes
          PROVE  nodes[k] \in TodoNodes /\ nodes[k].kind \in {"test", "extend"}
      <3>1. /\ nodes[k] \in [kind : {"test", "extend"}, ref : Definitions \cup DOMAIN Tests]
            /\ nodes[k].kind = "test" => nodes[k].ref \in DOMAIN Tests
            /\ nodes[k].kind # "test" => nodes[k].ref \in Definitions
        BY <1>4, NodesShape
      <3>2. IsNode(nodes[k])
        BY <3>1 DEF IsNode
      <3> QED BY <3>1, <3>2 DEF TodoNodes
    <2>3. nodes = [i \in 1 .. Len(nodes) |-> nodes[i]]
      BY <2>1 DEF IsSeq
    <2> QED BY <2>1, <2>2, <2>3
  <1>6. UNCHANGED <<memo, syschars>> /\ Then(nodes)
    BY <1>3, <1>4 DEF QueryCriteria
  <1>7. Kept /\ \A b \in TodoNodes : Awaits(b) => Awaits(b)'
    BY <1>6, SameState
  <1>8. Ordered(nodes) /\ \A k \in DOMAIN nodes : \A b \in TodoNodes :
          MayPrecede(Head(call.todo), b) => MayPrecede(nodes[k], b)
    BY <1>1, <1>5, PlainNodes DEF Ordered
  <1>9. WritesOK(nodes)' /\ ComputesOK(nodes)'
    BY <1>5 DEF WritesOK, ComputesOK, Writes
  <1>10. \A k \in DOMAIN nodes : Final(nodes, k)
    BY <1>5 DEF Final
  <1>11. ASSUME NEW t \in TestsOf(d)
         PROVE  \E k \in DOMAIN nodes :
                  \/ nodes[k].kind = "test" /\ nodes[k].ref = t
                  \/ nodes[k].kind = "extend" /\ t \in TestsOf(nodes[k].ref)
    <2>1. CASE t \in DirectTests(d)
      BY <1>4, <2>1, TestsShape
    <2>2. CASE \E e \in ExtendedBy(d) : t \in DirectTests(e)
      <3>1. PICK e \in ExtendedBy(d) : t \in DirectTests(e)
        BY <2>2
      <3>2. e \in Definitions /\ \E k \in DOMAIN nodes : nodes[k].kind = "extend" /\ nodes[k].ref = e
        BY <1>4, TestsShape
      <3>3. t \in TestsOf(e)
        BY <3>1, <3>2, TestsShape
      <3> QED BY <3>2, <3>3
    <2> QED BY <2>1, <2>2, TestsShape
  <1>12. ASSUME NEW o \in DOMAIN Objects, ForObject(h, o)
         PROVE  \E k \in DOMAIN nodes : ForObject(nodes[k], o)
    <2>1. PICK t \in TestsOf(d) : Tests[t].object = o
      BY <1>1, <1>2, <1>3, <1>12 DEF ForObject, ObjectsOf
    <2> QED BY <1>11, <2>1 DEF ForObject, ObjectsOf
  <1>13. ASSUME NEW v \in Variables \cup {None}, ForVariable(h, v)
         PROVE  \E k \in DOMAIN nodes : ForVariable(nodes[k], v)
    <2>1. PICK t \in TestsOf(d) : Tests[t].variable = v
      BY <1>1, <1>2, <1>3, <1>13 DEF ForVariable
    <2> QED BY <1>11, <2>1 DEF ForVariable
  <1>14. Step(nodes)
    BY <1>1, <1>2, <1>5, <1>6, <1>7, <1>8, <1>9, <1>10, <1>12, <1>13 DEF Step
  <1> QED BY <1>3, <1>4, <1>14

\* A list that is given node by node.
LEMMA ListedNodes ==
  ASSUME NEW S, NEW n \in Nat, NEW s, s = [i \in 1 .. n |-> s[i]], \A i \in 1 .. n : s[i] \in S
  PROVE  s \in Seq(S) /\ Len(s) = n
  <1>1. s \in Seq(S)
    OBVIOUS
  <1> QED BY <1>1

\* Two lists one after the other.
LEMMA JoinedNodes ==
  ASSUME NEW S, NEW s \in Seq(S), NEW r \in Seq(S)
  PROVE  /\ s \o r \in Seq(S) /\ Len(s \o r) = Len(s) + Len(r)
         /\ DOMAIN (s \o r) = 1 .. Len(s) + Len(r)
         /\ \A k \in 1 .. Len(s) : (s \o r)[k] = s[k]
         /\ \A k \in 1 .. Len(r) : (s \o r)[Len(s) + k] = r[k]
  <1>1. s \o r \in Seq(S) /\ Len(s \o r) = Len(s) + Len(r) /\ Len(s) \in Nat /\ Len(r) \in Nat
    OBVIOUS
  <1> QED BY <1>1

\* A list of one node,
LEMMA OneNode ==
  ASSUME NEW S, NEW a \in S
  PROVE  <<a>> \in Seq(S) /\ Len(<<a>>) = 1 /\ DOMAIN <<a>> = 1 .. 1 /\ <<a>>[1] = a
  OBVIOUS

\* and a list of two.
LEMMA TwoNodes ==
  ASSUME NEW S, NEW a \in S, NEW b \in S
  PROVE  /\ <<a, b>> \in Seq(S) /\ Len(<<a, b>>) = 2 /\ DOMAIN <<a, b>> = 1 .. 2
         /\ <<a, b>>[1] = a /\ <<a, b>>[2] = b
  OBVIOUS

\* In place of a test its object and the variable of its states.
LEMMA QueryTestStep ==
  ASSUME CallOK, QueryOK, QueryTest
  PROVE  Step(<<Node("object", Tests[Ref].object)>> \o VariableNode(Tests[Ref].variable))
  <1>1. /\ Head(call.todo) \in TodoNodes /\ Head(call.todo).kind = "test"
        /\ Head(call.todo).ref = Ref /\ IsNode(Head(call.todo))
        /\ call.pc = "probing" /\ call.todo # <<>>
    BY HeadNode DEF QueryTest
  <1>2. PICK h : h = Head(call.todo)
    OBVIOUS
  <1>3. PICK t \in DOMAIN Tests : t = Ref
    BY <1>1 DEF IsNode, Plain
  <1>4. PICK o : o = Tests[t].object
    OBVIOUS
  <1>5. PICK v : v = Tests[t].variable
    OBVIOUS
  <1>6. o \in DOMAIN Objects /\ v \in Variables \cup {None} /\ None \notin Variables
    BY <1>4, <1>5, ContentAssumption
  <1>7. PICK nodes : nodes = <<Node("object", o)>> \o VariableNode(v)
    OBVIOUS
  <1>8. /\ nodes = IF v = None THEN <<Node("object", o)>> ELSE <<Node("object", o), Node("variable", v)>>
        /\ Node("object", o) \in TodoNodes
        /\ v # None => Node("variable", v) \in TodoNodes
    <2>1. nodes = IF v = None THEN <<Node("object", o)>> ELSE <<Node("object", o), Node("variable", v)>>
      BY <1>7 DEF VariableNode
    <2>2. IsNode(Node("object", o)) /\ (v # None => IsNode(Node("variable", v)))
      BY <1>6 DEF IsNode, Node
    <2>3. Node("object", o) \in TodoNodes
      BY <1>6, <2>2 DEF TodoNodes, Node
    <2>4. v # None => Node("variable", v) \in TodoNodes
      BY <1>6, <2>2 DEF TodoNodes, Node
    <2> QED BY <2>1, <2>3, <2>4
  <1>9. /\ nodes \in Seq(TodoNodes) /\ 1 \in DOMAIN nodes /\ nodes[1] = Node("object", o)
        /\ v # None => 2 \in DOMAIN nodes /\ nodes[2] = Node("variable", v)
        /\ \A k \in DOMAIN nodes : nodes[k].kind \in {"object", "variable"}
    <2>0. Node("object", o).kind = "object" /\ Node("variable", v).kind = "variable"
      BY DEF Node
    <2>1. CASE v = None
      <3>1. nodes = <<Node("object", o)>>
        BY <1>8, <2>1
      <3>2. nodes \in Seq(TodoNodes) /\ DOMAIN nodes = 1 .. 1 /\ nodes[1] = Node("object", o)
        BY <1>8, <3>1, OneNode
      <3> QED BY <2>0, <2>1, <3>2
    <2>2. CASE v # None
      <3>1. nodes = <<Node("object", o), Node("variable", v)>>
        BY <1>8, <2>2
      <3>2. /\ nodes \in Seq(TodoNodes) /\ DOMAIN nodes = 1 .. 2
            /\ nodes[1] = Node("object", o) /\ nodes[2] = Node("variable", v)
        <4>1. Node("variable", v) \in TodoNodes /\ Node("object", o) \in TodoNodes
          BY <1>8, <2>2
        <4> QED BY ONLY <3>1, <4>1, TwoNodes
      <3> QED BY <2>0, <2>2, <3>2
    <2> QED BY <2>1, <2>2
  <1>10. UNCHANGED <<memo, syschars>> /\ Then(nodes)
    BY <1>3, <1>4, <1>5, <1>7 DEF QueryTest
  <1>11. Kept /\ \A b \in TodoNodes : Awaits(b) => Awaits(b)'
    BY <1>10, SameState
  <1>12. Ordered(nodes) /\ \A k \in DOMAIN nodes : \A b \in TodoNodes :
          MayPrecede(Head(call.todo), b) => MayPrecede(nodes[k], b)
    BY <1>1, <1>9, PlainNodes DEF Ordered
  <1>13. WritesOK(nodes)' /\ ComputesOK(nodes)'
    BY <1>9 DEF WritesOK, ComputesOK, Writes
  <1>14. \A k \in DOMAIN nodes : Final(nodes, k)
    BY <1>9 DEF Final
  <1>15. ASSUME NEW p \in DOMAIN Objects, ForObject(h, p)
         PROVE  \E k \in DOMAIN nodes : ForObject(nodes[k], p)
    BY <1>1, <1>2, <1>3, <1>4, <1>9, <1>15 DEF ForObject, Node
  <1>16. ASSUME NEW w \in Variables \cup {None}, ForVariable(h, w)
         PROVE  Computed(w)' \/ \E k \in DOMAIN nodes : ForVariable(nodes[k], w)
    <2>1. w = v
      BY <1>1, <1>2, <1>3, <1>5, <1>16 DEF ForVariable
    <2> QED BY <1>9, <2>1 DEF ForVariable, Node, Computed
  <1>17. Step(nodes)
    BY <1>1, <1>2, <1>9, <1>10, <1>11, <1>12, <1>13, <1>14, <1>15, <1>16 DEF Step
  <1> QED BY <1>3, <1>4, <1>5, <1>7, <1>17

\* What is known of the newest instance after a successor has been made.
LEMMA NewSyscharShape ==
  ASSUME Shapes, NEW o \in DOMAIN Objects
  PROVE  /\ NewSyschar(o) = [p \in DOMAIN Objects |-> NewSyschar(o)[p]]
         /\ \A p \in DOMAIN Objects : p # o => NewSyschar(o)[p] = syschars[p]
         /\ Instances(NewSyschar(o)[o]) /\ Len(NewSyschar(o)[o]) = Len(syschars[o]) + 1
         /\ Started(NewSyschar(o)[o]) /\ ~Hinted(NewSyschar(o)[o])
         /\ Newest(NewSyschar(o)[o]).flag = "unknown" /\ Newest(NewSyschar(o)[o]).saw = {}
         /\ Newest(NewSyschar(o)[o]).inst = NextInstance(syschars[o], 1)
         /\ \A i \in DOMAIN syschars[o] : i \in DOMAIN NewSyschar(o)[o] /\ NewSyschar(o)[o][i] = syschars[o][i]
  <1>1. PICK n : n = NextInstance(syschars[o], 1)
    OBVIOUS
  <1>2. PICK e : e = [inst |-> n, hint |-> n, flag |-> "unknown", saw |-> {}]
    OBVIOUS
  <1>3. /\ syschars = [p \in DOMAIN Objects |-> syschars[p]]
        /\ IsSeq(syschars[o]) /\ \A i \in DOMAIN syschars[o] : IsInstance(syschars[o][i])
    BY DEF Shapes
  <1>4. NewSyschar(o) = [syschars EXCEPT ![o] = Append(@, e)]
    BY <1>1, <1>2 DEF NewSyschar
  <1>5. /\ NewSyschar(o) = [p \in DOMAIN Objects |-> NewSyschar(o)[p]]
        /\ \A p \in DOMAIN Objects : p # o => NewSyschar(o)[p] = syschars[p]
        /\ NewSyschar(o)[o] = Append(syschars[o], e)
    BY <1>3, <1>4
  <1>6. n \in Nat
    <2>1. CASE Hinted(syschars[o])
      <3>1. Len(syschars[o]) \in DOMAIN syschars[o]
        BY <1>3, <2>1, SeqShape DEF Hinted
      <3> QED BY <1>1, <1>3, <2>1, <3>1 DEF NextInstance, Newest, IsInstance
    <2>2. CASE ~Hinted(syschars[o])
      BY <1>1, <2>2 DEF NextInstance
    <2> QED BY <2>1, <2>2
  <1>7. IsInstance(e) /\ e.flag = "unknown" /\ e.saw = {} /\ e.inst = n /\ e.hint = n
    BY <1>2, <1>6 DEF IsInstance
  <1>8. PICK r : r = Append(syschars[o], e)
    OBVIOUS
  <1>9. /\ IsSeq(r) /\ Len(r) = Len(syschars[o]) + 1 /\ DOMAIN r = DOMAIN syschars[o] \cup {Len(syschars[o]) + 1}
        /\ \A i \in DOMAIN syschars[o] : r[i] = syschars[o][i]
        /\ r[Len(syschars[o]) + 1] = e /\ Newest(r) = e /\ Started(r)
    BY <1>3, <1>8, Appended
  <1>10. Instances(r) /\ ~Hinted(r)
    BY <1>3, <1>7, <1>9 DEF Instances, Hinted
  <1> QED BY <1>1, <1>5, <1>7, <1>8, <1>9, <1>10

\* The nodes an object that is asked for gives way to.
AskedNodes(o, kind) == VariableNode(Objects[o].variable) \o <<Node(kind, o)>>

\* An object is asked for after its variable.
LEMMA ObjectNodes ==
  ASSUME NEW o \in DOMAIN Objects, NEW kind \in {"collect", "cache"}, kind = "cache" => Plain(o),
         NEW nodes, nodes = AskedNodes(o, kind)
  PROVE  /\ nodes \in Seq(TodoNodes) /\ Len(nodes) \in DOMAIN nodes
         /\ Len(nodes) \in Nat /\ DOMAIN nodes = 1 .. Len(nodes)
         /\ nodes[Len(nodes)] = Node(kind, o)
         /\ \A k \in DOMAIN nodes : k # Len(nodes) =>
              /\ k < Len(nodes) /\ nodes[k] = Node("variable", Objects[o].variable)
              /\ Objects[o].variable \in Variables
         /\ Objects[o].variable # None =>
              \E k \in 1 .. Len(nodes) - 1 : nodes[k] = Node("variable", Objects[o].variable)
  <1>1. PICK v : v = Objects[o].variable
    OBVIOUS
  <1>2. v \in Variables \cup {None}
    BY <1>1, ContentAssumption
  <1>3. nodes = IF v = None THEN <<Node(kind, o)>> ELSE <<Node("variable", v), Node(kind, o)>>
    BY <1>1 DEF VariableNode, AskedNodes
  <1>4. IsNode(Node(kind, o)) /\ (v # None => IsNode(Node("variable", v)))
    BY <1>2 DEF IsNode, Node
  <1>5. Node(kind, o) \in TodoNodes
    BY <1>4 DEF TodoNodes, Node
  <1>6. v # None => Node("variable", v) \in TodoNodes
    BY <1>2, <1>4 DEF TodoNodes, Node
  <1>7. CASE v = None
    <2>1. nodes = <<Node(kind, o)>>
      BY <1>3, <1>7
    <2>2. nodes \in Seq(TodoNodes) /\ Len(nodes) = 1 /\ DOMAIN nodes = 1 .. 1 /\ nodes[1] = Node(kind, o)
      BY <1>5, <2>1, OneNode
    <2> QED BY <1>1, <1>7, <2>2
  <1>8. CASE v # None
    <2>1. nodes = <<Node("variable", v), Node(kind, o)>>
      BY <1>3, <1>8
    <2>2. /\ nodes \in Seq(TodoNodes) /\ Len(nodes) = 2 /\ DOMAIN nodes = 1 .. 2
          /\ nodes[1] = Node("variable", v) /\ nodes[2] = Node(kind, o)
      <3>1. Node("variable", v) \in TodoNodes
        BY <1>6, <1>8
      <3> QED BY ONLY <1>5, <2>1, <3>1, TwoNodes
    <2>3. v \in Variables
      BY <1>2, <1>8
    <2> QED BY <1>1, <2>2, <2>3
  <1> QED BY <1>7, <1>8

\* An object is asked for: only what has no current instance gets one.
LEMMA QueriedStep ==
  ASSUME CallOK, QueryOK, Shapes, NEW kind \in {"object", "member"}, At(kind),
         NEW noreply \in BOOLEAN, noreply <=> kind = "member",
         oval_probe_query_object(Ref, noreply), memo' = memo
  PROVE  \E nodes : Step(nodes)
  <1>1. /\ Head(call.todo) \in TodoNodes /\ Head(call.todo).kind = kind
        /\ Head(call.todo).ref = Ref /\ IsNode(Head(call.todo))
        /\ call.pc = "probing" /\ call.todo # <<>>
    BY HeadNode
  <1>2. PICK h : h = Head(call.todo)
    OBVIOUS
  <1>3. PICK o \in DOMAIN Objects : o = Ref
    BY <1>1 DEF IsNode, Plain
  <1>4. PICK v : v = Objects[o].variable
    OBVIOUS
  <1>5. v \in Variables \cup {None} /\ None \notin Variables
    BY <1>4, ContentAssumption
  <1>6. noreply => Plain(o)
    BY <1>1, <1>3 DEF IsNode
  <1>7. PICK fresh \in BOOLEAN : fresh <=> (~Started(syschars[o]) \/ Hinted(syschars[o]))
    OBVIOUS
  <1>8. PICK asks \in BOOLEAN :
          asks <=> (fresh \/ (~noreply /\ Newest(syschars[o]).flag = "unknown"))
    OBVIOUS
  <1>9. PICK after : after = IF noreply THEN "cache" ELSE "collect"
    OBVIOUS
  <1>10. PICK nodes : nodes = IF asks THEN VariableNode(v) \o <<Node(after, o)>> ELSE <<>>
    OBVIOUS
  <1>11. Then(nodes) /\ syschars' = IF fresh THEN NewSyschar(o) ELSE syschars
    BY <1>3, <1>4, <1>7, <1>8, <1>9, <1>10 DEF oval_probe_query_object
  <1>12. /\ NewSyschar(o) = [p \in DOMAIN Objects |-> NewSyschar(o)[p]]
         /\ \A p \in DOMAIN Objects : p # o => NewSyschar(o)[p] = syschars[p]
         /\ Started(NewSyschar(o)[o]) /\ ~Hinted(NewSyschar(o)[o])
         /\ Newest(NewSyschar(o)[o]).flag = "unknown"
    BY NewSyscharShape
  <1>13. Kept
    <2>1. ASSUME NEW p \in DOMAIN Objects, Ready(p) PROVE Ready(p)'
      <3>1. ~fresh \/ p # o
        BY <1>7, <2>1 DEF Ready
      <3>2. syschars'[p] = syschars[p]
        BY <1>11, <1>12, <3>1
      <3> QED BY <2>1, <3>2 DEF Ready
    <2>2. \A w : Computed(w)' = Computed(w)
      BY DEF Computed
    <2> QED BY <2>1, <2>2 DEF Kept
  <1>14. ASSUME NEW b \in TodoNodes, Writes(b), Awaits(b) PROVE Awaits(b)'
    <2>1. b.ref \in DOMAIN Objects
      BY <1>14 DEF TodoNodes, IsNode, Writes, Plain
    <2>2. ~fresh \/ b.ref # o
      BY <1>7, <1>14 DEF Awaits
    <2>3. syschars'[b.ref] = syschars[b.ref]
      BY <1>11, <1>12, <2>1, <2>2
    <2> QED BY <1>14, <2>3 DEF Awaits
  <1>15. asks =>
           /\ nodes \in Seq(TodoNodes) /\ Len(nodes) \in DOMAIN nodes
           /\ Len(nodes) \in Nat /\ DOMAIN nodes = 1 .. Len(nodes)
           /\ nodes[Len(nodes)] = Node(after, o)
           /\ \A k \in DOMAIN nodes : k # Len(nodes) =>
                k < Len(nodes) /\ nodes[k] = Node("variable", v) /\ v \in Variables
           /\ v # None => \E k \in 1 .. Len(nodes) - 1 : nodes[k] = Node("variable", v)
    <2> SUFFICES ASSUME asks
                 PROVE  /\ nodes \in Seq(TodoNodes) /\ Len(nodes) \in DOMAIN nodes
                        /\ Len(nodes) \in Nat /\ DOMAIN nodes = 1 .. Len(nodes)
                        /\ nodes[Len(nodes)] = Node(after, o)
                        /\ \A k \in DOMAIN nodes : k # Len(nodes) =>
                             k < Len(nodes) /\ nodes[k] = Node("variable", v) /\ v \in Variables
                        /\ v # None => \E k \in 1 .. Len(nodes) - 1 : nodes[k] = Node("variable", v)
      OBVIOUS
    <2>1. after \in {"collect", "cache"} /\ (after = "cache" => Plain(o))
      BY <1>6, <1>9
    <2>2. nodes = AskedNodes(o, after)
      BY <1>4, <1>10 DEF AskedNodes
    <2>3. o \in DOMAIN Objects
      OBVIOUS
    <2>4. /\ nodes \in Seq(TodoNodes) /\ Len(nodes) \in DOMAIN nodes
          /\ Len(nodes) \in Nat /\ DOMAIN nodes = 1 .. Len(nodes)
          /\ nodes[Len(nodes)] = Node(after, o)
          /\ \A k \in DOMAIN nodes : k # Len(nodes) =>
               /\ k < Len(nodes) /\ nodes[k] = Node("variable", Objects[o].variable)
               /\ Objects[o].variable \in Variables
          /\ Objects[o].variable # None =>
               \E k \in 1 .. Len(nodes) - 1 : nodes[k] = Node("variable", Objects[o].variable)
      BY ONLY <2>1, <2>2, <2>3, ObjectNodes
    <2> QED BY <1>4, <2>4
  <1>16. ~asks => nodes = <<>> /\ nodes \in Seq(TodoNodes) /\ DOMAIN nodes = {}
    BY <1>10
  <1>17. \A k \in DOMAIN nodes : nodes[k] = Node(after, o) \/ (nodes[k] = Node("variable", v) /\ v \in Variables)
    BY <1>15, <1>16
  <1>18. ASSUME NEW b \in TodoNodes, MayPrecede(h, b)
         PROVE  MayPrecede(Node(after, o), b) /\ (v \in Variables => MayPrecede(Node("variable", v), b))
    <2>0. /\ h.kind = kind /\ h.ref = o
          /\ Node(after, o).kind = after /\ Node(after, o).ref = o
          /\ Node("variable", v).kind = "variable" /\ Node("variable", v).ref = v
      BY <1>1, <1>2, <1>3 DEF Node
    <2>1. CASE b.kind \in {"collect", "cache"}
      <3>1. kind = "object" /\ BehindObject(VariableOf(b), o) /\ after = "collect"
        BY <1>9, <1>18, <2>0, <2>1 DEF MayPrecede
      <3>2. Local(VariableOf(b)) /\ v \in External \cup {None}
        BY <1>4, <3>1, ContentAssumption DEF BehindObject, Local
      <3> QED BY <1>5, <2>0, <2>1, <3>1, <3>2 DEF MayPrecede
    <2>2. CASE b.kind = "combine"
      <3>1. Plain(o)
        BY <1>18, <2>0, <2>2 DEF MayPrecede
      <3> QED BY <1>9, <2>0, <2>2, <3>1 DEF MayPrecede
    <2>3. CASE b.kind = "compute"
      <3>1. kind = "object" /\ BehindObject(b.ref, o) /\ after = "collect"
        BY <1>9, <1>18, <2>0, <2>3 DEF MayPrecede
      <3>2. v \in External \cup {None}
        BY <1>4, <3>1, ContentAssumption DEF BehindObject, Local
      <3> QED BY <1>5, <2>0, <2>3, <3>1, <3>2 DEF MayPrecede, Writes
    <2>4. CASE b.kind \notin {"collect", "cache", "combine", "compute"}
      BY <2>4, PlainNodes DEF TodoNodes
    <2> QED BY <2>1, <2>2, <2>3, <2>4
  <1>19. Ordered(nodes)
    <2> SUFFICES ASSUME NEW i \in DOMAIN nodes, NEW j \in DOMAIN nodes, i < j
                 PROVE  MayPrecede(nodes[i], nodes[j])
      BY DEF Ordered
    <2>1. asks /\ i # Len(nodes)
      BY <1>15, <1>16
    <2>2. nodes[i] = Node("variable", v)
      BY <1>15, <2>1
    <2>3. MayPrecede(Node("variable", v), Node(after, o))
      BY <1>4, <1>9 DEF MayPrecede, Node, VariableOf
    <2>4. MayPrecede(Node("variable", v), Node("variable", v))
      BY PlainNodes DEF Node
    <2> QED BY <1>17, <2>2, <2>3, <2>4
  <1>20. asks => Started(syschars[o])' /\ ~Hinted(syschars[o])' /\ (Newest(syschars[o]).flag = "unknown")'
    <2>1. CASE fresh
      <3>1. syschars'[o] = NewSyschar(o)[o]
        BY <1>11, <2>1
      <3> QED BY <1>12, <3>1
    <2>2. CASE ~fresh
      <3>1. syschars'[o] = syschars[o]
        BY <1>11, <2>2
      <3> QED BY <1>7, <1>8, <2>2, <3>1
    <2> QED BY <2>1, <2>2
  <1>21. WritesOK(nodes)'
    <2> SUFFICES ASSUME NEW i \in DOMAIN nodes, Writes(nodes[i])
                 PROVE  /\ Awaits(nodes[i])'
                        /\ \/ Computed(VariableOf(nodes[i]))'
                           \/ \E j \in 1 .. i - 1 : ForVariable(nodes[j], VariableOf(nodes[i]))
      BY DEF WritesOK
    <2>1. asks /\ nodes[i] = Node(after, o) /\ i = Len(nodes)
      <3>1. ~Writes(Node("variable", v))
        BY DEF Writes, Node
      <3> QED BY <1>15, <1>16, <3>1
    <2>2. Awaits(nodes[i])'
      <3>1. nodes[i].ref = o
        BY <2>1 DEF Node
      <3> QED BY <1>20, <2>1, <3>1 DEF Awaits
    <2>3. VariableOf(nodes[i]) = v
      BY <1>4, <2>1 DEF VariableOf, Node
    <2>4. CASE v = None
      BY <2>2, <2>3, <2>4 DEF Computed
    <2>5. CASE v # None
      <3>1. PICK k \in 1 .. i - 1 : nodes[k] = Node("variable", v)
        BY <1>15, <2>1, <2>5
      <3>2. ForVariable(nodes[k], v)
        BY <3>1 DEF ForVariable, Node
      <3> QED BY <2>2, <2>3, <3>2
    <2> QED BY <2>4, <2>5
  <1>22. ComputesOK(nodes)' /\ \A k \in DOMAIN nodes : Final(nodes, k)
    <2>1. \A k \in DOMAIN nodes : nodes[k].kind # "compute"
      BY <1>9, <1>17 DEF Node
    <2> QED BY <2>1 DEF ComputesOK, Final
  <1>23. ASSUME NEW p \in DOMAIN Objects, ForObject(h, p)
         PROVE  Ready(p)' \/ \E k \in DOMAIN nodes : ForObject(nodes[k], p)
    <2>1. p = o /\ kind = "object"
      BY <1>1, <1>2, <1>3, <1>23 DEF ForObject
    <2>2. CASE asks
      BY <1>9, <1>15, <2>1, <2>2 DEF ForObject, Node
    <2>3. CASE ~asks
      <3>1. Ready(o) 
        BY <1>7, <1>8, <2>1, <2>3 DEF Ready
      <3> QED BY <1>13, <2>1, <3>1 DEF Kept
    <2> QED BY <2>2, <2>3
  <1>24. \A w : ~ForVariable(h, w)
    BY <1>1, <1>2 DEF ForVariable
  <1>25. Step(nodes)
    BY <1>1, <1>2, <1>11, <1>13, <1>14, <1>15, <1>16, <1>17, <1>18, <1>19, <1>21, <1>22, <1>23, <1>24 DEF Step
  <1> QED BY <1>25

\* In place of an object what oval_probe_query_object asks for, with reply
LEMMA QueryObjectStep ==
  ASSUME CallOK, QueryOK, Shapes, QueryObject
  PROVE  \E nodes : Step(nodes)
  BY QueriedStep DEF QueryObject

\* and without.
LEMMA QueryMemberStep ==
  ASSUME CallOK, QueryOK, Shapes, QueryMember
  PROVE  \E nodes : Step(nodes)
  <1>1. CASE rcache[Ref] # None
    <2>1. /\ Head(call.todo).kind = "member" /\ call.pc = "probing" /\ call.todo # <<>>
      BY HeadNode DEF QueryMember
    <2>2. Then(<<>>) /\ UNCHANGED <<memo, syschars>>
      BY <1>1 DEF QueryMember
    <2>3. Kept /\ \A b \in TodoNodes : Awaits(b) => Awaits(b)'
      BY <2>2, SameState
    <2>4. \A o : ~ForObject(Head(call.todo), o) /\ ~ForVariable(Head(call.todo), o)
      BY <2>1 DEF ForObject, ForVariable
    <2> QED BY <2>1, <2>2, <2>3, <2>4, NoNodes
  <1>2. CASE rcache[Ref] = None
    BY <1>2, QueriedStep DEF QueryMember
  <1> QED BY <1>1, <1>2

\* In place of a local variable the part it is made of, then the variable.
LEMMA QueryVariableStep ==
  ASSUME CallOK, QueryOK, QueryVariable
  PROVE  \E nodes : Step(nodes)
  <1>1. /\ Head(call.todo) \in TodoNodes /\ Head(call.todo).kind = "variable"
        /\ Head(call.todo).ref = Ref /\ IsNode(Head(call.todo))
        /\ call.pc = "probing" /\ call.todo # <<>>
    BY HeadNode DEF QueryVariable
  <1>2. PICK h : h = Head(call.todo)
    OBVIOUS
  <1>3. PICK v \in Variables : v = Ref
    BY <1>1 DEF IsNode, Plain
  <1>4. UNCHANGED <<memo, syschars>>
    BY DEF QueryVariable
  <1>5. Kept /\ \A b \in TodoNodes : Awaits(b) => Awaits(b)'
    BY <1>4, SameState
  <1>6. CASE v \in External \/ memo[v] # <<>>
    <2>1. Then(<<>>)
      BY <1>3, <1>6 DEF QueryVariable
    <2>2. \A w : ForVariable(Head(call.todo), w) => Computed(w)'
      BY <1>1, <1>3, <1>4, <1>6 DEF ForVariable, Computed
    <2>3. \A o : ~ForObject(Head(call.todo), o)
      BY <1>1 DEF ForObject
    <2> QED BY <1>1, <1>5, <2>1, <2>2, <2>3, NoNodes
  <1>7. CASE ~(v \in External \/ memo[v] # <<>>)
    <2>1. PICK part : part = Locals[v]
      OBVIOUS
    <2>2. PICK last : last = Node("compute", v)
      OBVIOUS
    <2>3. PICK nodes : nodes = <<part, last>>
      OBVIOUS
    <2>4. Then(nodes)
      BY <1>3, <1>7, <2>1, <2>2, <2>3 DEF QueryVariable
    <2>5. /\ Local(v) /\ v \in DOMAIN Locals
          /\ part \in [kind : {"variable", "object"}, ref : External \cup DOMAIN Objects]
          /\ \/ part.kind = "variable" /\ part.ref \in External
             \/ part.kind = "object" /\ part.ref \in DOMAIN Objects /\ Plain(part.ref)
      <3>1. v \in DOMAIN Locals /\ Local(v)
        BY <1>7 DEF Variables, Local
      <3> QED BY <2>1, <3>1, ContentAssumption DEF Plain
    <2>6. last.kind = "compute" /\ last.ref = v
      BY <2>2 DEF Node
    <2>7. part \in TodoNodes /\ last \in TodoNodes
      <3>1. IsNode(part) /\ IsNode(last)
        BY <2>5, <2>6 DEF IsNode, Variables
      <3>2. part \in TodoNodes
        BY <2>5, <3>1 DEF TodoNodes, Variables
      <3>3. last \in TodoNodes
        BY <2>2, <3>1 DEF TodoNodes, Node
      <3> QED BY <3>2, <3>3
    <2>8. nodes \in Seq(TodoNodes) /\ DOMAIN nodes = 1 .. 2 /\ nodes[1] = part /\ nodes[2] = last
      BY <2>3, <2>7, TwoNodes
    <2>9. ASSUME NEW b \in TodoNodes, MayPrecede(h, b)
          PROVE  MayPrecede(part, b) /\ MayPrecede(last, b)
      <3>0. h.kind = "variable" /\ h.ref = v /\ v \notin External
        BY <1>1, <1>2, <1>3, <1>7
      <3>1. CASE b.kind \in {"collect", "cache"}
        <4>1. v = VariableOf(b)
          BY <2>9, <3>0, <3>1 DEF MayPrecede
        <4>2. part.kind = "object" => BehindObject(VariableOf(b), part.ref)
          BY <2>1, <2>5, <4>1 DEF BehindObject
        <4> QED BY <2>5, <2>6, <3>1, <4>1, <4>2 DEF MayPrecede
      <3>2. CASE b.kind = "combine"
        BY <2>5, <2>6, <3>2 DEF MayPrecede
      <3>3. CASE b.kind = "compute"
        BY <2>9, <3>0, <3>3 DEF MayPrecede
      <3>4. CASE b.kind \notin {"collect", "cache", "combine", "compute"}
        BY <3>4, PlainNodes DEF TodoNodes
      <3> QED BY <3>1, <3>2, <3>3, <3>4
    <2>10. Ordered(nodes)
      <3>1. MayPrecede(part, last)
        BY <2>1, <2>5, <2>6 DEF MayPrecede, Writes, BehindObject
      <3> QED BY <2>8, <3>1 DEF Ordered
    <2>11. WritesOK(nodes)'
      BY <2>5, <2>6, <2>8 DEF WritesOK, Writes
    <2>12. ComputesOK(nodes)'
      <3>1. Locals[v].kind = "object" => ForObject(part, Locals[v].ref)
        BY <2>1 DEF ForObject
      <3>2. \A i \in DOMAIN nodes : nodes[i].kind = "compute" => i = 2 /\ nodes[i].ref = v
        BY <2>5, <2>6, <2>8
      <3> QED BY <2>8, <3>1, <3>2 DEF ComputesOK
    <2>13. Final(nodes, 2)
      BY <2>8 DEF Final
    <2>14. \A o : ~ForObject(h, o)
      BY <1>1, <1>2 DEF ForObject
    <2>15. \A w : ForVariable(h, w) => ForVariable(nodes[2], w)
      BY <1>1, <1>2, <1>3, <2>6, <2>8 DEF ForVariable
    <2>16. Step(nodes)
      BY <1>1, <1>2, <1>5, <2>4, <2>8, <2>9, <2>10, <2>11, <2>12, <2>13, <2>14, <2>15 DEF Step
    <2> QED BY <2>16
  <1> QED BY <1>6, <1>7

\* The part of a variable is known when the variable is computed.
LEMMA ComputeVariableStep ==
  ASSUME CallOK, QueryOK, Shapes, ComputeVariable
  PROVE  Step(<<>>)
  <1>1. /\ Head(call.todo) \in TodoNodes /\ Head(call.todo).kind = "compute"
        /\ Head(call.todo).ref = Ref /\ IsNode(Head(call.todo))
        /\ call.pc = "probing" /\ call.todo # <<>>
    BY HeadNode DEF ComputeVariable
  <1>2. PICK v \in DOMAIN Locals : v = Ref
    BY <1>1 DEF IsNode, Plain, Local
  <1>3. Then(<<>>) /\ syschars' = syschars
    BY DEF ComputeVariable
  <1>4. /\ \A w \in DOMAIN Locals : w # v => memo'[w] = memo[w]
        /\ memo'[v] # <<>>
    <2>1. PICK good, saw : memo' = [memo EXCEPT ![v] = <<[good |-> good, saw |-> saw]>>]
      <3>1. CASE Locals[v].kind = "variable"
        BY <1>2, <3>1 DEF ComputeVariable
      <3>2. CASE Locals[v].kind # "variable"
        BY <1>2, <3>2 DEF ComputeVariable
      <3> QED BY <3>1, <3>2
    <2> QED BY <2>1 DEF Shapes
  <1>5. Kept
    <2>1. \A o : Ready(o)' = Ready(o)
      BY <1>3 DEF Ready
    <2>2. ASSUME NEW w \in Variables \cup {None}, Computed(w) PROVE Computed(w)'
      BY <1>4, <2>2 DEF Computed, Variables
    <2> QED BY <2>1, <2>2 DEF Kept
  <1>6. \A b : Awaits(b)' = Awaits(b)
    BY <1>3 DEF Awaits
  <1>7. \A w : ForVariable(Head(call.todo), w) => Computed(w)'
    BY <1>1, <1>2, <1>4 DEF ForVariable, Computed
  <1>8. \A o : ~ForObject(Head(call.todo), o)
    BY <1>1 DEF ForObject
  <1> QED BY <1>1, <1>3, <1>5, <1>6, <1>7, <1>8, NoNodes

\* In place of a set its members, then the set.
LEMMA CollectSetStep ==
  ASSUME CallOK, QueryOK, CollectSet
  PROVE  \E nodes : Step(nodes)
  <1>1. /\ Head(call.todo) \in TodoNodes /\ Head(call.todo).kind = "collect"
        /\ Head(call.todo).ref = Ref /\ IsNode(Head(call.todo))
        /\ call.pc = "probing" /\ call.todo # <<>>
    BY HeadNode DEF CollectSet
  <1>2. PICK h : h = Head(call.todo)
    OBVIOUS
  <1>3. PICK o \in DOMAIN Objects : o = Ref
    BY <1>1 DEF IsNode, Plain
  <1>4. UNCHANGED <<memo, syschars>>
    BY DEF CollectSet
  <1>5. Kept /\ \A b \in TodoNodes : Awaits(b) => Awaits(b)'
    BY <1>4, SameState
  <1>6. ~Plain(o) /\ Objects[o].members \in Seq(DOMAIN Objects)
        /\ \A m \in Range(Objects[o].members) : Plain(m)
    BY <1>3, ContentAssumption DEF CollectSet, MembersAsked, Plain
  <1>7. PICK asked : asked = [i \in 1 .. Len(Objects[o].members) |-> Node("member", Objects[o].members[i])]
    OBVIOUS
  <1>8. PICK last : last = <<Node("combine", o)>>
    OBVIOUS
  <1>9. PICK n \in Nat : n = Len(Objects[o].members)
    BY <1>6
  <1>10. /\ asked \in Seq(TodoNodes) /\ Len(asked) = n
         /\ \A k \in 1 .. n : asked[k].kind = "member" /\ Plain(asked[k].ref)
    <2>1. ASSUME NEW k \in 1 .. n
          PROVE  asked[k] \in TodoNodes /\ asked[k].kind = "member" /\ Plain(asked[k].ref)
      <3>1. asked[k] = Node("member", Objects[o].members[k]) /\ Plain(Objects[o].members[k])
        BY <1>6, <1>7, <1>9 DEF Range
      <3> QED BY <3>1 DEF TodoNodes, IsNode, Node, Plain
    <2>2. asked = [i \in 1 .. n |-> asked[i]]
      BY <1>7, <1>9
    <2> QED BY <2>1, <2>2, ListedNodes
  <1>11. PICK c : c = Node("combine", o)
    OBVIOUS
  <1>12. c \in TodoNodes /\ c.kind = "combine" /\ c.ref = o
    BY <1>6, <1>11 DEF TodoNodes, IsNode, Node
  <1>13. last \in Seq(TodoNodes) /\ Len(last) = 1 /\ last[1] = c
    BY <1>8, <1>11, <1>12, OneNode
  <1>14. PICK nodes : nodes = asked \o last
    OBVIOUS
  <1>15. /\ nodes \in Seq(TodoNodes) /\ DOMAIN nodes = 1 .. n + 1 /\ nodes[n + 1] = c
         /\ \A k \in 1 .. n : nodes[k] = asked[k]
    <2>1. /\ nodes \in Seq(TodoNodes) /\ DOMAIN nodes = 1 .. Len(asked) + Len(last)
          /\ \A k \in 1 .. Len(asked) : nodes[k] = asked[k]
          /\ \A k \in 1 .. Len(last) : nodes[Len(asked) + k] = last[k]
      <3>1. asked \in Seq(TodoNodes) /\ last \in Seq(TodoNodes)
        BY <1>10, <1>13
      <3>2. /\ asked \o last \in Seq(TodoNodes)
            /\ DOMAIN (asked \o last) = 1 .. Len(asked) + Len(last)
            /\ \A k \in 1 .. Len(asked) : (asked \o last)[k] = asked[k]
            /\ \A k \in 1 .. Len(last) : (asked \o last)[Len(asked) + k] = last[k]
        BY ONLY <3>1, JoinedNodes
      <3> QED BY ONLY <1>14, <3>2
    <2>2. nodes[n + 1] = last[1]
      BY <1>10, <1>13, <2>1
    <2> QED BY <1>10, <1>13, <2>1, <2>2
  <1>16. Then(nodes)
    <2>1. call.todo \in Seq(TodoNodes) /\ call.todo # <<>>
      BY <1>1 DEF CallOK
    <2>2. Tail(call.todo) \in Seq(TodoNodes)
      BY <2>1
    <2>3. call' = [call EXCEPT !.todo = asked \o last \o Tail(@)]
      BY <1>3, <1>7, <1>8 DEF CollectSet
    <2>4. asked \o last \o Tail(call.todo) = nodes \o Tail(call.todo)
      BY <1>14
    <2> QED BY <2>3, <2>4 DEF Then
  <1>17. \A k \in DOMAIN nodes : k <= n => nodes[k].kind = "member" /\ Plain(nodes[k].ref)
    BY <1>9, <1>10, <1>15
  <1>18. \A k \in DOMAIN nodes : k > n => k = n + 1 /\ nodes[k] = c
    BY <1>9, <1>15
  <1>19. ASSUME NEW b \in TodoNodes, MayPrecede(h, b), NEW a PROVE MayPrecede(a, b)
    <2>0. h.kind = "collect" /\ h.ref = o
      BY <1>1, <1>2, <1>3
    <2>1. \A w : ~BehindObject(w, o)
      BY <1>6, ContentAssumption DEF BehindObject, Local, Plain
    <2>2. b.kind \notin {"collect", "cache", "combine", "compute"}
      BY <1>6, <1>19, <2>0, <2>1 DEF MayPrecede
    <2> QED BY <2>2, PlainNodes DEF TodoNodes
  <1>20. Ordered(nodes)
    <2> SUFFICES ASSUME NEW i \in DOMAIN nodes, NEW j \in DOMAIN nodes, i < j
                 PROVE  MayPrecede(nodes[i], nodes[j])
      BY DEF Ordered
    <2>1. i <= n
      BY <1>9, <1>15
    <2>2. CASE j <= n
      BY <1>17, <2>2, PlainNodes
    <2>3. CASE j > n
      BY <1>12, <1>17, <1>18, <2>1, <2>3 DEF MayPrecede
    <2> QED BY <1>9, <1>15, <2>2, <2>3
  <1>21. WritesOK(nodes)'
    <2> SUFFICES ASSUME NEW i \in DOMAIN nodes, Writes(nodes[i])
                 PROVE  Awaits(nodes[i])' /\ Computed(VariableOf(nodes[i]))'
      BY DEF WritesOK
    <2>1. nodes[i] = c
      BY <1>9, <1>15, <1>17, <1>18 DEF Writes
    <2>2. Awaits(h) /\ Computed(VariableOf(h))
      BY <1>1, <1>2, HeadDue DEF CollectSet, Writes
    <2>3. Awaits(c)' /\ VariableOf(c) = VariableOf(h)
      <3>1. h.ref = c.ref
        BY <1>1, <1>2, <1>3, <1>12
      <3> QED BY <1>4, <2>2, <3>1 DEF Awaits, VariableOf
    <2>4. Computed(VariableOf(c))'
      BY <1>4, <2>2, <2>3 DEF Computed
    <2> QED BY <2>1, <2>3, <2>4
  <1>22. ComputesOK(nodes)' /\ \A k \in DOMAIN nodes : Final(nodes, k)
    <2>1. \A k \in DOMAIN nodes : nodes[k].kind # "compute"
      BY <1>9, <1>12, <1>15, <1>17, <1>18
    <2> QED BY <2>1 DEF ComputesOK, Final
  <1>23. n + 1 \in DOMAIN nodes /\ \A p : ForObject(h, p) => ForObject(nodes[n + 1], p)
    BY <1>1, <1>2, <1>3, <1>9, <1>12, <1>15 DEF ForObject
  <1>24. \A w : ~ForVariable(h, w)
    BY <1>1, <1>2 DEF ForVariable
  <1>25. Step(nodes)
    BY <1>1, <1>2, <1>5, <1>15, <1>16, <1>19, <1>20, <1>21, <1>22, <1>23, <1>24 DEF Step
  <1> QED BY <1>25

\* The newest instance gets what was found.
LEMMA FoundShape ==
  ASSUME Shapes, NEW o \in DOMAIN Objects, Started(syschars[o]), NEW got, Found(o, got)
  PROVE  /\ syschars' = [p \in DOMAIN Objects |-> syschars'[p]]
         /\ \A p \in DOMAIN Objects : p # o => syschars'[p] = syschars[p]
         /\ Instances(syschars'[o]) /\ Len(syschars'[o]) = Len(syschars[o])
         /\ DOMAIN syschars'[o] = DOMAIN syschars[o] /\ Started(syschars'[o])
         /\ \A i \in DOMAIN syschars[o] : i # Len(syschars[o]) => syschars'[o][i] = syschars[o][i]
         /\ Newest(syschars'[o]).inst = Newest(syschars[o]).inst
         /\ Newest(syschars'[o]).hint = Newest(syschars[o]).hint
         /\ Newest(syschars'[o]).flag = got.flag /\ Newest(syschars'[o]).saw = got.saw
  <1>1. /\ syschars = [p \in DOMAIN Objects |-> syschars[p]]
        /\ IsSeq(syschars[o]) /\ \A i \in DOMAIN syschars[o] : IsInstance(syschars[o][i])
    BY DEF Shapes
  <1>2. PICK s : s = syschars[o]
    OBVIOUS
  <1>3. PICK e : e = [s[Len(s)] EXCEPT !.flag = got.flag, !.saw = got.saw]
    OBVIOUS
  <1>4. PICK r : r = [s EXCEPT ![Len(s)] = e]
    OBVIOUS
  <1>5. syschars' = [syschars EXCEPT ![o] = r]
    BY <1>2, <1>3, <1>4 DEF Found
  <1>6. /\ syschars' = [p \in DOMAIN Objects |-> syschars'[p]]
        /\ \A p \in DOMAIN Objects : p # o => syschars'[p] = syschars[p]
        /\ syschars'[o] = r
    BY <1>1, <1>5
  <1>7. Len(s) \in DOMAIN s /\ IsSeq(s)
    BY <1>1, <1>2, SeqShape
  <1>8. IsSeq(r) /\ Len(r) = Len(s) /\ DOMAIN r = DOMAIN s
    <2>1. r = [i \in DOMAIN s |-> r[i]] /\ DOMAIN r = DOMAIN s
      BY <1>4, <1>7 DEF IsSeq
    <2> QED BY <1>7, <2>1, SameLength
  <1>9. \A i \in DOMAIN s : r[i] = IF i = Len(s) THEN e ELSE s[i]
    BY <1>4
  <1>10. e = [inst |-> s[Len(s)].inst, hint |-> s[Len(s)].hint, flag |-> got.flag, saw |-> got.saw]
         /\ IsInstance(e) /\ e.inst = s[Len(s)].inst /\ e.hint = s[Len(s)].hint
         /\ e.flag = got.flag /\ e.saw = got.saw
    <2>1. IsInstance(s[Len(s)])
      BY <1>1, <1>2, <1>7
    <2>2. e = [inst |-> s[Len(s)].inst, hint |-> s[Len(s)].hint, flag |-> got.flag, saw |-> got.saw]
      BY <1>3, <2>1 DEF IsInstance
    <2> QED BY <2>1, <2>2 DEF IsInstance
  <1>11. Instances(r)
    BY <1>1, <1>2, <1>8, <1>9, <1>10 DEF Instances
  <1>12. Newest(r) = e /\ Newest(s) = s[Len(s)] /\ Started(r)
    BY <1>7, <1>8, <1>9, SeqShape DEF Newest
  <1> QED BY <1>2, <1>6, <1>8, <1>9, <1>10, <1>11, <1>12

\* A node that has written what was found is done.
LEMMA FoundStep ==
  ASSUME CallOK, QueryOK, Shapes, NEW kind \in {"collect", "cache", "combine"}, At(kind),
         NEW got, got.flag # "unknown", Then(<<>>), Found(Ref, got), memo' = memo
  PROVE  Step(<<>>)
  <1>1. /\ Head(call.todo) \in TodoNodes /\ Head(call.todo).kind = kind
        /\ Head(call.todo).ref = Ref /\ IsNode(Head(call.todo))
        /\ call.pc = "probing" /\ call.todo # <<>>
    BY HeadNode
  <1>2. PICK h : h = Head(call.todo)
    OBVIOUS
  <1>3. PICK o \in DOMAIN Objects : o = Ref
    BY <1>1 DEF IsNode, Plain
  <1>4. Awaits(h) /\ h.kind = kind /\ h.ref = o /\ IsNode(h)
    BY <1>1, <1>2, <1>3, HeadDue DEF Writes
  <1>5. Started(syschars[o]) /\ ~Hinted(syschars[o]) /\ Newest(syschars[o]).flag = "unknown"
    BY <1>4 DEF Awaits
  <1>6. /\ \A p \in DOMAIN Objects : p # o => syschars'[p] = syschars[p]
        /\ Started(syschars'[o])
        /\ Newest(syschars'[o]).inst = Newest(syschars[o]).inst
        /\ Newest(syschars'[o]).hint = Newest(syschars[o]).hint
        /\ Newest(syschars'[o]).flag = got.flag
    BY <1>3, <1>5, FoundShape
  <1>7. Ready(o)'
    BY <1>5, <1>6 DEF Ready, Hinted
  <1>8. Kept
    <2>1. ASSUME NEW p \in DOMAIN Objects, Ready(p) PROVE Ready(p)'
      <3>1. p # o => syschars'[p] = syschars[p]
        BY <1>6
      <3> QED BY <1>7, <2>1, <3>1 DEF Ready
    <2>2. \A w : Computed(w)' = Computed(w)
      BY DEF Computed
    <2> QED BY <2>1, <2>2 DEF Kept
  <1>9. ASSUME NEW b \in TodoNodes, MayPrecede(h, b), Writes(b), Awaits(b)
        PROVE  Awaits(b)'
    <2>1. b.ref \in DOMAIN Objects /\ IsNode(b)
      BY <1>9 DEF TodoNodes, IsNode, Writes, Plain
    <2>2. b.ref # o
      <3>1. CASE b.kind \in {"collect", "cache"}
        <4>1. BehindObject(VariableOf(b), o)
          BY <1>4, <1>9, <3>1 DEF MayPrecede
        <4>2. Local(VariableOf(b)) /\ Objects[o].variable \in External \cup {None}
          BY <4>1, ContentAssumption DEF BehindObject, Local
        <4>3. VariableOf(b) # None
          BY <4>2, ContentAssumption DEF Local, Variables
        <4> QED BY <4>2, <4>3 DEF Local, VariableOf
      <3>2. CASE b.kind = "combine"
        <4>1. Plain(o)
          BY <1>4, <1>9, <3>2 DEF MayPrecede, Writes
        <4>2. ~Plain(b.ref)
          BY <2>1, <3>2 DEF IsNode
        <4> QED BY <4>1, <4>2
      <3> QED BY <1>9, <3>1, <3>2 DEF Writes
    <2>3. syschars'[b.ref] = syschars[b.ref]
      BY <1>6, <2>1, <2>2
    <2> QED BY <1>9, <2>3 DEF Awaits
  <1>10. \A p : ForObject(h, p) => Ready(p)'
    BY <1>4, <1>7 DEF ForObject
  <1>11. \A w : ~ForVariable(h, w)
    BY <1>4 DEF ForVariable
  <1> QED BY <1>1, <1>2, <1>8, <1>9, <1>10, <1>11, NoNodes

\* A probe never answers that it does not know.
LEMMA CollectedKnows ==
  ASSUME Cached, NEW o \in DOMAIN Objects
  PROVE  Collected(o).flag # "unknown"
  <1>1. CASE rcache[o] # None
    <2>1. Collected(o) = rcache[o]
      BY <1>1 DEF Collected
    <2> QED BY <1>1, <2>1 DEF Cached
  <1>2. CASE rcache[o] = None /\ \E m \in Range(Objects[o].members) : rcache[m] = None
    <2>1. Collected(o) = [flag |-> "error", saw |-> {}]
      BY <1>2 DEF Collected
    <2> QED BY <2>1
  <1>3. CASE rcache[o] = None /\ ~\E m \in Range(Objects[o].members) : rcache[m] = None
    <2>1. PICK saw : Collected(o) = [flag |-> "complete", saw |-> saw]
      BY <1>3 DEF Collected
    <2> QED BY <2>1
  <1> QED BY <1>1, <1>2, <1>3

\* Whatever the probe answers is written,
LEMMA CollectStep ==
  ASSUME CallOK, QueryOK, Shapes, Cached, Collect
  PROVE  Step(<<>>)
  <1>1. PICK kind \in {"collect", "combine"} : At(kind)
    BY DEF Collect
  <1>2. Ref \in DOMAIN Objects
    BY <1>1, HeadNode DEF IsNode, Plain
  <1>3. Collected(Ref).flag # "unknown"
    BY <1>2, CollectedKnows
  <1>4. Then(<<>>) /\ Found(Ref, Collected(Ref)) /\ memo' = memo
    BY DEF Collect
  <1> QED BY <1>1, <1>3, <1>4, FoundStep

\* and so is that there is nothing to ask;
LEMMA NothingToSendStep ==
  ASSUME CallOK, QueryOK, Shapes, NothingToSend
  PROVE  Step(<<>>)
  <1>1. PICK kind \in {"collect", "cache"} : At(kind)
    BY DEF NothingToSend
  <1>2. PICK got : got = [flag |-> "does_not_exist", saw |-> Seen(Objects[Ref].variable)]
    OBVIOUS
  <1>3. Then(<<>>) /\ Found(Ref, got) /\ memo' = memo /\ got.flag # "unknown"
    BY <1>2 DEF NothingToSend
  <1> QED BY <1>1, <1>3, FoundStep

\* a member that the probe keeps need not be written.
LEMMA CacheMemberStep ==
  ASSUME CallOK, QueryOK, CacheMember
  PROVE  Step(<<>>)
  <1>1. /\ Head(call.todo).kind = "cache" /\ call.pc = "probing" /\ call.todo # <<>>
    BY HeadNode DEF CacheMember
  <1>2. Then(<<>>) /\ UNCHANGED <<memo, syschars>>
    BY DEF CacheMember
  <1>3. Kept /\ \A b \in TodoNodes : Awaits(b) => Awaits(b)'
    BY <1>2, SameState
  <1>4. \A o : ~ForObject(Head(call.todo), o) /\ ~ForVariable(Head(call.todo), o)
    BY <1>1 DEF ForObject, ForVariable
  <1> QED BY <1>1, <1>2, <1>3, <1>4, NoNodes

-----------------------------------------------------------------------------
(* Calls.                                                                  *)

\* A query begins with all of its definition still to do.
LEMMA AskDefinition ==
  ASSUME NEW defs \in Seq(Definitions), defs # <<>>, NEW file, NEW acc,
         call' = Probing(defs, file, acc)
  PROVE  CallOK' /\ QueryOK' /\ call'.pc = "probing" /\ call'.defs = defs
  <1>1. PICK d \in Definitions : d = defs[1]
    OBVIOUS
  <1>2. PICK n : n = Node("extend", d)
    OBVIOUS
  <1>3. n.kind = "extend" /\ n.ref = d /\ n \in TodoNodes
    BY <1>2 DEF Node, TodoNodes, IsNode
  <1>4. PICK todo : todo = <<n>>
    OBVIOUS
  <1>5. todo \in Seq(TodoNodes) /\ DOMAIN todo = 1 .. 1 /\ todo[1] = n
    BY <1>3, <1>4, OneNode
  <1>6. /\ call' = [pc |-> "probing", defs |-> defs, todo |-> todo, file |-> file,
                    acc |-> acc, result |-> "none"]
        /\ call'.pc = "probing" /\ call'.defs = defs /\ call'.todo = todo
    BY <1>1, <1>2, <1>4 DEF Probing, Idle
  <1>7. CallOK'
    BY <1>5, <1>6 DEF CallOK
  <1>8. Ordered(todo) /\ WritesOK(todo)' /\ ComputesOK(todo)'
    BY <1>3, <1>5 DEF Ordered, WritesOK, ComputesOK, Writes
  <1>9. Covered(d, todo)'
    <2>1. Final(todo, 1)
      BY <1>5 DEF Final
    <2>2. ASSUME NEW t \in TestsOf(d)
          PROVE  ForObject(n, Tests[t].object) /\ ForVariable(n, Tests[t].variable)
      BY <1>3 DEF ForObject, ForVariable, ObjectsOf
    <2>3. 1 \in DOMAIN todo /\ todo[1] = n
      BY <1>5
    <2> QED BY <2>1, <2>2, <2>3 DEF Covered
  <1>10. Subject' = d
    BY <1>1, <1>6 DEF Subject
  <1>11. QueryOK'
    BY <1>6, <1>8, <1>9, <1>10 DEF QueryOK
  <1> QED BY <1>6, <1>7, <1>11

\* No query, nothing left of one.
LEMMA NothingToDo ==
  ASSUME call'.todo = <<>>, call'.pc # "probing"
  PROVE  QueryOK'
  <1>1. PICK todo : todo = call'.todo
    OBVIOUS
  <1>2. DOMAIN todo = {}
    BY <1>1
  <1>3. Ordered(todo) /\ WritesOK(todo)' /\ ComputesOK(todo)'
    BY <1>2 DEF Ordered, WritesOK, ComputesOK
  <1> QED BY <1>1, <1>3 DEF QueryOK

\* A call that has returned,
LEMMA ReturnedCall ==
  ASSUME NEW r, call' = Returned(r)
  PROVE  CallOK' /\ QueryOK' /\ call'.pc = "returned"
  <1>1. /\ call' = [pc |-> "returned", defs |-> <<>>, todo |-> <<>>, file |-> FALSE,
                    acc |-> "none", result |-> r]
        /\ call'.pc = "returned" /\ call'.todo = <<>>
    BY DEF Returned, Idle
  <1>2. CallOK'
    BY <1>1 DEF CallOK
  <1> QED BY <1>1, <1>2, NothingToDo

\* and no call.
LEMMA IdleCall ==
  ASSUME call' = Idle
  PROVE  CallOK' /\ QueryOK' /\ call'.pc = "idle"
  <1>1. /\ call' = [pc |-> "idle", defs |-> <<>>, todo |-> <<>>, file |-> FALSE,
                    acc |-> "none", result |-> "none"]
        /\ call'.pc = "idle" /\ call'.todo = <<>>
    BY DEF Idle
  <1>2. CallOK'
    BY <1>1 DEF CallOK
  <1> QED BY <1>1, <1>2, NothingToDo

\* The answer of a definition: the next one of a file is asked for, or the
\* call returns.
LEMMA ContinueCall ==
  ASSUME CallOK, call.pc = "evaluated", NEW r, call' = Continue(r)
  PROVE  CallOK' /\ QueryOK' /\ call'.pc # "evaluated"
  <1>1. PICK acc : acc = IF call.acc = "none" THEN r ELSE _resolve_operation(call.acc, r, "AND")
    OBVIOUS
  <1>2. CASE call.file /\ Len(call.defs) > 1
    <2>1. call' = Probing(Tail(call.defs), TRUE, acc)
      BY <1>1, <1>2 DEF Continue
    <2>2. PICK defs : defs = call.defs
      OBVIOUS
    <2>3. defs \in Seq(Definitions) /\ Len(defs) > 1
      BY <1>2, <2>2 DEF CallOK
    <2>4. Tail(defs) \in Seq(Definitions) /\ Tail(defs) # <<>>
      BY <2>3
    <2> QED BY <2>1, <2>2, <2>4, AskDefinition
  <1>3. CASE ~(call.file /\ Len(call.defs) > 1)
    <2>1. \E q : call' = Returned(q)
      BY <1>1, <1>3 DEF Continue
    <2> QED BY <2>1, ReturnedCall
  <1> QED BY <1>2, <1>3

\* A variable made of an object whose collection fails is computed without
\* it; any other failure ends the query, or the query goes on without it.
LEMMA CollectFailsCall ==
  ASSUME CallOK, QueryOK, Shapes, CollectFails
  PROVE  /\ CallOK' /\ QueryOK' /\ call'.pc \in {"probing", "returned"}
         /\ call'.pc = "probing" => call'.defs = call.defs
         /\ \/ memo' = memo
            \/ \E v \in DOMAIN Locals :
                 memo' = [memo EXCEPT ![v] = <<[good |-> FALSE, saw |-> {}]>>]
  <1>1. PICK kind \in {"collect", "combine"} : At(kind)
    BY DEF CollectFails
  <1>2. /\ Head(call.todo).kind = kind /\ call.pc = "probing" /\ call.todo # <<>>
        /\ 1 \in DOMAIN call.todo /\ call.todo[1] = Head(call.todo)
    BY <1>1, HeadNode
  <1>3. PICK old : old = call.todo
    OBVIOUS
  <1>4. PICK rest : rest = Tail(old)
    OBVIOUS
  <1>5. old \in Seq(TodoNodes) /\ old # <<>> /\ rest \in Seq(TodoNodes)
    BY <1>2, <1>3, <1>4 DEF CallOK
  <1>6. CASE ~(rest # <<>> /\ rest[1].kind = "compute")
    <2>1. (Abandon \/ Then(<<>>)) /\ memo' = memo /\ syschars' = syschars
      BY <1>3, <1>4, <1>6 DEF CollectFails
    <2>2. CASE Abandon
      <3>1. \E r : call' = Returned(r)
        BY <2>2 DEF Abandon
      <3> QED BY <2>1, <3>1, ReturnedCall
    <2>3. CASE Then(<<>>)
      <3>1. Step(<<>>)
        <4>1. PICK o : o = Head(call.todo).ref
          OBVIOUS
        <4>2. Ready(o)'
          BY <1>1, <1>2, <2>1, <4>1, HeadDue DEF Writes, Awaits, Ready
        <4>4. \A p : ForObject(Head(call.todo), p) => Ready(p)'
          BY <1>2, <4>1, <4>2 DEF ForObject
        <4>3. \A w : ~ForVariable(Head(call.todo), w)
          BY <1>2 DEF ForVariable
        <4> QED BY <1>2, <2>1, <2>3, <4>3, <4>4, SameState, NoNodes
      <3> QED BY <2>1, <3>1, StepKeepsQuery
    <2> QED BY <2>1, <2>2, <2>3
  <1>7. CASE rest # <<>> /\ rest[1].kind = "compute"
    <2>1. PICK new : new = Tail(rest)
      OBVIOUS
    <2>2. /\ memo' = [memo EXCEPT ![rest[1].ref] = <<[good |-> FALSE, saw |-> {}]>>]
          /\ call' = [call EXCEPT !.todo = new] /\ syschars' = syschars
      BY <1>3, <1>4, <1>7, <2>1 DEF CollectFails
    <2>3. /\ new \in Seq(TodoNodes) /\ DOMAIN new = 1 .. Len(new) /\ DOMAIN old = 1 .. Len(new) + 2
          /\ Len(new) \in Nat /\ rest[1] = old[2]
          /\ \A k \in DOMAIN new : k + 2 \in DOMAIN old /\ new[k] = old[k + 2]
      <3>1. /\ Len(rest) \in Nat /\ Len(rest) >= 1 /\ Len(old) = Len(rest) + 1
            /\ \A k \in 1 .. Len(rest) : rest[k] = old[k + 1]
        BY <1>4, <1>5, <1>7
      <3>2. /\ new \in Seq(TodoNodes) /\ Len(rest) = Len(new) + 1 /\ Len(new) \in Nat
            /\ \A k \in 1 .. Len(new) : new[k] = rest[k + 1]
        BY <1>5, <1>7, <2>1, <3>1
      <3>3. \A k \in 1 .. Len(new) : new[k] = old[k + 2]
        BY <3>1, <3>2
      <3> QED BY <1>5, <3>1, <3>2, <3>3
    <2>4. PICK v : v = old[2].ref
      OBVIOUS
    <2>5. /\ \A k \in DOMAIN old : old[k] \in TodoNodes
          /\ 1 \in DOMAIN old /\ 2 \in DOMAIN old /\ old[2].kind = "compute" /\ old[1].kind = kind
      BY <1>2, <1>3, <1>5, <1>7, <2>3, SeqElement
    <2>6. Local(v) /\ v \in DOMAIN Locals
      BY <2>4, <2>5 DEF TodoNodes, IsNode, Local
    <2>7. /\ call' = [pc |-> call.pc, defs |-> call.defs, todo |-> new, file |-> call.file,
                      acc |-> call.acc, result |-> call.result]
          /\ call'.todo = new /\ call'.pc = "probing" /\ call'.defs = call.defs
      BY <1>2, <2>2 DEF CallOK
    <2>8. CallOK'
      <3>1. call.defs \in Seq(Definitions) /\ call.defs # <<>>
        BY <1>2 DEF CallOK
      <3> QED BY <2>3, <2>7, <3>1 DEF CallOK
    <2>9. /\ memo' = [memo EXCEPT ![v] = <<[good |-> FALSE, saw |-> {}]>>]
          /\ Computed(v)' /\ \A w \in Variables \cup {None} : Computed(w) => Computed(w)'
      <3>1. memo' = [memo EXCEPT ![v] = <<[good |-> FALSE, saw |-> {}]>>]
        BY <2>2, <2>3, <2>4
      <3>2. memo'[v] # <<>> /\ \A w \in DOMAIN Locals : w # v => memo'[w] = memo[w]
        BY <2>6, <3>1 DEF Shapes
      <3> QED BY <3>1, <3>2 DEF Computed, Variables
    <2>10. /\ Ordered(old) /\ WritesOK(old) /\ ComputesOK(old) /\ Covered(Subject, old)
      BY <1>2, <1>3 DEF QueryOK
    <2>11. Ordered(new)
      BY <2>3, <2>10 DEF Ordered
    <2>12. /\ \A w : ~ForVariable(old[1], w) /\ (ForVariable(old[2], w) => w = v)
           /\ \A o : ~ForObject(old[2], o)
      BY <2>4, <2>5 DEF ForVariable, ForObject
    <2>13. WritesOK(new)'
      <3> SUFFICES ASSUME NEW i \in DOMAIN new, Writes(new[i])
                   PROVE  /\ Awaits(new[i])'
                          /\ \/ Computed(VariableOf(new[i]))'
                             \/ \E j \in 1 .. i - 1 : ForVariable(new[j], VariableOf(new[i]))
        BY DEF WritesOK
      <3>1. i + 2 \in DOMAIN old /\ old[i + 2] = new[i]
        BY <2>3
      <3>2. /\ Awaits(new[i])
            /\ \/ Computed(VariableOf(new[i]))
               \/ \E j \in 1 .. i + 1 : ForVariable(old[j], VariableOf(new[i]))
        <4>1. \A j : j \in 1 .. i + 1 <=> j \in 1 .. (i + 2) - 1
          BY <2>3
        <4> QED BY <2>10, <3>1, <4>1 DEF WritesOK
      <3>3. Awaits(new[i])'
        BY <2>2, <3>2 DEF Awaits
      <3>4. VariableOf(new[i]) \in Variables \cup {None}
        <4>1. new[i].ref \in DOMAIN Objects
          BY <2>5, <3>1 DEF TodoNodes, IsNode, Writes, Plain
        <4> QED BY <4>1, ContentAssumption DEF VariableOf
      <3>5. ASSUME NEW j \in 1 .. i + 1, ForVariable(old[j], VariableOf(new[i]))
            PROVE  \/ Computed(VariableOf(new[i]))'
                   \/ \E k \in 1 .. i - 1 : ForVariable(new[k], VariableOf(new[i]))
        <4>1. CASE j <= 2
          BY <2>3, <2>9, <2>12, <3>5, <4>1
        <4>2. CASE j > 2
          <5>1. j - 2 \in 1 .. i - 1 /\ j - 2 \in DOMAIN new /\ new[j - 2] = old[j]
            BY <2>3, <4>2
          <5> QED BY <3>5, <5>1
        <4> QED BY <2>3, <4>1, <4>2
      <3> QED BY <2>9, <3>2, <3>3, <3>4, <3>5
    <2>14. ComputesOK(new)'
      <3>1. ASSUME NEW i \in DOMAIN new PROVE new[i].kind # "compute"
        <4>1. MayPrecede(old[2], new[i])
          BY <2>3, <2>5, <2>10 DEF Ordered
        <4> QED BY <2>5, <4>1 DEF MayPrecede
      <3> QED BY <3>1 DEF ComputesOK
    <2>15. ASSUME NEW i \in DOMAIN old, i > 2, Final(old, i)
           PROVE  i - 2 \in DOMAIN new /\ new[i - 2] = old[i] /\ Final(new, i - 2)
      BY <2>3, <2>15 DEF Final
    <2>16. ~Final(old, 1)
      BY <2>5 DEF Final
    <2>17. Covered(Subject, new)'
      <3>0. Subject' = Subject
        BY <2>7 DEF Subject
      <3>1. Subject \in Definitions
        <4>1. call.defs \in Seq(Definitions) /\ call.defs # <<>>
          BY <1>2 DEF CallOK
        <4> QED BY <4>1 DEF Subject
      <3> SUFFICES ASSUME NEW t \in TestsOf(Subject)
                   PROVE  /\ \/ Ready(Tests[t].object)'
                             \/ \E i \in DOMAIN new : Final(new, i) /\ ForObject(new[i], Tests[t].object)
                          /\ \/ Computed(Tests[t].variable)'
                             \/ \E i \in DOMAIN new : Final(new, i) /\ ForVariable(new[i], Tests[t].variable)
        BY <3>0 DEF Covered
      <3>2. /\ \/ Ready(Tests[t].object)
               \/ \E i \in DOMAIN old : Final(old, i) /\ ForObject(old[i], Tests[t].object)
            /\ \/ Computed(Tests[t].variable)
               \/ \E i \in DOMAIN old : Final(old, i) /\ ForVariable(old[i], Tests[t].variable)
        BY <2>10 DEF Covered
      <3>3. Tests[t].variable \in Variables \cup {None}
        BY <3>1, VariablesShape, ContentAssumption
      <3>4. Ready(Tests[t].object)' = Ready(Tests[t].object)
        BY <2>2 DEF Ready
      <3>5. ASSUME NEW i \in DOMAIN old, Final(old, i), ForObject(old[i], Tests[t].object)
            PROVE  \E k \in DOMAIN new : Final(new, k) /\ ForObject(new[k], Tests[t].object)
        <4>1. i > 2
          BY <2>3, <2>12, <2>16, <3>5
        <4> QED BY <2>15, <3>5, <4>1
      <3>6. ASSUME NEW i \in DOMAIN old, Final(old, i), ForVariable(old[i], Tests[t].variable)
            PROVE  \/ Computed(Tests[t].variable)'
                   \/ \E k \in DOMAIN new : Final(new, k) /\ ForVariable(new[k], Tests[t].variable)
        <4>1. CASE i <= 2
          BY <2>3, <2>9, <2>12, <3>6, <4>1
        <4>2. CASE i > 2
          BY <2>15, <3>6, <4>2
        <4> QED BY <2>3, <4>1, <4>2
      <3> QED BY <2>9, <3>2, <3>3, <3>4, <3>5, <3>6
    <2>18. QueryOK'
      BY <2>7, <2>11, <2>13, <2>14, <2>17 DEF QueryOK
    <2> QED BY <2>6, <2>7, <2>8, <2>9, <2>18
  <1> QED BY <1>6, <1>7

-----------------------------------------------------------------------------
(* The instance of a definition and what is made with it.                  *)

Start == [rdefs |-> rdefs, rtests |-> rtests, refs |-> <<>>]
Extend(a, d, i) ==
  IF Nodes(d)[i].kind = "test" THEN AddTest(a, Nodes(d)[i].ref, Number(d))
  ELSE AddExtended(a, Nodes(d)[i].ref, Number(d))
IsMade(g, d, n) ==
  g = [i \in 0 .. n |-> IF i = 0 THEN Start ELSE Extend(g[i - 1], d, i)]

\* A set of numbers has a smallest one.
LEMMA Smallest ==
  ASSUME NEW T, T \subseteq Nat, T # {}
  PROVE  \E x \in T : \A y \in T : x <= y
  <1>1. PICK R : R = {ss \in Nat \X Nat : ss[1] < ss[2]}
    OBVIOUS
  <1>2. IsWellFoundedOn(R, Nat)
    BY <1>1, NatLessThanWellFounded DEF OpToRel
  <1>3. PICK x \in T : \A y \in T : ~(<<y, x>> \in R)
    BY ONLY T \subseteq Nat, T # {}, <1>2, WFMin, Zenon
  <1>4. \A y \in T : ~(y < x)
    BY <1>1, <1>3
  <1> QED BY <1>4

\* make_result_criteria_node_from_oval_criteria_node comes to an end: the
\* recursion over the nodes defines a function.
LEMMA MadeExists ==
  ASSUME NEW d, NEW n \in Nat
  PROVE  \E g : IsMade(g, d, n)
  <1> DEFINE bad == {m \in Nat : ~ \E g : IsMade(g, d, m)}
  <1>1. SUFFICES ASSUME bad # {}
                 PROVE  FALSE
    OBVIOUS
  <1>2. PICK m \in bad : \A k \in bad : m <= k
    <2>1. bad \subseteq Nat
      OBVIOUS
    <2> HIDE DEF bad
    <2> QED BY <1>1, <2>1, Smallest
  <1>3. m \in Nat /\ \A k \in 0 .. m - 1 : \E g : IsMade(g, d, k)
    BY <1>2
  <1>4. CASE m = 0
    <2>1. IsMade([i \in 0 .. 0 |-> Start], d, 0)
      BY DEF IsMade
    <2> QED BY <1>2, <1>4, <2>1
  <1>5. CASE m # 0
    <2>1. PICK g : IsMade(g, d, m - 1)
      BY <1>2, <1>3, <1>5
    <2>2. PICK h : h = [i \in 0 .. m |-> IF i = m THEN Extend(g[m - 1], d, m) ELSE g[i]]
      OBVIOUS
    <2>3. \A i \in 0 .. m - 1 : h[i] = g[i] /\ g[i] = IF i = 0 THEN Start ELSE Extend(g[i - 1], d, i)
      BY <1>2, <2>1, <2>2 DEF IsMade
    <2>4. \A i \in 0 .. m : h[i] = IF i = 0 THEN Start ELSE Extend(h[i - 1], d, i)
      BY <1>2, <1>5, <2>2, <2>3
    <2>5. h = [i \in 0 .. m |-> IF i = 0 THEN Start ELSE Extend(h[i - 1], d, i)]
      BY <2>2, <2>4
    <2> QED BY <1>2, <2>5 DEF IsMade
  <1> QED BY <1>4, <1>5

\* MadeFor is that function.
LEMMA MadeForIsMade ==
  ASSUME NEW d \in Definitions
  PROVE  IsMade(MadeFor(d), d, Len(Nodes(d)))
  <1>1. \E g : IsMade(g, d, Len(Nodes(d)))
    BY NodesShape, MadeExists
  <1>2. MadeFor(d) = CHOOSE g : IsMade(g, d, Len(Nodes(d)))
    BY DEF MadeFor, IsMade, Extend, Start
  <1> QED BY <1>1, <1>2

\* Results of tests are only added, and added ones have not been evaluated.
Longer(new, old) ==
  /\ IsSeq(new) /\ IsSeq(old) /\ Len(old) <= Len(new)
  /\ \A i \in DOMAIN new : IsTest(new[i])
  /\ \A i \in DOMAIN old : i \in DOMAIN new /\ new[i] = old[i]
  /\ \A i \in DOMAIN new : i > Len(old) => new[i].result = "noteval" /\ new[i].saw = {}
Growing(tests) ==
  /\ tests = [t \in DOMAIN Tests |-> tests[t]]
  /\ \A t \in DOMAIN Tests : Longer(tests[t], rtests[t])

\* A result for instance n: a new one, or the last one with that number.
RefFor(tests, t, r, n) ==
  /\ r \in DOMAIN tests[t]
  /\ r > Len(rtests[t]) \/ (r = Len(rtests[t]) /\ Newest(rtests[t]).inst = n)

\* Tests that get a result for an instance have it, and keep those they had.
LEMMA AddTestsShape ==
  ASSUME NEW tests, Growing(tests), NEW S \in SUBSET (DOMAIN Tests), NEW k \in Nat
  PROVE  /\ Growing(AddTests(tests, S, k))
         /\ \A t \in DOMAIN Tests : DOMAIN tests[t] \subseteq DOMAIN AddTests(tests, S, k)[t]
         /\ \A t \in DOMAIN Tests \ S : AddTests(tests, S, k)[t] = tests[t]
         /\ \A t \in S : /\ Started(AddTests(tests, S, k)[t])
                         /\ Newest(AddTests(tests, S, k)[t]).inst = k
                         /\ Len(AddTests(tests, S, k)[t]) \in Nat
                         /\ RefFor(AddTests(tests, S, k), t, Len(AddTests(tests, S, k)[t]), k)
  <1>1. PICK new : new = AddTests(tests, S, k)
    OBVIOUS
  <1>2. PICK e : e = NewTest(k)
    OBVIOUS
  <1>3. IsTest(e) /\ e.inst = k /\ e.result = "noteval" /\ e.saw = {}
    BY <1>2 DEF NewTest, IsTest
  <1>4. /\ new = [t \in DOMAIN Tests |-> new[t]]
        /\ \A t \in DOMAIN Tests : new[t] =
             IF t \notin S \/ (Started(tests[t]) /\ Newest(tests[t]).inst = k) THEN tests[t]
             ELSE Append(tests[t], e)
    BY <1>1, <1>2 DEF AddTests
  <1>5. ASSUME NEW t \in DOMAIN Tests
        PROVE  /\ Longer(new[t], rtests[t]) /\ DOMAIN tests[t] \subseteq DOMAIN new[t]
               /\ t \notin S => new[t] = tests[t]
               /\ t \in S => /\ Started(new[t]) /\ Newest(new[t]).inst = k /\ Len(new[t]) \in Nat
                             /\ Len(new[t]) \in DOMAIN new[t]
                             /\ (Len(new[t]) > Len(rtests[t])
                                 \/ (Len(new[t]) = Len(rtests[t]) /\ Newest(rtests[t]).inst = k))
    <2>0. PICK old : old = rtests[t]
      OBVIOUS
    <2>1. Longer(tests[t], old) /\ IsSeq(tests[t]) /\ Len(tests[t]) \in Nat /\ Len(old) \in Nat
          /\ DOMAIN tests[t] = 1 .. Len(tests[t]) /\ DOMAIN old = 1 .. Len(old)
      BY <2>0, SeqShape DEF Growing, Longer
    <2>2. CASE new[t] = tests[t]
      <3>1. ASSUME t \in S
            PROVE  /\ Started(new[t]) /\ Newest(new[t]).inst = k /\ Len(new[t]) \in DOMAIN new[t]
                   /\ Len(new[t]) > Len(old) \/ (Len(new[t]) = Len(old) /\ Newest(old).inst = k)
        <4>1. (Started(tests[t]) /\ Newest(tests[t]).inst = k) \/ tests[t] = Append(tests[t], e)
          BY <1>4, <2>2, <3>1
        <4>2. tests[t] # Append(tests[t], e)
          BY <2>1, Appended
        <4>3. Len(tests[t]) \in DOMAIN tests[t]
          BY <2>1, <4>1, <4>2, SeqShape
        <4>4. Len(tests[t]) = Len(old) => Newest(old) = Newest(tests[t])
          BY <2>1, <4>3 DEF Newest, Longer
        <4> QED BY <2>1, <2>2, <4>1, <4>2, <4>3, <4>4 DEF Longer
      <3> QED BY <2>0, <2>1, <2>2, <3>1
    <2>3. CASE t \in S /\ new[t] = Append(tests[t], e)
      <3>1. PICK r : r = new[t]
        OBVIOUS
      <3>2. /\ IsSeq(r) /\ Len(r) = Len(tests[t]) + 1
            /\ DOMAIN r = DOMAIN tests[t] \cup {Len(tests[t]) + 1}
            /\ \A i \in DOMAIN tests[t] : r[i] = tests[t][i]
            /\ r[Len(tests[t]) + 1] = e /\ Newest(r) = e /\ Started(r)
        BY <2>1, <2>3, <3>1, Appended
      <3>3. Longer(r, old)
        BY <1>3, <2>1, <3>2 DEF Longer
      <3> QED BY <1>3, <2>0, <2>1, <2>3, <3>1, <3>2, <3>3 DEF Longer
    <2> QED BY <1>4, <2>2, <2>3
  <1>6. Growing(new)
    BY <1>4, <1>5 DEF Growing
  <1> QED BY <1>1, <1>5, <1>6 DEF RefFor

\* What is made for an instance n of definition d.
NewResult(tests, d, n, rd) ==
  /\ IsDefinition(rd) /\ rd.inst = n /\ rd.hint = n /\ rd.result = "noteval"
  /\ DOMAIN rd.refs = DOMAIN Nodes(d)
  /\ \A k \in DOMAIN Nodes(d) : Nodes(d)[k].kind = "test" =>
       RefFor(tests, Nodes(d)[k].ref, rd.refs[k], n)
Pending(d) == ~Started(rdefs[d]) \/ Hinted(rdefs[d])
Added(tests, defs, d) ==
  /\ Pending(d)
  /\ \E n \in Nat : \E rd : /\ Hinted(rdefs[d]) => n = Newest(rdefs[d]).hint
                  /\ NewResult(tests, d, n, rd) /\ defs[d] = Append(rdefs[d], rd)

\* While the references of definition s are made, i of them so far.
Making(a, s, i) ==
  /\ a = [rdefs |-> a.rdefs, rtests |-> a.rtests, refs |-> a.refs]
  /\ Growing(a.rtests) /\ a.rdefs = [d \in Definitions |-> a.rdefs[d]]
  /\ \A d \in Definitions :
       a.rdefs[d] = rdefs[d] \/ (d \in ExtendedBy(s) /\ Added(a.rtests, a.rdefs, d))
  /\ IsSeq(a.refs) /\ Len(a.refs) = i /\ Range(a.refs) \subseteq Nat
  /\ \A k \in 1 .. i :
       IF Nodes(s)[k].kind = "test" THEN RefFor(a.rtests, Nodes(s)[k].ref, a.refs[k], Number(s))
       ELSE LET e == Nodes(s)[k].ref
            IN Started(a.rdefs[e]) /\ ~Hinted(a.rdefs[e]) /\ a.refs[k] = Len(a.rdefs[e])
  /\ \A t \in DOMAIN Tests : Started(a.rtests[t]) =>
       \/ t \in DirectTests(s) /\ Newest(a.rtests[t]).inst <= Number(s)
       \/ \E d \in Definitions : /\ t \in DirectTests(d) /\ Started(a.rdefs[d])
                                 /\ Newest(a.rtests[t]).inst <= Newest(a.rdefs[d]).inst

\* The number of the next instance.
LEMMA NumberType ==
  ASSUME Shapes, NEW d \in Definitions, NEW k \in Nat
  PROVE  /\ NextInstance(rdefs[d], k) \in Nat /\ Number(d) \in Nat
         /\ Hinted(rdefs[d]) => /\ NextInstance(rdefs[d], k) = Newest(rdefs[d]).hint
                                /\ Number(d) = Newest(rdefs[d]).hint
         /\ Started(rdefs[d]) => /\ Len(rdefs[d]) \in DOMAIN rdefs[d] /\ IsDefinition(Newest(rdefs[d]))
                                 /\ Newest(rdefs[d]).inst \in Nat
                                 /\ Newest(rdefs[d]).hint \in {Newest(rdefs[d]).inst, Newest(rdefs[d]).inst + 1}
  <1>1. IsSeq(rdefs[d]) /\ \A i \in DOMAIN rdefs[d] : IsDefinition(rdefs[d][i])
    BY DEF Shapes
  <1>2. Started(rdefs[d]) => Len(rdefs[d]) \in DOMAIN rdefs[d] /\ IsDefinition(Newest(rdefs[d]))
    BY <1>1, SeqShape DEF Newest
  <1> QED BY <1>2 DEF Number, NextInstance, Hinted, IsDefinition

\* A definition with a new instance is neither missing nor hinted away.
LEMMA AddedResult ==
  ASSUME Shapes, NEW d \in Definitions, NEW tests, NEW defs, Added(tests, defs, d)
  PROVE  /\ Started(defs[d]) /\ ~Hinted(defs[d]) /\ DefinitionResults(defs[d])
         /\ Len(defs[d]) = Len(rdefs[d]) + 1 /\ DOMAIN defs[d] = DOMAIN rdefs[d] \cup {Len(rdefs[d]) + 1}
         /\ \A i \in DOMAIN rdefs[d] : defs[d][i] = rdefs[d][i]
         /\ Newest(defs[d]).inst \in Nat
         /\ Started(rdefs[d]) => Newest(rdefs[d]).inst <= Newest(defs[d]).inst
         /\ Hinted(rdefs[d]) => Newest(defs[d]).inst = Newest(rdefs[d]).hint
         /\ NewResult(tests, d, Newest(defs[d]).inst, Newest(defs[d]))
  <1>1. PICK n, rd : /\ n \in Nat /\ (Hinted(rdefs[d]) => n = Newest(rdefs[d]).hint)
                    /\ NewResult(tests, d, n, rd) /\ defs[d] = Append(rdefs[d], rd)
    BY DEF Added
  <1>2. IsDefinition(rd) /\ rd.inst = n /\ rd.hint = n
    BY <1>1 DEF NewResult
  <1>3. IsSeq(rdefs[d]) /\ \A i \in DOMAIN rdefs[d] : IsDefinition(rdefs[d][i])
    BY DEF Shapes
  <1>4. PICK r : r = defs[d]
    OBVIOUS
  <1>5. /\ IsSeq(r) /\ Len(r) = Len(rdefs[d]) + 1 /\ DOMAIN r = DOMAIN rdefs[d] \cup {Len(rdefs[d]) + 1}
        /\ \A i \in DOMAIN rdefs[d] : r[i] = rdefs[d][i]
        /\ r[Len(rdefs[d]) + 1] = rd /\ Newest(r) = rd /\ Started(r)
    BY <1>1, <1>3, <1>4, Appended
  <1>6. DefinitionResults(r)
    BY <1>2, <1>3, <1>5 DEF DefinitionResults
  <1>7. Started(rdefs[d]) => Newest(rdefs[d]).inst <= n
    BY <1>1, NumberType DEF Added, Pending
  <1> QED BY <1>1, <1>2, <1>4, <1>5, <1>6, <1>7 DEF Hinted

\* What is referred to remains when more tests have been added.
LEMMA AddedRemains ==
  ASSUME NEW tests, NEW more, \A t \in DOMAIN Tests : DOMAIN tests[t] \subseteq DOMAIN more[t]
  PROVE  /\ \A t \in DOMAIN Tests : \A r, n : RefFor(tests, t, r, n) => RefFor(more, t, r, n)
         /\ \A d \in Definitions : \A n, rd : NewResult(tests, d, n, rd) => NewResult(more, d, n, rd)
         /\ \A d \in Definitions : \A defs : Added(tests, defs, d) => Added(more, defs, d)
  <1>1. \A t \in DOMAIN Tests : \A r, n : RefFor(tests, t, r, n) => RefFor(more, t, r, n)
    BY DEF RefFor
  <1>2. \A d \in Definitions : \A n, rd : NewResult(tests, d, n, rd) => NewResult(more, d, n, rd)
    BY <1>1, NodesShape DEF NewResult
  <1>3. \A d \in Definitions : \A defs : Added(tests, defs, d) => Added(more, defs, d)
    BY <1>2 DEF Added
  <1> QED BY <1>1, <1>2, <1>3

\* Making a definition begins with nothing made.
LEMMA StartMaking ==
  ASSUME Shapes, Numbers, NEW s \in Definitions
  PROVE  Making(Start, s, 0)
  <1>1. PICK a : a = Start
    OBVIOUS
  <1>2. /\ a = [rdefs |-> a.rdefs, rtests |-> a.rtests, refs |-> a.refs]
        /\ a.rdefs = rdefs /\ a.rtests = rtests /\ a.refs = <<>>
    BY <1>1 DEF Start
  <1>3. Growing(rtests)
    <2>1. ASSUME NEW t \in DOMAIN Tests PROVE Longer(rtests[t], rtests[t])
      <3>1. IsSeq(rtests[t]) /\ \A i \in DOMAIN rtests[t] : IsTest(rtests[t][i])
        BY DEF Shapes
      <3> QED BY <3>1, SeqShape DEF Longer
    <2> QED BY <2>1 DEF Growing, Shapes
  <1>4. IsSeq(a.refs) /\ Len(a.refs) = 0 /\ Range(a.refs) \subseteq Nat
    BY <1>2 DEF IsSeq, Range
  <1>5. ASSUME NEW t \in DOMAIN Tests, Started(rtests[t])
        PROVE  \E d \in Definitions : /\ t \in DirectTests(d) /\ Started(rdefs[d])
                                      /\ Newest(rtests[t]).inst <= Newest(rdefs[d]).inst
    BY <1>5 DEF Numbers
  <1>6. rdefs = [d \in Definitions |-> rdefs[d]]
    BY DEF Shapes
  <1> QED BY <1>1, <1>2, <1>3, <1>4, <1>5, <1>6 DEF Making

\* A node that is a test gets a reference to a result of that instance.
LEMMA AddTestMaking ==
  ASSUME Shapes, NEW s \in Definitions, NEW i \in 1 .. Len(Nodes(s)), NEW a, Making(a, s, i - 1),
         Nodes(s)[i].kind = "test"
  PROVE  Making(AddTest(a, Nodes(s)[i].ref, Number(s)), s, i)
  <1>1. PICK t : t = Nodes(s)[i].ref
    OBVIOUS
  <1>2. PICK n : n = Number(s)
    OBVIOUS
  <1>3. t \in DirectTests(s) /\ t \in DOMAIN Tests /\ n \in Nat /\ i \in Nat /\ i >= 1
        /\ Len(Nodes(s)) \in Nat /\ DOMAIN Nodes(s) = 1 .. Len(Nodes(s))
    <2>1. /\ i \in DOMAIN Nodes(s) /\ Len(Nodes(s)) \in Nat /\ DOMAIN Nodes(s) = 1 .. Len(Nodes(s))
          /\ i \in Nat /\ i >= 1
      BY NodesShape
    <2>2. t \in DirectTests(s) /\ t \in DOMAIN Tests
      BY <1>1, <2>1, NodesShape
    <2>3. n \in Nat
      BY <1>2, NumberType
    <2> QED BY <2>1, <2>2, <2>3
  <1>4. PICK tests : tests = AddTests(a.rtests, {t}, n)
    OBVIOUS
  <1>5. PICK r : r = Len(tests[t])
    OBVIOUS
  <1>6. PICK b : b = AddTest(a, t, n)
    OBVIOUS
  <1>7. /\ b = [rdefs |-> a.rdefs, rtests |-> tests, refs |-> Append(a.refs, r)]
        /\ b.rdefs = a.rdefs /\ b.rtests = tests /\ b.refs = Append(a.refs, r)
    <2>1. b = [a EXCEPT !.rtests = tests, !.refs = Append(@, r)]
      BY <1>4, <1>5, <1>6 DEF AddTest
    <2>2. a = [rdefs |-> a.rdefs, rtests |-> a.rtests, refs |-> a.refs]
      BY DEF Making
    <2>3. b = [rdefs |-> a.rdefs, rtests |-> tests, refs |-> Append(a.refs, r)]
      BY <2>1, <2>2
    <2> QED BY <2>3
  <1>8. Growing(a.rtests)
    BY DEF Making
  <1>9. /\ Growing(tests)
        /\ \A u \in DOMAIN Tests : DOMAIN a.rtests[u] \subseteq DOMAIN tests[u]
        /\ \A u \in DOMAIN Tests : u # t => tests[u] = a.rtests[u]
        /\ Newest(tests[t]).inst = n /\ r \in Nat /\ RefFor(tests, t, r, n)
    <2>1. {t} \in SUBSET (DOMAIN Tests)
      BY <1>3
    <2>2. /\ Growing(AddTests(a.rtests, {t}, n))
          /\ \A u \in DOMAIN Tests : DOMAIN a.rtests[u] \subseteq DOMAIN AddTests(a.rtests, {t}, n)[u]
          /\ \A u \in DOMAIN Tests \ {t} : AddTests(a.rtests, {t}, n)[u] = a.rtests[u]
          /\ \A u \in {t} : /\ Newest(AddTests(a.rtests, {t}, n)[u]).inst = n
                            /\ Len(AddTests(a.rtests, {t}, n)[u]) \in Nat
                            /\ RefFor(AddTests(a.rtests, {t}, n), u, Len(AddTests(a.rtests, {t}, n)[u]), n)
      BY ONLY <1>3, <1>8, <2>1, AddTestsShape
    <2> QED BY <1>4, <1>5, <2>2
  <1>10. /\ \A u \in DOMAIN Tests : \A q, m : RefFor(a.rtests, u, q, m) => RefFor(tests, u, q, m)
         /\ \A d \in Definitions : \A defs : Added(a.rtests, defs, d) => Added(tests, defs, d)
    BY ONLY <1>9, AddedRemains
  <1>11. /\ IsSeq(a.refs) /\ Len(a.refs) = i - 1 /\ Range(a.refs) \subseteq Nat
    BY DEF Making
  <1>12. /\ IsSeq(b.refs) /\ Len(b.refs) = i /\ Range(b.refs) \subseteq Nat
         /\ \A k \in 1 .. i : b.refs[k] = IF k = i THEN r ELSE a.refs[k]
    <2>1. PICK refs : refs = b.refs
      OBVIOUS
    <2>2. /\ IsSeq(refs) /\ Len(refs) = i /\ DOMAIN refs = 1 .. i
          /\ \A k \in DOMAIN a.refs : refs[k] = a.refs[k]
          /\ refs[i] = r /\ DOMAIN a.refs = 1 .. i - 1
      BY <1>3, <1>7, <1>11, <2>1, Appended, SeqShape
    <2>3. Range(refs) \subseteq Nat
      BY <1>3, <1>9, <1>11, <2>2 DEF Range
    <2> QED BY <1>3, <2>1, <2>2, <2>3
  <1>13. ASSUME NEW d \in Definitions
         PROVE  b.rdefs[d] = rdefs[d] \/ (d \in ExtendedBy(s) /\ Added(b.rtests, b.rdefs, d))
    BY <1>7, <1>10 DEF Making
  <1>14. ASSUME NEW k \in 1 .. i
         PROVE  IF Nodes(s)[k].kind = "test" THEN RefFor(b.rtests, Nodes(s)[k].ref, b.refs[k], n)
                ELSE LET e == Nodes(s)[k].ref
                     IN Started(b.rdefs[e]) /\ ~Hinted(b.rdefs[e]) /\ b.refs[k] = Len(b.rdefs[e])
    <2>1. CASE k = i
      BY <1>1, <1>7, <1>9, <1>12, <2>1
    <2>2. CASE k # i
      <3>1. k \in 1 .. i - 1 /\ k \in DOMAIN Nodes(s) /\ b.refs[k] = a.refs[k]
        BY <1>3, <1>12, <2>2
      <3>2. IF Nodes(s)[k].kind = "test" THEN RefFor(a.rtests, Nodes(s)[k].ref, a.refs[k], n)
            ELSE LET e == Nodes(s)[k].ref
                 IN Started(a.rdefs[e]) /\ ~Hinted(a.rdefs[e]) /\ a.refs[k] = Len(a.rdefs[e])
        BY <1>2, <3>1 DEF Making
      <3>3. Nodes(s)[k].kind = "test" => Nodes(s)[k].ref \in DOMAIN Tests
        BY <3>1, NodesShape
      <3> QED BY <1>7, <1>10, <3>1, <3>2, <3>3
    <2> QED BY <2>1, <2>2
  <1>15. ASSUME NEW u \in DOMAIN Tests, Started(tests[u])
         PROVE  \/ u \in DirectTests(s) /\ Newest(tests[u]).inst <= n
                \/ \E d \in Definitions : /\ u \in DirectTests(d) /\ Started(a.rdefs[d])
                                          /\ Newest(tests[u]).inst <= Newest(a.rdefs[d]).inst
    <2>1. CASE u = t
      BY <1>3, <1>9, <2>1
    <2>2. CASE u # t
      <3>1. tests[u] = a.rtests[u]
        BY <1>9, <2>2
      <3> QED BY <1>2, <1>15, <3>1 DEF Making
    <2> QED BY <2>1, <2>2
  <1>16. a.rdefs = [d \in Definitions |-> a.rdefs[d]]
    BY DEF Making
  <1>17. Making(b, s, i)
    BY <1>2, <1>7, <1>9, <1>12, <1>13, <1>14, <1>15, <1>16 DEF Making
  <1> QED BY <1>1, <1>2, <1>6, <1>17

\* A node that is a definition gets a reference to a result of its own
\* instance, which is made where it is missing or hinted away.
LEMMA AddExtendedMaking ==
  ASSUME Shapes, NEW s \in Definitions, NEW i \in 1 .. Len(Nodes(s)), NEW a, Making(a, s, i - 1),
         Nodes(s)[i].kind # "test"
  PROVE  Making(AddExtended(a, Nodes(s)[i].ref, Number(s)), s, i)
  <1>1. PICK e : e = Nodes(s)[i].ref
    OBVIOUS
  <1>2. PICK m : m = Number(s)
    OBVIOUS
  <1>3. /\ e \in ExtendedBy(s) /\ e \in Definitions /\ m \in Nat /\ i \in Nat /\ i >= 1
        /\ Len(Nodes(s)) \in Nat /\ DOMAIN Nodes(s) = 1 .. Len(Nodes(s))
        /\ \A k \in DOMAIN Nodes(e) : Nodes(e)[k].kind = "test"
        /\ IsSeq(Nodes(e)) /\ DOMAIN Nodes(e) = 1 .. Len(Nodes(e)) /\ Len(Nodes(e)) \in Nat
    <2>1. /\ i \in DOMAIN Nodes(s) /\ Len(Nodes(s)) \in Nat /\ DOMAIN Nodes(s) = 1 .. Len(Nodes(s)) 
          /\ i \in Nat /\ i >= 1
      BY NodesShape
    <2>2. e \in ExtendedBy(s) /\ e \in Definitions /\ \A k \in DOMAIN Nodes(e) : Nodes(e)[k].kind = "test"
      BY <1>1, <2>1, NodesShape
    <2> QED BY <1>2, <2>1, <2>2, NodesShape, NumberType
  <1>4. /\ a = [rdefs |-> a.rdefs, rtests |-> a.rtests, refs |-> a.refs]
        /\ Growing(a.rtests) /\ a.rdefs = [d \in Definitions |-> a.rdefs[d]]
        /\ \A d \in Definitions :
             a.rdefs[d] = rdefs[d] \/ (d \in ExtendedBy(s) /\ Added(a.rtests, a.rdefs, d))
        /\ IsSeq(a.refs) /\ Len(a.refs) = i - 1 /\ Range(a.refs) \subseteq Nat
        /\ \A k \in 1 .. i - 1 :
             IF Nodes(s)[k].kind = "test" THEN RefFor(a.rtests, Nodes(s)[k].ref, a.refs[k], m)
             ELSE /\ Started(a.rdefs[Nodes(s)[k].ref]) /\ ~Hinted(a.rdefs[Nodes(s)[k].ref])
                  /\ a.refs[k] = Len(a.rdefs[Nodes(s)[k].ref])
        /\ \A t \in DOMAIN Tests : Started(a.rtests[t]) =>
             \/ t \in DirectTests(s) /\ Newest(a.rtests[t]).inst <= m
             \/ \E d \in Definitions : /\ t \in DirectTests(d) /\ Started(a.rdefs[d])
                                       /\ Newest(a.rtests[t]).inst <= Newest(a.rdefs[d]).inst
    BY <1>2 DEF Making
  <1>5. PICK b : b = AddExtended(a, e, m)
    OBVIOUS
  \* The reference that is added.
  <1>6. ASSUME NEW r \in Nat, b.refs = Append(a.refs, r)
        PROVE  /\ IsSeq(b.refs) /\ Len(b.refs) = i /\ Range(b.refs) \subseteq Nat
               /\ \A k \in 1 .. i : b.refs[k] = IF k = i THEN r ELSE a.refs[k]
    <2>1. PICK refs : refs = b.refs
      OBVIOUS
    <2>2. /\ IsSeq(refs) /\ Len(refs) = i /\ DOMAIN refs = 1 .. i
          /\ \A k \in DOMAIN a.refs : refs[k] = a.refs[k]
          /\ refs[i] = r /\ DOMAIN a.refs = 1 .. i - 1
      BY <1>3, <1>4, <1>6, <2>1, Appended, SeqShape
    <2>3. Range(refs) \subseteq Nat
      BY <1>3, <1>4, <1>6, <2>2 DEF Range
    <2> QED BY <1>3, <2>1, <2>2, <2>3
  <1>7. CASE Started(a.rdefs[e]) /\ ~Hinted(a.rdefs[e])
    <2>1. PICK r : r = Len(a.rdefs[e])
      OBVIOUS
    <2>2. /\ b = [rdefs |-> a.rdefs, rtests |-> a.rtests, refs |-> Append(a.refs, r)]
          /\ b.rdefs = a.rdefs /\ b.rtests = a.rtests /\ b.refs = Append(a.refs, r)
      <3>1. b = [a EXCEPT !.refs = Append(@, r)]
        BY <1>5, <1>7, <2>1 DEF AddExtended
      <3>2. b = [rdefs |-> a.rdefs, rtests |-> a.rtests, refs |-> Append(a.refs, r)]
        BY <1>4, <3>1
      <3> QED BY <3>2
    <2>3. r \in Nat
      <3>1. CASE a.rdefs[e] = rdefs[e]
        BY <1>3, <2>1, <3>1 DEF Shapes, IsSeq
      <3>2. CASE Added(a.rtests, a.rdefs, e)
        BY <1>3, <2>1, <3>2, AddedResult DEF DefinitionResults, IsSeq
      <3> QED BY <1>3, <1>4, <3>1, <3>2
    <2>4. /\ IsSeq(b.refs) /\ Len(b.refs) = i /\ Range(b.refs) \subseteq Nat
          /\ \A k \in 1 .. i : b.refs[k] = IF k = i THEN r ELSE a.refs[k]
      BY <1>6, <2>2, <2>3
    <2>5. ASSUME NEW k \in 1 .. i
          PROVE  IF Nodes(s)[k].kind = "test" THEN RefFor(b.rtests, Nodes(s)[k].ref, b.refs[k], m)
                 ELSE LET f == Nodes(s)[k].ref
                      IN Started(b.rdefs[f]) /\ ~Hinted(b.rdefs[f]) /\ b.refs[k] = Len(b.rdefs[f])
      <3>1. CASE k = i
        BY <1>1, <1>7, <2>1, <2>2, <2>4, <3>1
      <3>2. CASE k # i
        <4>1. k \in 1 .. i - 1 /\ b.refs[k] = a.refs[k]
          BY <1>3, <2>4, <3>2
        <4> QED BY <1>4, <2>2, <4>1
      <3> QED BY <3>1, <3>2
    <2>6. Making(b, s, i)
      BY <1>2, <1>4, <2>2, <2>4, <2>5 DEF Making
    <2> QED BY <1>1, <1>2, <1>5, <2>6
  <1>8. CASE ~(Started(a.rdefs[e]) /\ ~Hinted(a.rdefs[e]))
    <2>1. a.rdefs[e] = rdefs[e] /\ Pending(e)
      <3>1. ~Added(a.rtests, a.rdefs, e)
        BY <1>3, <1>8, AddedResult
      <3> QED BY <1>3, <1>4, <1>8, <3>1 DEF Pending
    <2>2. PICK n \in Nat : n = NextInstance(rdefs[e], m)
      BY <1>3, NumberType
    <2>3. Hinted(rdefs[e]) => n = Newest(rdefs[e]).hint
      BY <1>3, <2>2, NumberType
    <2>4. PICK S : S = TestsOf(e)
      OBVIOUS
    <2>5. S = DirectTests(e) /\ S \in SUBSET (DOMAIN Tests)
      <3>1. ExtendedBy(e) = {}
        BY <1>3, TestsShape
      <3>2. TestsOf(e) = DirectTests(e) \cup UNION {DirectTests(f) : f \in ExtendedBy(e)}
            /\ DirectTests(e) \subseteq DOMAIN Tests
        BY <1>3, TestsShape
      <3> QED BY <2>4, <3>1, <3>2
    <2>6. PICK tests : tests = AddTests(a.rtests, S, n)
      OBVIOUS
    <2>7. PICK refs : refs = [k \in DOMAIN Nodes(e) |-> Len(tests[Nodes(e)[k].ref])]
      OBVIOUS
    <2>8. PICK rd : rd = Definition(n, refs)
      OBVIOUS
    <2>9. PICK r : r = Len(a.rdefs[e]) + 1
      OBVIOUS
    <2>10. PICK defs : defs = [a.rdefs EXCEPT ![e] = Append(@, rd)]
      OBVIOUS
    <2>11. /\ b = [rtests |-> tests, rdefs |-> defs, refs |-> Append(a.refs, r)]
           /\ b.rdefs = defs /\ b.rtests = tests /\ b.refs = Append(a.refs, r)
      <3>1. b = [rtests |-> tests, rdefs |-> defs, refs |-> Append(a.refs, r)]
        BY <1>5, <1>8, <2>1, <2>2, <2>4, <2>6, <2>7, <2>8, <2>9, <2>10 DEF AddExtended
      <3> QED BY <3>1
    <2>12. /\ Growing(tests)
           /\ \A u \in DOMAIN Tests : DOMAIN a.rtests[u] \subseteq DOMAIN tests[u]
           /\ \A u \in DOMAIN Tests : u \notin S => tests[u] = a.rtests[u]
           /\ \A u \in S : /\ Newest(tests[u]).inst = n /\ Len(tests[u]) \in Nat
                           /\ RefFor(tests, u, Len(tests[u]), n)
      <3>1. /\ Growing(AddTests(a.rtests, S, n))
            /\ \A u \in DOMAIN Tests : DOMAIN a.rtests[u] \subseteq DOMAIN AddTests(a.rtests, S, n)[u]
            /\ \A u \in DOMAIN Tests \ S : AddTests(a.rtests, S, n)[u] = a.rtests[u]
            /\ \A u \in S : /\ Newest(AddTests(a.rtests, S, n)[u]).inst = n
                            /\ Len(AddTests(a.rtests, S, n)[u]) \in Nat
                            /\ RefFor(AddTests(a.rtests, S, n), u, Len(AddTests(a.rtests, S, n)[u]), n)
        <4>1. Growing(a.rtests) /\ n \in Nat
          BY <1>4
        <4>2. S \in SUBSET (DOMAIN Tests)
          BY <2>5
        <4> QED BY ONLY <4>1, <4>2, AddTestsShape
      <3> QED BY <2>6, <3>1
    <2>13. /\ \A u \in DOMAIN Tests : \A q, j : RefFor(a.rtests, u, q, j) => RefFor(tests, u, q, j)
           /\ \A d \in Definitions : \A ds : Added(a.rtests, ds, d) => Added(tests, ds, d)
      BY ONLY <2>12, AddedRemains
    <2>14. NewResult(tests, e, n, rd)
      <3>1. \A k \in DOMAIN Nodes(e) : Nodes(e)[k].ref \in S
        BY <1>3, <2>5, NodesShape
      <3>2. IsSeq(refs) /\ Len(refs) = Len(Nodes(e)) /\ DOMAIN refs = DOMAIN Nodes(e)
        <4>1. refs = [k \in DOMAIN Nodes(e) |-> refs[k]] /\ DOMAIN refs = DOMAIN Nodes(e)
          BY <2>7
        <4> QED BY <1>3, <4>1, SameLength
      <3>3. Range(refs) \subseteq Nat
        BY <2>7, <2>12, <3>1, <3>2 DEF Range
      <3>4. /\ rd = [inst |-> n, hint |-> n, result |-> "noteval", refs |-> refs]
            /\ rd.inst = n /\ rd.hint = n /\ rd.result = "noteval" /\ rd.refs = refs
        BY <2>8 DEF Definition
      <3>5. IsDefinition(rd)
        BY <3>2, <3>3, <3>4 DEF IsDefinition, Result
      <3> QED BY <2>7, <2>12, <3>1, <3>2, <3>4, <3>5 DEF NewResult
    <2>15. /\ defs = [d \in Definitions |-> defs[d]] /\ defs[e] = Append(rdefs[e], rd)
           /\ \A d \in Definitions : d # e => defs[d] = a.rdefs[d]
      BY <1>3, <1>4, <2>1, <2>10
    <2>16. Added(tests, defs, e)
      BY <2>1, <2>3, <2>14, <2>15 DEF Added
    <2>17. /\ Started(defs[e]) /\ ~Hinted(defs[e]) /\ Len(defs[e]) = r /\ r \in Nat
           /\ Newest(defs[e]).inst = n
           /\ Started(rdefs[e]) => Newest(rdefs[e]).inst <= n
      <3>1. /\ Started(defs[e]) /\ ~Hinted(defs[e]) /\ Len(defs[e]) = Len(rdefs[e]) + 1
            /\ Started(rdefs[e]) => Newest(rdefs[e]).inst <= Newest(defs[e]).inst
            /\ DefinitionResults(defs[e])
        BY <1>3, <2>16, AddedResult
      <3>2. IsSeq(rdefs[e])
        BY <1>3 DEF Shapes
      <3>3. Newest(defs[e]) = rd
        <4>1. PICK q : q = Append(rdefs[e], rd)
          OBVIOUS
        <4>2. Newest(q) = rd
          BY <3>2, <4>1, Appended
        <4> QED BY <2>15, <4>1, <4>2
      <3>4. rd.inst = n
        BY <2>14 DEF NewResult
      <3> QED BY <2>1, <2>9, <3>1, <3>2, <3>3, <3>4 DEF IsSeq
    <2>18. /\ IsSeq(b.refs) /\ Len(b.refs) = i /\ Range(b.refs) \subseteq Nat
           /\ \A k \in 1 .. i : b.refs[k] = IF k = i THEN r ELSE a.refs[k]
      BY <1>6, <2>11, <2>17
    <2>19. ASSUME NEW d \in Definitions
           PROVE  defs[d] = rdefs[d] \/ (d \in ExtendedBy(s) /\ Added(tests, defs, d))
      <3>1. CASE d = e
        BY <1>3, <2>16, <3>1
      <3>2. CASE d # e
        <4>1. defs[d] = a.rdefs[d]
          BY <2>15, <3>2
        <4>2. Added(a.rtests, a.rdefs, d) => Added(tests, defs, d)
          <5>1. Added(a.rtests, a.rdefs, d) => Added(tests, a.rdefs, d)
            BY <2>13
          <5> QED BY <4>1, <5>1 DEF Added
        <4> QED BY <1>4, <4>1, <4>2
      <3> QED BY <3>1, <3>2
    <2>20. ASSUME NEW k \in 1 .. i
           PROVE  IF Nodes(s)[k].kind = "test" THEN RefFor(tests, Nodes(s)[k].ref, b.refs[k], m)
                  ELSE LET f == Nodes(s)[k].ref
                       IN Started(defs[f]) /\ ~Hinted(defs[f]) /\ b.refs[k] = Len(defs[f])
      <3>1. CASE k = i
        BY <1>1, <2>17, <2>18, <3>1
      <3>2. CASE k # i
        <4>1. k \in 1 .. i - 1 /\ b.refs[k] = a.refs[k] /\ k \in DOMAIN Nodes(s)
          BY <1>3, <2>18, <3>2
        <4>2. CASE Nodes(s)[k].kind = "test"
          <5>1. Nodes(s)[k].ref \in DOMAIN Tests
            BY <4>1, <4>2, NodesShape
          <5> QED BY <1>4, <2>13, <4>1, <4>2, <5>1
        <4>3. CASE Nodes(s)[k].kind # "test"
          <5>1. Nodes(s)[k].ref \in Definitions
            BY <4>1, <4>3, NodesShape
          <5>2. Nodes(s)[k].ref # e
            BY <1>4, <1>8, <4>1, <4>3
          <5>3. defs[Nodes(s)[k].ref] = a.rdefs[Nodes(s)[k].ref]
            BY <2>15, <5>1, <5>2
          <5> QED BY <1>4, <4>1, <4>3, <5>3
        <4> QED BY <4>2, <4>3
      <3> QED BY <3>1, <3>2
    <2>21. ASSUME NEW u \in DOMAIN Tests, Started(tests[u])
           PROVE  \/ u \in DirectTests(s) /\ Newest(tests[u]).inst <= m
                  \/ \E d \in Definitions : /\ u \in DirectTests(d) /\ Started(defs[d])
                                            /\ Newest(tests[u]).inst <= Newest(defs[d]).inst
      <3>1. CASE u \in S
        BY <1>3, <2>5, <2>12, <2>17, <3>1
      <3>2. CASE u \notin S
        <4>1. tests[u] = a.rtests[u]
          BY <2>12, <3>2
        <4>2. ASSUME NEW d \in Definitions, u \in DirectTests(d), Started(a.rdefs[d])
              PROVE  defs[d] = a.rdefs[d]
          BY <2>5, <2>15, <3>2, <4>2
        <4> QED BY <1>4, <2>21, <4>1, <4>2
      <3> QED BY <3>1, <3>2
    <2>22. Making(b, s, i)
      BY <1>2, <2>11, <2>12, <2>15, <2>18, <2>19, <2>20, <2>21 DEF Making
    <2> QED BY <1>1, <1>2, <1>5, <2>22
  <1> QED BY <1>7, <1>8

\* All nodes have their references when all are made.
LEMMA MadeForMaking ==
  ASSUME Shapes, Numbers, NEW s \in Definitions
  PROVE  Making(MadeFor(s)[Len(Nodes(s))], s, Len(Nodes(s)))
  <1>1. PICK g : g = MadeFor(s)
    OBVIOUS
  <1>2. PICK n \in Nat : n = Len(Nodes(s))
    BY NodesShape
  <1>3. \A i \in 0 .. n : g[i] = IF i = 0 THEN Start ELSE Extend(g[i - 1], s, i)
    <2>1. g = [i \in 0 .. n |-> IF i = 0 THEN Start ELSE Extend(g[i - 1], s, i)]
      BY <1>1, <1>2, MadeForIsMade DEF IsMade
    <2> QED BY <2>1
  <1>4. PICK bad : bad = {i \in 0 .. n : ~Making(g[i], s, i)}
    OBVIOUS
  <1>5. CASE bad = {}
    BY <1>1, <1>2, <1>4, <1>5
  <1>6. CASE bad # {}
    <2>1. PICK i \in bad : \A j \in bad : i <= j
      <3>1. bad \subseteq Nat
        BY <1>4
      <3> QED BY ONLY <1>6, <3>1, Smallest
    <2>2. i \in 0 .. n /\ ~Making(g[i], s, i)
      BY <1>4, <2>1
    <2>3. CASE i = 0
      BY <1>3, <2>2, <2>3, StartMaking
    <2>4. CASE i # 0
      <3>1. i \in 1 .. Len(Nodes(s)) /\ i - 1 \in 0 .. n
        BY <1>2, <2>2, <2>4
      <3>2. Making(g[i - 1], s, i - 1)
        <4>1. i - 1 \notin bad
          BY <2>1, <2>2, <3>1
        <4> QED BY <1>4, <3>1, <4>1
      <3>3. g[i] = Extend(g[i - 1], s, i)
        BY <1>3, <2>2, <2>4
      <3>4. Making(Extend(g[i - 1], s, i), s, i)
        <4>1. CASE Nodes(s)[i].kind = "test"
          <5>1. Extend(g[i - 1], s, i) = AddTest(g[i - 1], Nodes(s)[i].ref, Number(s))
            BY <4>1 DEF Extend
          <5> QED BY <3>1, <3>2, <4>1, <5>1, AddTestMaking
        <4>2. CASE Nodes(s)[i].kind # "test"
          <5>1. Extend(g[i - 1], s, i) = AddExtended(g[i - 1], Nodes(s)[i].ref, Number(s))
            BY <4>2 DEF Extend
          <5> QED BY <3>1, <3>2, <4>2, <5>1, AddExtendedMaking
        <4> QED BY <4>1, <4>2
      <3> QED BY <2>2, <3>3, <3>4
    <2> QED BY <2>3, <2>4
  <1> QED BY <1>5, <1>6

\* What definition s is evaluated with.
NumbersOf(tests, defs) ==
  \A t \in DOMAIN Tests : Started(tests[t]) =>
    \E d \in Definitions : /\ t \in DirectTests(d) /\ Started(defs[d])
                           /\ Newest(tests[t]).inst <= Newest(defs[d]).inst
Instanced(made, s) ==
  /\ Growing(made.rtests) /\ made.rdefs = [d \in Definitions |-> made.rdefs[d]]
  /\ \A d \in Definitions :
       \/ made.rdefs[d] = rdefs[d]
       \/ d \in Family(s) /\ Added(made.rtests, made.rdefs, d)
  /\ Started(made.rdefs[s]) /\ ~Hinted(made.rdefs[s])
  /\ Pending(s) => \A k \in DOMAIN Nodes(s) : Nodes(s)[k].kind # "test" =>
       LET e == Nodes(s)[k].ref
       IN /\ Started(made.rdefs[e]) /\ ~Hinted(made.rdefs[e])
          /\ Newest(made.rdefs[s]).refs[k] = Len(made.rdefs[e])
  /\ NumbersOf(made.rtests, made.rdefs)

\* A definition that is hinted away gets a newest result of the hinted
\* number, with references to results that exist.
LEMMA MakeDefinitionInstanced ==
  ASSUME Shapes, Numbers, NEW s \in Definitions, Pending(s)
  PROVE  Instanced(MakeDefinition(s), s)
  <1>1. PICK a : a = MadeFor(s)[Len(Nodes(s))]
    OBVIOUS
  <1>2. PICK n \in Nat : n = Number(s)
    BY NumberType
  <1>3. /\ Growing(a.rtests) /\ a.rdefs = [d \in Definitions |-> a.rdefs[d]]
        /\ \A d \in Definitions :
             a.rdefs[d] = rdefs[d] \/ (d \in ExtendedBy(s) /\ Added(a.rtests, a.rdefs, d))
        /\ IsSeq(a.refs) /\ Len(a.refs) = Len(Nodes(s)) /\ Range(a.refs) \subseteq Nat
        /\ \A k \in DOMAIN Nodes(s) :
             IF Nodes(s)[k].kind = "test" THEN RefFor(a.rtests, Nodes(s)[k].ref, a.refs[k], n)
             ELSE /\ Started(a.rdefs[Nodes(s)[k].ref]) /\ ~Hinted(a.rdefs[Nodes(s)[k].ref])
                  /\ a.refs[k] = Len(a.rdefs[Nodes(s)[k].ref])
        /\ \A t \in DOMAIN Tests : Started(a.rtests[t]) =>
             \/ t \in DirectTests(s) /\ Newest(a.rtests[t]).inst <= n
             \/ \E d \in Definitions : /\ t \in DirectTests(d) /\ Started(a.rdefs[d])
                                       /\ Newest(a.rtests[t]).inst <= Newest(a.rdefs[d]).inst
    <2>1. Making(a, s, Len(Nodes(s))) /\ DOMAIN Nodes(s) = 1 .. Len(Nodes(s))
      BY <1>1, MadeForMaking, NodesShape
    <2> QED BY <1>2, <2>1 DEF Making
  <1>4. PICK rd : rd = Definition(n, a.refs)
    OBVIOUS
  <1>5. PICK tests : tests = a.rtests
    OBVIOUS
  <1>6. PICK defs : defs = [a.rdefs EXCEPT ![s] = Append(@, rd)]
    OBVIOUS
  <1>7. PICK made : made = MakeDefinition(s)
    OBVIOUS
  <1>8. made.rtests = tests /\ made.rdefs = defs
    BY <1>1, <1>2, <1>4, <1>5, <1>6, <1>7 DEF MakeDefinition
  <1>9. \A e \in ExtendedBy(s) : e \in Definitions /\ e # s
    BY TestsShape
  <1>10. a.rdefs[s] = rdefs[s]
    BY <1>3, <1>9
  <1>11. /\ defs = [d \in Definitions |-> defs[d]] /\ defs[s] = Append(rdefs[s], rd)
         /\ \A d \in Definitions : d # s => defs[d] = a.rdefs[d]
    BY <1>3, <1>6, <1>10
  <1>12. NewResult(tests, s, n, rd) /\ rd.refs = a.refs
    <2>1. /\ rd = [inst |-> n, hint |-> n, result |-> "noteval", refs |-> a.refs]
          /\ rd.inst = n /\ rd.hint = n /\ rd.result = "noteval" /\ rd.refs = a.refs
      BY <1>4 DEF Definition
    <2>2. IsDefinition(rd)
      BY <1>2, <1>3, <2>1 DEF IsDefinition, Result
    <2>3. DOMAIN a.refs = DOMAIN Nodes(s)
      BY <1>3, NodesShape, SeqShape
    <2> QED BY <1>3, <1>5, <2>1, <2>2, <2>3 DEF NewResult
  <1>13. Added(tests, defs, s)
    <2>1. Hinted(rdefs[s]) => n = Newest(rdefs[s]).hint
      BY <1>2, NumberType
    <2> QED BY <1>11, <1>12, <2>1 DEF Added
  <1>14. /\ Started(defs[s]) /\ ~Hinted(defs[s]) /\ Newest(defs[s]) = rd
         /\ Started(rdefs[s]) => Newest(rdefs[s]).inst <= n
    <2>1. /\ Started(defs[s]) /\ ~Hinted(defs[s])
          /\ Started(rdefs[s]) => Newest(rdefs[s]).inst <= Newest(defs[s]).inst
      BY <1>13, AddedResult
    <2>2. PICK q : q = Append(rdefs[s], rd)
      OBVIOUS
    <2>3. Newest(q) = rd
      BY <2>2, Appended DEF Shapes
    <2> QED BY <1>11, <1>12, <2>1, <2>2, <2>3 DEF NewResult
  <1>15. ASSUME NEW d \in Definitions
         PROVE  defs[d] = rdefs[d] \/ (d \in Family(s) /\ Added(tests, defs, d))
    <2>1. CASE d = s
      BY <1>13, <2>1, OwnFamily
    <2>2. CASE d # s
      <3>1. defs[d] = a.rdefs[d]
        BY <1>11, <2>2
      <3>2. Added(a.rtests, a.rdefs, d) => Added(tests, defs, d)
        BY <1>5, <3>1 DEF Added
      <3> QED BY <1>3, <3>1, <3>2, OwnFamily
    <2> QED BY <2>1, <2>2
  <1>16. ASSUME NEW k \in DOMAIN Nodes(s), Nodes(s)[k].kind # "test"
         PROVE  LET e == Nodes(s)[k].ref
                IN /\ Started(defs[e]) /\ ~Hinted(defs[e])
                   /\ Newest(defs[s]).refs[k] = Len(defs[e])
    <2>1. Nodes(s)[k].ref \in Definitions /\ Nodes(s)[k].ref # s
      BY <1>16, NodesShape
    <2>2. defs[Nodes(s)[k].ref] = a.rdefs[Nodes(s)[k].ref]
      BY <1>11, <2>1
    <2> QED BY <1>3, <1>12, <1>14, <1>16, <2>2
  <1>17. NumbersOf(tests, defs)
    <2> SUFFICES ASSUME NEW t \in DOMAIN Tests, Started(tests[t])
                 PROVE  \E d \in Definitions : /\ t \in DirectTests(d) /\ Started(defs[d])
                                               /\ Newest(tests[t]).inst <= Newest(defs[d]).inst
      BY DEF NumbersOf
    <2>0. /\ Newest(defs[s]).inst = n
          /\ Len(tests[t]) \in DOMAIN tests[t] /\ Newest(tests[t]).inst \in Nat
      <3>1. IsSeq(tests[t]) /\ \A i \in DOMAIN tests[t] : IsTest(tests[t][i])
        BY <1>3, <1>5 DEF Growing, Longer
      <3>2. Len(tests[t]) \in DOMAIN tests[t]
        BY <3>1, SeqShape
      <3> QED BY <1>12, <1>14, <3>1, <3>2 DEF NewResult, Newest, IsTest
    <2>1. CASE t \in DirectTests(s) /\ Newest(tests[t]).inst <= n
      BY <1>14, <2>0, <2>1
    <2>2. CASE \E d \in Definitions : /\ t \in DirectTests(d) /\ Started(a.rdefs[d])
                                      /\ Newest(tests[t]).inst <= Newest(a.rdefs[d]).inst
      <3>1. PICK d \in Definitions : /\ t \in DirectTests(d) /\ Started(a.rdefs[d])
                                     /\ Newest(tests[t]).inst <= Newest(a.rdefs[d]).inst
        BY <2>2
      <3>2. CASE d = s
        <4>1. Newest(rdefs[s]).inst \in Nat /\ Newest(rdefs[s]).inst <= n
              /\ Newest(tests[t]).inst <= Newest(rdefs[s]).inst
          BY <1>10, <1>14, <3>1, <3>2, NumberType
        <4>2. Newest(tests[t]).inst <= n
          BY <1>2, <2>0, <4>1
        <4> QED BY <1>14, <2>0, <3>1, <3>2, <4>2
      <3>3. CASE d # s
        BY <1>11, <3>1, <3>3
      <3> QED BY <3>2, <3>3
    <2> QED BY <1>3, <1>5, <2>1, <2>2
  <1>18. Instanced(made, s)
    BY <1>3, <1>5, <1>8, <1>11, <1>14, <1>15, <1>16, <1>17 DEF Instanced
  <1> QED BY <1>7, <1>18

\* A definition that is not hinted away is one already.
LEMMA KeptInstanced ==
  ASSUME Shapes, Numbers, NEW s \in Definitions, ~Pending(s)
  PROVE  Instanced([rdefs |-> rdefs, rtests |-> rtests], s)
  <1>1. PICK made : made = [rdefs |-> rdefs, rtests |-> rtests]
    OBVIOUS
  <1>2. made.rdefs = rdefs /\ made.rtests = rtests
    BY <1>1
  <1>3. Growing(rtests)
    <2>1. Making(Start, s, 0)
      BY StartMaking
    <2>2. Start.rtests = rtests
      BY DEF Start
    <2> QED BY <2>1, <2>2 DEF Making
  <1>4. NumbersOf(rtests, rdefs)
    BY DEF Numbers, NumbersOf
  <1>5. rdefs = [d \in Definitions |-> rdefs[d]]
    BY DEF Shapes
  <1>6. Instanced(made, s)
    BY <1>2, <1>3, <1>4, <1>5 DEF Instanced, Pending
  <1> QED BY <1>1, <1>6

-----------------------------------------------------------------------------
(* Evaluation.                                                             *)

RefsIn(tests, defs, d, refs) ==
  /\ DOMAIN refs = DOMAIN Nodes(d)
  /\ \A k \in DOMAIN refs :
       refs[k] \in IF Nodes(d)[k].kind = "test" THEN DOMAIN tests[Nodes(d)[k].ref]
                   ELSE DOMAIN defs[Nodes(d)[k].ref]
ReferencesIn(tests, defs) ==
  \A d \in Definitions :
    /\ \A i \in DOMAIN defs[d] : RefsIn(tests, defs, d, defs[d][i].refs)
    /\ Started(defs[d]) => \A e \in ExtendedBy(d) : Started(defs[e])

\* What definition s is evaluated with refers to what there is.
LEMMA InstancedReferences ==
  ASSUME Shapes, References_, NEW s \in Definitions, NEW made, Instanced(made, s)
  PROVE  /\ \A d \in Definitions :
              /\ DefinitionResults(made.rdefs[d]) /\ Len(rdefs[d]) <= Len(made.rdefs[d])
              /\ DOMAIN rdefs[d] \subseteq DOMAIN made.rdefs[d]
              /\ \A i \in DOMAIN rdefs[d] : made.rdefs[d][i] = rdefs[d][i]
              /\ Started(rdefs[d]) => Started(made.rdefs[d])
         /\ ReferencesIn(made.rtests, made.rdefs)
  <1>1. ASSUME NEW d \in Definitions
        PROVE  /\ DefinitionResults(made.rdefs[d]) /\ Len(rdefs[d]) <= Len(made.rdefs[d])
               /\ DOMAIN rdefs[d] \subseteq DOMAIN made.rdefs[d]
               /\ \A i \in DOMAIN rdefs[d] : made.rdefs[d][i] = rdefs[d][i]
               /\ Started(rdefs[d]) => Started(made.rdefs[d])
    <2>0. DefinitionResults(rdefs[d]) /\ Len(rdefs[d]) \in Nat
      BY DEF Shapes, DefinitionResults, IsSeq
    <2>1. CASE made.rdefs[d] = rdefs[d]
      BY <2>0, <2>1
    <2>2. CASE Added(made.rtests, made.rdefs, d)
      <3>1. /\ Started(made.rdefs[d]) /\ DefinitionResults(made.rdefs[d])
            /\ Len(made.rdefs[d]) = Len(rdefs[d]) + 1
            /\ DOMAIN made.rdefs[d] = DOMAIN rdefs[d] \cup {Len(rdefs[d]) + 1}
            /\ \A i \in DOMAIN rdefs[d] : made.rdefs[d][i] = rdefs[d][i]
        BY <2>2, AddedResult
      <3> QED BY <2>0, <3>1
    <2> QED BY <2>1, <2>2 DEF Instanced
  <1>2. \A t \in DOMAIN Tests : DOMAIN rtests[t] \subseteq DOMAIN made.rtests[t]
    BY DEF Instanced, Growing, Longer
  <1>3. ASSUME NEW d \in Definitions, NEW refs, RefsOK(d, refs)
        PROVE  RefsIn(made.rtests, made.rdefs, d, refs)
    <2> SUFFICES ASSUME NEW k \in DOMAIN refs
                 PROVE  refs[k] \in IF Nodes(d)[k].kind = "test" THEN DOMAIN made.rtests[Nodes(d)[k].ref]
                                    ELSE DOMAIN made.rdefs[Nodes(d)[k].ref]
      BY <1>3 DEF RefsIn, RefsOK
    <2>1. /\ k \in DOMAIN Nodes(d)
          /\ refs[k] \in IF Nodes(d)[k].kind = "test" THEN DOMAIN rtests[Nodes(d)[k].ref]
                         ELSE DOMAIN rdefs[Nodes(d)[k].ref]
      BY <1>3 DEF RefsOK
    <2>2. /\ Nodes(d)[k].kind = "test" => Nodes(d)[k].ref \in DOMAIN Tests
          /\ Nodes(d)[k].kind # "test" => Nodes(d)[k].ref \in Definitions
      BY <2>1, NodesShape
    <2> QED BY <1>1, <1>2, <2>1, <2>2
  <1>4. ASSUME NEW d \in Definitions, NEW i \in DOMAIN made.rdefs[d]
        PROVE  RefsIn(made.rtests, made.rdefs, d, made.rdefs[d][i].refs)
    <2>1. CASE i \in DOMAIN rdefs[d]
      <3>1. RefsOK(d, rdefs[d][i].refs)
        BY <2>1 DEF References_
      <3> QED BY <1>1, <1>3, <2>1, <3>1
    <2>2. CASE i \notin DOMAIN rdefs[d]
      <3>1. d \in Family(s) /\ Added(made.rtests, made.rdefs, d)
        BY <2>2 DEF Instanced
      <3>2. /\ i = Len(rdefs[d]) + 1 /\ Newest(made.rdefs[d]) = made.rdefs[d][i]
            /\ NewResult(made.rtests, d, Newest(made.rdefs[d]).inst, Newest(made.rdefs[d]))
        <4>1. /\ Len(made.rdefs[d]) = Len(rdefs[d]) + 1
              /\ DOMAIN made.rdefs[d] = DOMAIN rdefs[d] \cup {Len(rdefs[d]) + 1}
              /\ NewResult(made.rtests, d, Newest(made.rdefs[d]).inst, Newest(made.rdefs[d]))
          BY <3>1, AddedResult
        <4> QED BY <2>2, <4>1 DEF Newest
      <3>3. PICK refs : refs = made.rdefs[d][i].refs
        OBVIOUS
      <3>4. DOMAIN refs = DOMAIN Nodes(d)
        BY <3>2, <3>3 DEF NewResult
      <3>5. ASSUME NEW k \in DOMAIN Nodes(d), Nodes(d)[k].kind = "test"
            PROVE  refs[k] \in DOMAIN made.rtests[Nodes(d)[k].ref]
        BY <3>2, <3>3, <3>5 DEF NewResult, RefFor
      <3>6. ASSUME NEW k \in DOMAIN Nodes(d), Nodes(d)[k].kind # "test"
            PROVE  refs[k] \in DOMAIN made.rdefs[Nodes(d)[k].ref]
        <4>1. d = s
          <5>1. \A e \in ExtendedBy(s) : ExtendedBy(e) = {}
            BY TestsShape
          <5>2. Nodes(d)[k].ref \in ExtendedBy(d)
            BY <3>6, NodesShape
          <5> QED BY <3>1, <5>1, <5>2 DEF Family
        <4>2. Pending(s)
          BY <3>1, <4>1 DEF Added
        <4>3. /\ Started(made.rdefs[Nodes(d)[k].ref]) /\ refs[k] = Len(made.rdefs[Nodes(d)[k].ref])
          BY <3>2, <3>3, <3>6, <4>1, <4>2 DEF Instanced
        <4>4. IsSeq(made.rdefs[Nodes(d)[k].ref])
          <5>1. Nodes(d)[k].ref \in Definitions
            BY <3>6, NodesShape
          <5> QED BY <1>1, <5>1 DEF DefinitionResults
        <4> QED BY <4>3, <4>4, SeqShape
      <3> QED BY <3>3, <3>4, <3>5, <3>6 DEF RefsIn
    <2> QED BY <2>1, <2>2
  <1>5. ASSUME NEW d \in Definitions, Started(made.rdefs[d]), NEW e \in ExtendedBy(d)
        PROVE  Started(made.rdefs[e])
    <2>1. e \in Definitions /\ \E k \in DOMAIN Nodes(d) : Nodes(d)[k].kind = "extend" /\ Nodes(d)[k].ref = e
      BY TestsShape
    <2>2. CASE Started(rdefs[d])
      BY <1>1, <2>1, <2>2 DEF References_
    <2>3. CASE ~Started(rdefs[d])
      <3>1. d \in Family(s) /\ Pending(d)
        BY <1>5, <2>3 DEF Instanced, Pending
      <3>2. d = s
        <4>1. \A f \in ExtendedBy(s) : ExtendedBy(f) = {}
          BY TestsShape
        <4> QED BY <3>1, <4>1 DEF Family
      <3> QED BY <2>1, <3>1, <3>2 DEF Instanced
    <2> QED BY <2>2, <2>3
  <1> QED BY <1>1, <1>4, <1>5 DEF ReferencesIn

\* Evaluation gives results: it neither adds nor renumbers.
Evaluated_(done, made, s) ==
  /\ done.rtests = [t \in DOMAIN Tests |-> done.rtests[t]]
  /\ done.rdefs = [d \in Definitions |-> done.rdefs[d]]
  /\ \A t \in DOMAIN Tests :
       /\ done.rtests[t] = [i \in DOMAIN made.rtests[t] |-> done.rtests[t][i]]
       /\ \A i \in DOMAIN made.rtests[t] :
            \/ done.rtests[t][i] = made.rtests[t][i]
            \/ /\ t \in TestsOf(s) /\ made.rtests[t][i].result = "noteval"
               /\ done.rtests[t][i] = EvalTest(t, made.rtests[t][i])
  /\ \A d \in Definitions :
       /\ done.rdefs[d] = [i \in DOMAIN made.rdefs[d] |-> done.rdefs[d][i]]
       /\ \A i \in DOMAIN made.rdefs[d] :
            \/ done.rdefs[d][i] = made.rdefs[d][i]
            \/ \E r \in Result : done.rdefs[d][i] = Judged(made.rdefs[d][i], r)
            \/ \E q, r \in Result : done.rdefs[d][i] = Judged(Judged(made.rdefs[d][i], q), r)

\* ores_get_result_byopr gives a result, whatever it counts.
LEMMA OperatorIsResult ==
  ASSUME NEW ores, NEW op \in Operator
  PROVE  ores_get_result_byopr(ores, op) \in Result
  <1>1. ~Decided(ores) => Undecided(ores) \in Result
    BY DEF Decided, Undecided, Result
  <1> QED BY <1>1 DEF ores_get_result_byopr, All, One, Or, Xor, Result, Operator

\* A verdict is a result: negation makes one of one.
LEMMA VerdictIsResult ==
  ASSUME NEW d \in Definitions, NEW rd, NEW tests, NEW defs
  PROVE  Verdict(rd, d, tests, defs) \in Result
  <1>1. \A c : ores_get_result_byopr(c, Criteria[d].op) \in Result
    BY ContentAssumption, OperatorIsResult
  <1> QED BY <1>1 DEF Verdict, criteria_result, _oval_result_negate, Result

\* oval_result_definition_eval changes what is not evaluated of what the
\* definition refers to, and nothing else.
LEMMA EvaluateShape ==
  ASSUME NEW s \in Definitions, NEW made,
         \A d \in Definitions : DefinitionResults(made.rdefs[d]),
         ReferencesIn(made.rtests, made.rdefs), Started(made.rdefs[s])
  PROVE  Evaluated_(Evaluate(made, s), made, s)
  <1>1. PICK done : done = Evaluate(made, s)
    OBVIOUS
  <1>2. PICK reached : reached = Reached(made, s)
    OBVIOUS
  <1>3. PICK extended : extended = {r \in reached : r[1].kind = "extend"}
    OBVIOUS
  <1>4. PICK direct : direct = {r \in reached : r[1].kind = "test"}
                \cup UNION {References(made.rdefs[r[1].ref][r[2]], r[1].ref) : r \in extended}
    OBVIOUS
  <1>5. PICK tests : tests = EvalTests(made, s)
    OBVIOUS
  <1>6. /\ tests = [t \in DOMAIN Tests |->
                    [i \in DOMAIN made.rtests[t] |->
                      IF <<Node("test", t), i>> \in direct THEN EvalTest(t, made.rtests[t][i])
                      ELSE made.rtests[t][i]]]
        /\ done.rtests = tests
    <2>1. direct = ReachedTests(made, s)
      BY <1>2, <1>3, <1>4 DEF ReachedTests, ReachedDefinitions
    <2>2. done.rtests = tests
      BY <1>1, <1>5 DEF Evaluate
    <2> QED BY <1>5, <2>1, <2>2 DEF EvalTests
  <1>7. PICK below : below = EvalExtended(made, s, tests)
    OBVIOUS
  <1>8. PICK x \in Result :
          done.rdefs = [below EXCEPT ![s] = [@ EXCEPT ![Len(below[s])] = Judged(Newest(below[s]), x)]]
    <2>1. PICK x \in Result : x = Verdict(Newest(below[s]), s, tests, below)
      BY VerdictIsResult
    <2> QED BY <1>1, <1>5, <1>7, <2>1 DEF Evaluate
  <1>9. \A k \in DOMAIN Nodes(s) : /\ Nodes(s)[k].kind = "test" => Nodes(s)[k].ref \in TestsOf(s)
                                   /\ Nodes(s)[k].kind # "test" => Nodes(s)[k].ref \in ExtendedBy(s)
    BY NodesShape, TestsShape
  <1>10. ASSUME NEW d \in Definitions, NEW i \in DOMAIN made.rdefs[d]
         PROVE  References(made.rdefs[d][i], d) = {<<Nodes(d)[k], made.rdefs[d][i].refs[k]>> : k \in DOMAIN Nodes(d)}
    BY DEF ReferencesIn, RefsIn, References
  <1>11. reached = {<<Nodes(s)[k], Newest(made.rdefs[s]).refs[k]>> : k \in DOMAIN Nodes(s)}
    <2>1. Len(made.rdefs[s]) \in DOMAIN made.rdefs[s]
      BY SeqShape DEF DefinitionResults
    <2> QED BY <1>2, <1>10, <2>1 DEF Newest, Reached
  <1>12. ASSUME NEW t \in DOMAIN Tests, NEW i, <<Node("test", t), i>> \in direct
         PROVE  t \in TestsOf(s)
    <2>1. CASE <<Node("test", t), i>> \in reached
      <3>1. PICK k \in DOMAIN Nodes(s) : <<Node("test", t), i>> = <<Nodes(s)[k], Newest(made.rdefs[s]).refs[k]>>
        BY <1>11, <2>1
      <3>2. Nodes(s)[k].kind = "test" /\ Nodes(s)[k].ref = t
        BY <3>1 DEF Node
      <3> QED BY <1>9, <3>2
    <2>2. CASE \E r \in extended : <<Node("test", t), i>> \in References(made.rdefs[r[1].ref][r[2]], r[1].ref)
      <3>1. PICK r \in extended : <<Node("test", t), i>> \in References(made.rdefs[r[1].ref][r[2]], r[1].ref)
        BY <2>2
      <3>2. PICK k \in DOMAIN Nodes(s) : r = <<Nodes(s)[k], Newest(made.rdefs[s]).refs[k]>> /\ Nodes(s)[k].kind = "extend"
        BY <1>3, <1>11
      <3>3. PICK e : e = Nodes(s)[k].ref
        OBVIOUS
      <3>4. e \in ExtendedBy(s) /\ e \in Definitions
        BY <1>9, <3>2, <3>3, TestsShape
      <3>5. PICK j : j = Newest(made.rdefs[s]).refs[k]
        OBVIOUS
      <3>6. j \in DOMAIN made.rdefs[e]
        <4>1. Len(made.rdefs[s]) \in DOMAIN made.rdefs[s]
          BY SeqShape DEF DefinitionResults
        <4>2. RefsIn(made.rtests, made.rdefs, s, Newest(made.rdefs[s]).refs)
          BY <4>1 DEF ReferencesIn, Newest
        <4> QED BY <3>2, <3>3, <3>5, <4>2 DEF RefsIn
      <3>7. PICK m \in DOMAIN Nodes(e) : <<Node("test", t), i>> = <<Nodes(e)[m], made.rdefs[e][j].refs[m]>>
        <4>1. r[1].ref = e /\ r[2] = j
          BY <3>2, <3>3, <3>5
        <4>2. <<Node("test", t), i>> \in References(made.rdefs[e][j], e)
          BY <3>1, <4>1
        <4> QED BY <1>10, <3>4, <3>6, <4>2
      <3>8. Nodes(e)[m].kind = "test" /\ Nodes(e)[m].ref = t
        BY <3>7 DEF Node
      <3>9. t \in DirectTests(e)
        BY <3>4, <3>8, NodesShape
      <3> QED BY <3>4, <3>9, TestsShape
    <2>3. <<Node("test", t), i>> \in reached
          \/ \E r \in extended : <<Node("test", t), i>> \in References(made.rdefs[r[1].ref][r[2]], r[1].ref)
      BY <1>4, <1>12
    <2> QED BY <2>1, <2>2, <2>3
  <1>13. ASSUME NEW t \in DOMAIN Tests, NEW i \in DOMAIN made.rtests[t]
         PROVE  \/ tests[t][i] = made.rtests[t][i]
                \/ /\ t \in TestsOf(s) /\ made.rtests[t][i].result = "noteval"
                   /\ tests[t][i] = EvalTest(t, made.rtests[t][i])
    <2>1. tests[t][i] = IF <<Node("test", t), i>> \in direct THEN EvalTest(t, made.rtests[t][i])
                        ELSE made.rtests[t][i]
      BY <1>6
    <2>2. made.rtests[t][i].result # "noteval" => EvalTest(t, made.rtests[t][i]) = made.rtests[t][i]
      BY DEF EvalTest
    <2> QED BY <1>12, <2>1, <2>2
  <1>14. /\ tests = [t \in DOMAIN Tests |-> tests[t]]
         /\ \A t \in DOMAIN Tests : tests[t] = [i \in DOMAIN made.rtests[t] |-> tests[t][i]]
    BY <1>6
  <1>15. /\ below = [d \in Definitions |-> below[d]]
         /\ \A d \in Definitions : below[d] = [i \in DOMAIN made.rdefs[d] |-> below[d][i]]
         /\ \A d \in Definitions : \A i \in DOMAIN made.rdefs[d] :
              \/ below[d][i] = made.rdefs[d][i]
              \/ \E q \in Result : below[d][i] = Judged(made.rdefs[d][i], q)
    BY <1>7, VerdictIsResult DEF EvalExtended
  <1>16. PICK own : own = [below[s] EXCEPT ![Len(below[s])] = Judged(Newest(below[s]), x)]
    OBVIOUS
  <1>17. PICK defs : defs = done.rdefs
    OBVIOUS
  <1>18. defs = [below EXCEPT ![s] = own]
    BY <1>8, <1>16, <1>17
  <1>19. /\ defs = [d \in Definitions |-> defs[d]]
         /\ \A d \in Definitions : defs[d] = IF d = s THEN own ELSE below[d]
    BY <1>15, <1>18
  <1>20. /\ own = [i \in DOMAIN made.rdefs[s] |-> own[i]]
         /\ \A i \in DOMAIN made.rdefs[s] :
              own[i] = below[s][i] \/ own[i] = Judged(below[s][i], x)
    BY <1>15, <1>16 DEF Newest
  <1>21. ASSUME NEW d \in Definitions, NEW i \in DOMAIN made.rdefs[d]
         PROVE  \/ defs[d][i] = made.rdefs[d][i]
                \/ \E z \in Result : defs[d][i] = Judged(made.rdefs[d][i], z)
                \/ \E q, z \in Result : defs[d][i] = Judged(Judged(made.rdefs[d][i], q), z)
    <2>1. CASE d # s
      BY <1>15, <1>19, <2>1
    <2>2. CASE d = s
      <3>1. \/ below[s][i] = made.rdefs[s][i]
            \/ \E q \in Result : below[s][i] = Judged(made.rdefs[s][i], q)
        BY <1>15, <2>2
      <3>2. own[i] = below[s][i] \/ own[i] = Judged(below[s][i], x)
        BY <1>20, <2>2
      <3>3. defs[d][i] = own[i]
        BY <1>19, <2>2
      <3> QED BY <2>2, <3>1, <3>2, <3>3
    <2> QED BY <2>1, <2>2
  <1>22. \A d \in Definitions : defs[d] = [i \in DOMAIN made.rdefs[d] |-> defs[d][i]]
    BY <1>15, <1>19, <1>20
  <1>23. Evaluated_(done, made, s)
    <2>1. tests = done.rtests /\ defs = done.rdefs
      BY <1>6, <1>17
    <2>2. done.rtests = [t \in DOMAIN Tests |-> done.rtests[t]] /\ done.rdefs = [d \in Definitions |-> done.rdefs[d]]
      BY ONLY <2>1, <1>14, <1>19
    <2>3. ASSUME NEW t \in DOMAIN Tests
          PROVE  /\ done.rtests[t] = [i \in DOMAIN made.rtests[t] |-> done.rtests[t][i]]
                 /\ \A i \in DOMAIN made.rtests[t] :
                      \/ done.rtests[t][i] = made.rtests[t][i]
                      \/ /\ t \in TestsOf(s) /\ made.rtests[t][i].result = "noteval"
                         /\ done.rtests[t][i] = EvalTest(t, made.rtests[t][i])
      BY <2>1, <1>13, <1>14
    <2>4. ASSUME NEW d \in Definitions
          PROVE  done.rdefs[d] = [i \in DOMAIN made.rdefs[d] |-> done.rdefs[d][i]]
      BY <2>1, <1>22
    <2>5. ASSUME NEW d \in Definitions, NEW i \in DOMAIN made.rdefs[d]
          PROVE  \/ done.rdefs[d][i] = made.rdefs[d][i]
                 \/ \E z \in Result : done.rdefs[d][i] = Judged(made.rdefs[d][i], z)
                 \/ \E q, z \in Result : done.rdefs[d][i] = Judged(Judged(made.rdefs[d][i], q), z)
      BY <2>1, <1>21
    <2> QED BY ONLY <2>2, <2>3, <2>4, <2>5 DEF Evaluated_
  <1> QED BY <1>1, <1>23
\* A verdict leaves number and references of a result alone.
LEMMA JudgedShape ==
  ASSUME NEW rd, NEW q \in Result, IsDefinition(rd)
  PROVE  /\ IsDefinition(Judged(rd, q)) /\ Judged(rd, q).inst = rd.inst
         /\ Judged(rd, q).hint = rd.hint /\ Judged(rd, q).refs = rd.refs
  <1>1. CASE rd.result # "noteval"
    BY <1>1 DEF Judged
  <1>2. CASE rd.result = "noteval"
    <2>1. Judged(rd, q) = [inst |-> rd.inst, hint |-> rd.hint, result |-> q, refs |-> rd.refs]
      <3>1. Judged(rd, q) = [rd EXCEPT !.result = q]
        BY <1>2 DEF Judged
      <3>2. rd = [inst |-> rd.inst, hint |-> rd.hint, result |-> rd.result, refs |-> rd.refs]
        BY DEF IsDefinition
      <3> QED BY <3>1, <3>2
    <2> QED BY <2>1 DEF IsDefinition
  <1> QED BY <1>1, <1>2

\* An object that has not been collected makes a test an error.
LEMMA UncollectedIsError ==
  ASSUME NEW test, NEW flag, NEW items, flag = "unknown"
  PROVE  evaluate_items(test, flag, items) = "error"
  BY DEF evaluate_items

\* A test is evaluated once, from the newest instance of its object.
LEMMA EvalTestShape ==
  ASSUME Shapes, NEW t \in DOMAIN Tests, NEW r, IsTest(r)
  PROVE  /\ IsTest(EvalTest(t, r)) /\ EvalTest(t, r).inst = r.inst
         /\ r.result = "noteval" =>
              /\ EvalTest(t, r).syschar = Len(syschars[Tests[t].object])
              /\ EvalTest(t, r).saw = Newest(syschars[Tests[t].object]).saw \cup Seen(Tests[t].variable)
              /\ Newest(syschars[Tests[t].object]).flag = "unknown" => EvalTest(t, r).result = "error"
  <1>1. CASE r.result # "noteval"
    BY <1>1 DEF EvalTest
  <1>2. CASE r.result = "noteval"
    <2>1. PICK n : n = Len(syschars[Tests[t].object])
      OBVIOUS
    <2>2. PICK saw : saw = Newest(syschars[Tests[t].object]).saw \cup Seen(Tests[t].variable)
      OBVIOUS
    <2>3. PICK q : /\ EvalTest(t, r) = [r EXCEPT !.result = q, !.saw = saw, !.syschar = n]
                   /\ Newest(syschars[Tests[t].object]).flag = "unknown" => q = "error"
      <3>1. PICK flag : flag = Newest(syschars[Tests[t].object]).flag
        OBVIOUS
      <3>2. PICK test, items :
              EvalTest(t, r) = [r EXCEPT !.result = evaluate_items(test, flag, items),
                                         !.saw = saw, !.syschar = n]
        BY <1>2, <2>1, <2>2, <3>1 DEF EvalTest
      <3>3. PICK q : q = evaluate_items(test, flag, items)
        OBVIOUS
      <3>4. EvalTest(t, r) = [r EXCEPT !.result = q, !.saw = saw, !.syschar = n]
        BY <3>2, <3>3
      <3>5. flag = "unknown" => q = "error"
        BY <3>3, UncollectedIsError
      <3> QED BY <3>1, <3>4, <3>5
    <2>4. EvalTest(t, r) = [inst |-> r.inst, result |-> q, saw |-> saw, syschar |-> n]
      BY <2>3 DEF IsTest
    <2>5. n \in Nat
      BY <2>1, ContentAssumption DEF Shapes, IsSeq
    <2> QED BY <2>1, <2>2, <2>3, <2>4, <2>5 DEF IsTest
  <1> QED BY <1>1, <1>2

\* The numbers and references of results that have been judged.
SameNumbers(new, old) ==
  /\ DefinitionResults(new) /\ Len(new) = Len(old) /\ DOMAIN new = DOMAIN old
  /\ Started(new) <=> Started(old)
  /\ Hinted(new) <=> Hinted(old)
  /\ \A i \in DOMAIN old : /\ new[i].inst = old[i].inst /\ new[i].hint = old[i].hint
                           /\ new[i].refs = old[i].refs
  /\ Started(old) => /\ Newest(new).inst = Newest(old).inst /\ Newest(new).hint = Newest(old).hint
                     /\ Newest(new).refs = Newest(old).refs

\* The evaluation leaves number, hint and references of all results alone.
LEMMA EvaluatedDefinitions ==
  ASSUME NEW s \in Definitions, NEW made, NEW done, Evaluated_(done, made, s),
         NEW d \in Definitions, DefinitionResults(made.rdefs[d])
  PROVE  SameNumbers(done.rdefs[d], made.rdefs[d])
  <1>1. PICK old : old = made.rdefs[d]
    OBVIOUS
  <1>2. PICK new : new = done.rdefs[d]
    OBVIOUS
  <1>3. /\ new = [i \in DOMAIN old |-> new[i]]
        /\ \A i \in DOMAIN old : \/ new[i] = old[i]
                                 \/ \E r \in Result : new[i] = Judged(old[i], r)
                                 \/ \E q, r \in Result : new[i] = Judged(Judged(old[i], q), r)
    BY <1>1, <1>2 DEF Evaluated_
  <1>4. IsSeq(old) /\ \A i \in DOMAIN old : IsDefinition(old[i])
    BY <1>1 DEF DefinitionResults
  <1>5. IsSeq(new) /\ Len(new) = Len(old) /\ DOMAIN new = DOMAIN old
    BY <1>3, <1>4, SameLength
  <1>6. ASSUME NEW i \in DOMAIN old
        PROVE  /\ IsDefinition(new[i]) /\ new[i].inst = old[i].inst
               /\ new[i].hint = old[i].hint /\ new[i].refs = old[i].refs
    <2>1. IsDefinition(old[i])
      BY <1>4
    <2>2. CASE new[i] = old[i]
      BY <2>1, <2>2
    <2>3. CASE \E r \in Result : new[i] = Judged(old[i], r)
      BY <2>1, <2>3, JudgedShape
    <2>4. CASE \E q, r \in Result : new[i] = Judged(Judged(old[i], q), r)
      <3>1. PICK q, r \in Result : new[i] = Judged(Judged(old[i], q), r)
        BY <2>4
      <3>2. /\ IsDefinition(Judged(old[i], q)) /\ Judged(old[i], q).inst = old[i].inst
            /\ Judged(old[i], q).hint = old[i].hint /\ Judged(old[i], q).refs = old[i].refs
        BY <2>1, JudgedShape
      <3> QED BY <3>1, <3>2, JudgedShape
    <2> QED BY <1>3, <2>2, <2>3, <2>4
  <1>7. Started(new) <=> Started(old)
    BY <1>4, <1>5, SeqShape
  <1>8. Started(old) => /\ Newest(new).inst = Newest(old).inst /\ Newest(new).hint = Newest(old).hint
                        /\ Newest(new).refs = Newest(old).refs
    <2>1. Started(old) => Len(old) \in DOMAIN old
      BY <1>4, SeqShape
    <2> QED BY <1>5, <1>6, <2>1 DEF Newest
  <1>9. Hinted(new) <=> Hinted(old)
    BY <1>7, <1>8 DEF Hinted
  <1>10. DefinitionResults(new)
    BY <1>5, <1>6 DEF DefinitionResults
  <1> QED BY <1>1, <1>2, <1>5, <1>6, <1>7, <1>8, <1>9, <1>10 DEF SameNumbers

\* A test the evaluation touches is one of the definition that had no
\* result; it then points to the newest instance of its object.
LEMMA EvaluatedTests ==
  ASSUME Shapes, NEW s \in Definitions, NEW made, NEW done, Evaluated_(done, made, s),
         Growing(made.rtests), NEW t \in DOMAIN Tests
  PROVE  /\ IsSeq(done.rtests[t]) /\ Len(done.rtests[t]) = Len(made.rtests[t])
         /\ DOMAIN done.rtests[t] = DOMAIN made.rtests[t]
         /\ DOMAIN rtests[t] \subseteq DOMAIN done.rtests[t]
         /\ \A i \in DOMAIN made.rtests[t] :
              /\ IsTest(done.rtests[t][i]) /\ done.rtests[t][i].inst = made.rtests[t][i].inst
              /\ \/ done.rtests[t][i] = made.rtests[t][i]
                 \/ /\ t \in TestsOf(s) /\ made.rtests[t][i].result = "noteval"
                    /\ done.rtests[t][i].syschar = Len(syschars[Tests[t].object])
                    /\ done.rtests[t][i].saw = Newest(syschars[Tests[t].object]).saw \cup Seen(Tests[t].variable)
                    /\ Newest(syschars[Tests[t].object]).flag = "unknown" => done.rtests[t][i].result = "error"
         /\ \A i \in DOMAIN rtests[t] :
              rtests[t][i].result # "noteval" => done.rtests[t][i] = rtests[t][i]
         /\ Started(done.rtests[t]) <=> Started(made.rtests[t])
         /\ Started(made.rtests[t]) => Newest(done.rtests[t]).inst = Newest(made.rtests[t]).inst
  <1>1. PICK old : old = made.rtests[t]
    OBVIOUS
  <1>2. PICK new : new = done.rtests[t]
    OBVIOUS
  <1>3. /\ new = [i \in DOMAIN old |-> new[i]]
        /\ \A i \in DOMAIN old : \/ new[i] = old[i]
                                 \/ /\ t \in TestsOf(s) /\ old[i].result = "noteval"
                                    /\ new[i] = EvalTest(t, old[i])
    BY <1>1, <1>2 DEF Evaluated_
  <1>4. Longer(old, rtests[t]) /\ IsSeq(old) /\ \A i \in DOMAIN old : IsTest(old[i])
    BY <1>1 DEF Growing, Longer
  <1>5. IsSeq(new) /\ Len(new) = Len(old) /\ DOMAIN new = DOMAIN old
    BY <1>3, <1>4, SameLength
  <1>6. ASSUME NEW i \in DOMAIN old
        PROVE  /\ IsTest(new[i]) /\ new[i].inst = old[i].inst
               /\ \/ new[i] = old[i]
                  \/ /\ t \in TestsOf(s) /\ old[i].result = "noteval"
                     /\ new[i].syschar = Len(syschars[Tests[t].object])
                     /\ new[i].saw = Newest(syschars[Tests[t].object]).saw \cup Seen(Tests[t].variable)
                     /\ Newest(syschars[Tests[t].object]).flag = "unknown" => new[i].result = "error"
    BY <1>3, <1>4, EvalTestShape
  <1>7. \A i \in DOMAIN rtests[t] :
          /\ i \in DOMAIN new
          /\ rtests[t][i].result # "noteval" => new[i] = rtests[t][i]
    BY <1>4, <1>5, <1>6 DEF Longer
  <1>8. Started(new) <=> Started(old)
    BY <1>4, <1>5, SeqShape
  <1>9. Started(old) => Newest(new).inst = Newest(old).inst
    <2>1. Started(old) => Len(old) \in DOMAIN old
      BY <1>4, SeqShape
    <2> QED BY <1>5, <1>6, <2>1 DEF Newest
  <1> QED BY <1>1, <1>2, <1>5, <1>6, <1>7, <1>8, <1>9

\* What the evaluation of definition s comes to.
Evaluation(made, s) ==
  /\ Instanced(made, s)
  /\ ReferencesIn(made.rtests, made.rdefs)
  /\ \A d \in Definitions :
       /\ DefinitionResults(made.rdefs[d]) /\ SameNumbers(rdefs'[d], made.rdefs[d])
       /\ DOMAIN rdefs[d] \subseteq DOMAIN made.rdefs[d]
       /\ \A i \in DOMAIN rdefs[d] : made.rdefs[d][i] = rdefs[d][i]
       /\ Started(rdefs[d]) => Started(made.rdefs[d])
  /\ rdefs' = [d \in Definitions |-> rdefs'[d]] /\ rtests' = [t \in DOMAIN Tests |-> rtests'[t]]
  /\ \A t \in DOMAIN Tests :
       /\ IsSeq(rtests'[t]) /\ Len(rtests'[t]) = Len(made.rtests[t])
       /\ DOMAIN rtests'[t] = DOMAIN made.rtests[t]
       /\ DOMAIN rtests[t] \subseteq DOMAIN rtests'[t]
       /\ \A i \in DOMAIN made.rtests[t] :
            /\ IsTest(rtests'[t][i]) /\ rtests'[t][i].inst = made.rtests[t][i].inst
            /\ \/ rtests'[t][i] = made.rtests[t][i]
               \/ /\ t \in TestsOf(s) /\ made.rtests[t][i].result = "noteval"
                  /\ rtests'[t][i].syschar = Len(syschars[Tests[t].object])
                  /\ rtests'[t][i].saw = Newest(syschars[Tests[t].object]).saw \cup Seen(Tests[t].variable)
                  /\ Newest(syschars[Tests[t].object]).flag = "unknown" => rtests'[t][i].result = "error"
       /\ \A i \in DOMAIN rtests[t] :
            rtests[t][i].result # "noteval" => rtests'[t][i] = rtests[t][i]
       /\ Started(rtests'[t]) <=> Started(made.rtests[t])
       /\ Started(made.rtests[t]) => Newest(rtests'[t]).inst = Newest(made.rtests[t]).inst

\* EvalDefinition makes what is missing and evaluates that.
LEMMA EvalDefinitionShape ==
  ASSUME CallOK, Shapes, References_, Numbers, EvalDefinition
  PROVE  Subject \in Definitions /\ \E made : Evaluation(made, Subject)
  <1>1. call.defs \in Seq(Definitions) /\ call.defs # <<>>
    BY DEF CallOK, EvalDefinition, Probed
  <1>2. PICK s \in Definitions : s = Subject
    <2>1. PICK defs : defs = call.defs
      OBVIOUS
    <2>2. defs[1] \in Definitions
      BY <1>1, <2>1
    <2> QED BY <2>1, <2>2 DEF Subject
  <1>3. PICK made : /\ made = IF ~Pending(s) THEN [rdefs |-> rdefs, rtests |-> rtests] ELSE MakeDefinition(s)
                    /\ rdefs' = Evaluate(made, s).rdefs /\ rtests' = Evaluate(made, s).rtests
    <2>1. PICK done, made : /\ made = IF Started(rdefs[s]) /\ ~Hinted(rdefs[s])
                                      THEN [rdefs |-> rdefs, rtests |-> rtests] ELSE MakeDefinition(s)
                            /\ done = Evaluate(made, s)
                            /\ rdefs' = done.rdefs /\ rtests' = done.rtests
      BY <1>2 DEF EvalDefinition
    <2>2. Pending(s) <=> ~(Started(rdefs[s]) /\ ~Hinted(rdefs[s]))
      BY DEF Pending
    <2> QED BY <2>1, <2>2
  <1>4. Instanced(made, s)
    <2>1. CASE Pending(s)
      BY <1>3, <2>1, MakeDefinitionInstanced
    <2>2. CASE ~Pending(s)
      BY <1>3, <2>2, KeptInstanced
    <2> QED BY <2>1, <2>2
  <1>5. /\ \A d \in Definitions :
             /\ DefinitionResults(made.rdefs[d]) /\ Len(rdefs[d]) <= Len(made.rdefs[d])
             /\ DOMAIN rdefs[d] \subseteq DOMAIN made.rdefs[d]
             /\ \A i \in DOMAIN rdefs[d] : made.rdefs[d][i] = rdefs[d][i]
             /\ Started(rdefs[d]) => Started(made.rdefs[d])
        /\ ReferencesIn(made.rtests, made.rdefs)
    BY <1>4, InstancedReferences
  <1>6. PICK done : done = Evaluate(made, s)
    OBVIOUS
  <1>7. Evaluated_(done, made, s)
    BY <1>4, <1>5, <1>6, EvaluateShape DEF Instanced
  <1>8. rdefs' = done.rdefs /\ rtests' = done.rtests
    BY <1>3, <1>6
  <1>9. \A d \in Definitions : SameNumbers(rdefs'[d], made.rdefs[d])
    BY <1>5, <1>7, <1>8, EvaluatedDefinitions
  <1>10. rdefs' = [d \in Definitions |-> rdefs'[d]] /\ rtests' = [t \in DOMAIN Tests |-> rtests'[t]]
    BY <1>7, <1>8 DEF Evaluated_
  <1>11. ASSUME NEW t \in DOMAIN Tests
         PROVE  /\ IsSeq(rtests'[t]) /\ Len(rtests'[t]) = Len(made.rtests[t])
                /\ DOMAIN rtests'[t] = DOMAIN made.rtests[t]
                /\ DOMAIN rtests[t] \subseteq DOMAIN rtests'[t]
                /\ \A i \in DOMAIN made.rtests[t] :
                     /\ IsTest(rtests'[t][i]) /\ rtests'[t][i].inst = made.rtests[t][i].inst
                     /\ \/ rtests'[t][i] = made.rtests[t][i]
                        \/ /\ t \in TestsOf(s) /\ made.rtests[t][i].result = "noteval"
                           /\ rtests'[t][i].syschar = Len(syschars[Tests[t].object])
                           /\ rtests'[t][i].saw = Newest(syschars[Tests[t].object]).saw \cup Seen(Tests[t].variable)
                           /\ Newest(syschars[Tests[t].object]).flag = "unknown" => rtests'[t][i].result = "error"
                /\ \A i \in DOMAIN rtests[t] :
                     rtests[t][i].result # "noteval" => rtests'[t][i] = rtests[t][i]
                /\ Started(rtests'[t]) <=> Started(made.rtests[t])
                /\ Started(made.rtests[t]) => Newest(rtests'[t]).inst = Newest(made.rtests[t]).inst
    <2>1. Growing(made.rtests)
      BY <1>4 DEF Instanced
    <2> QED BY ONLY Shapes, <1>7, <1>8, <2>1, EvaluatedTests
  <1>12. Evaluation(made, s)
    BY <1>4, <1>5, <1>9, <1>10, <1>11 DEF Evaluation
  <1> QED BY <1>2, <1>12

\* Evaluating a definition keeps the shapes, references and numbers, and the
\* definition has a result for its current instance.
LEMMA EvalDefinitionResults ==
  ASSUME CallOK, Shapes, References_, Numbers, EvalDefinition
  PROVE  Shapes' /\ References_' /\ Numbers' /\ Evaluated'
  <1>1. PICK s \in Definitions : s = Subject
    BY EvalDefinitionShape
  <1>2. PICK made : Evaluation(made, s)
    BY <1>1, EvalDefinitionShape
  <1>3. UNCHANGED <<memo, rcache, syschars>> /\ call' = [call EXCEPT !.pc = "evaluated"]
    BY DEF EvalDefinition
  <1>4. Shapes'
    <2>1. \A d \in Definitions : DefinitionResults(rdefs'[d])
      BY <1>2 DEF Evaluation, SameNumbers
    <2>2. ASSUME NEW t \in DOMAIN Tests
          PROVE  IsSeq(rtests'[t]) /\ \A i \in DOMAIN rtests'[t] : IsTest(rtests'[t][i])
      BY <1>2 DEF Evaluation
    <2>3. rdefs' = [d \in Definitions |-> rdefs'[d]] /\ rtests' = [t \in DOMAIN Tests |-> rtests'[t]]
      BY <1>2 DEF Evaluation
    <2> QED BY <1>3, <2>1, <2>2, <2>3 DEF Shapes, DefinitionResults
  <1>5. /\ \A d \in Definitions : DOMAIN rdefs'[d] = DOMAIN made.rdefs[d]
        /\ \A d \in Definitions : Started(rdefs'[d]) <=> Started(made.rdefs[d])
        /\ \A t \in DOMAIN Tests : DOMAIN rtests'[t] = DOMAIN made.rtests[t]
    BY <1>2 DEF Evaluation, SameNumbers
  <1>6. References_'
    <2>1. ASSUME NEW d \in Definitions, NEW i \in DOMAIN rdefs'[d], NEW refs, refs = rdefs'[d][i].refs
          PROVE  RefsOK(d, refs)'
      <3>2. RefsIn(made.rtests, made.rdefs, d, refs)
        BY <1>2, <1>5, <2>1 DEF Evaluation, SameNumbers, ReferencesIn
      <3>3. ASSUME NEW k \in DOMAIN refs
            PROVE  refs[k] \in IF Nodes(d)[k].kind = "test" THEN DOMAIN rtests'[Nodes(d)[k].ref]
                               ELSE DOMAIN rdefs'[Nodes(d)[k].ref]
        <4>1. /\ k \in DOMAIN Nodes(d)
              /\ refs[k] \in IF Nodes(d)[k].kind = "test" THEN DOMAIN made.rtests[Nodes(d)[k].ref]
                             ELSE DOMAIN made.rdefs[Nodes(d)[k].ref]
          BY <3>2 DEF RefsIn
        <4>2. /\ Nodes(d)[k].kind = "test" => Nodes(d)[k].ref \in DOMAIN Tests
              /\ Nodes(d)[k].kind # "test" => Nodes(d)[k].ref \in Definitions
          BY <4>1, NodesShape
        <4> QED BY <1>5, <4>1, <4>2
      <3>4. DOMAIN refs = DOMAIN Nodes(d)
        BY <3>2 DEF RefsIn
      <3> QED BY <3>3, <3>4 DEF RefsOK
    <2>2. ASSUME NEW d \in Definitions, Started(rdefs'[d]), NEW e \in ExtendedBy(d)
          PROVE  Started(rdefs'[e])
      <3>1. e \in Definitions
        BY TestsShape
      <3> QED BY <1>2, <1>5, <2>2, <3>1 DEF Evaluation, ReferencesIn
    <2> QED BY <2>1, <2>2 DEF References_, RefsOK
  <1>7. Numbers'
    <2>1. ASSUME NEW t \in DOMAIN Tests, Started(rtests'[t])
          PROVE  \E d \in Definitions : /\ t \in DirectTests(d) /\ Started(rdefs'[d])
                                        /\ Newest(rtests'[t]).inst <= Newest(rdefs'[d]).inst
      <3>1. Started(made.rtests[t]) /\ Newest(rtests'[t]).inst = Newest(made.rtests[t]).inst
        BY <1>2, <2>1 DEF Evaluation
      <3>2. PICK d \in Definitions : /\ t \in DirectTests(d) /\ Started(made.rdefs[d])
                                     /\ Newest(made.rtests[t]).inst <= Newest(made.rdefs[d]).inst
        BY <1>2, <3>1 DEF Evaluation, Instanced, NumbersOf
      <3>3. Started(rdefs'[d]) /\ Newest(rdefs'[d]).inst = Newest(made.rdefs[d]).inst
        BY <1>2, <3>2 DEF Evaluation, SameNumbers
      <3> QED BY <3>1, <3>2, <3>3
    <2> QED BY <2>1 DEF Numbers
  <1>8. Evaluated'
    <2>1. Subject' = s
      <3>1. call'.defs = call.defs
        BY <1>3 DEF CallOK
      <3> QED BY <1>1, <3>1 DEF Subject
    <2>2. Started(rdefs'[s]) /\ ~Hinted(rdefs'[s])
      BY <1>2 DEF Evaluation, Instanced, SameNumbers
    <2> QED BY <2>1, <2>2 DEF Evaluated
  <1> QED BY <1>4, <1>6, <1>7, <1>8

-----------------------------------------------------------------------------
(* Bindings.                                                               *)

\* Of the definitions to hint there is a last one.
LEMMA LastOfDefinitions ==
  ASSUME NEW S \in SUBSET Definitions, S # {}
  PROVE  LastOf(S) \in S
  <1>1. DefinitionIds \in Seq(Definitions) /\ DOMAIN DefinitionIds = 1 .. Len(DefinitionIds)
        /\ Len(DefinitionIds) \in Nat
    BY ContentAssumption
  <1>2. PICK T : T = {j \in DOMAIN DefinitionIds : DefinitionIds[j] \in S}
    OBVIOUS
  <1>3. T # {} /\ T \subseteq 1 .. Len(DefinitionIds)
    BY <1>1, <1>2 DEF Definitions, Range
  <1>4. PICK U : U = {Len(DefinitionIds) - j : j \in T}
    OBVIOUS
  <1>5. PICK u \in U : \A y \in U : u <= y
    <2>1. \A j \in T : Len(DefinitionIds) - j \in Nat
      BY <1>1, <1>3
    <2>2. U # {} /\ U \subseteq Nat
      BY <1>3, <1>4, <2>1
    <2> QED BY ONLY <2>2, Smallest
  <1>6. PICK i \in T : u = Len(DefinitionIds) - i
    BY <1>4
  <1>7. \A j \in T : j <= i
    <2>1. ASSUME NEW j \in T PROVE j <= i
      <3>1. u <= Len(DefinitionIds) - j
        BY <1>4, <1>5
      <3> QED BY <1>1, <1>3, <1>6, <3>1
    <2> QED BY <2>1
  <1>8. PICK d \in S : d = DefinitionIds[i]
    BY <1>2
  <1>9. i \in DOMAIN DefinitionIds /\ \A j \in DOMAIN DefinitionIds : DefinitionIds[j] \in S => j <= i
    BY <1>2, <1>7
  <1>10. \E e \in S : \E k \in DOMAIN DefinitionIds :
           DefinitionIds[k] = e /\ \A j \in DOMAIN DefinitionIds : DefinitionIds[j] \in S => j <= k
    BY <1>8, <1>9
  <1> QED BY <1>10 DEF LastOf

\* The results of the definitions that are hinted.
LEMMA HintedDefinitions ==
  ASSUME Shapes, NEW x, NEW new, new = HintDefinitions(x)
  PROVE  /\ new = [d \in Definitions |-> new[d]]
         /\ \A d \in Definitions :
              /\ DefinitionResults(new[d]) /\ Len(new[d]) = Len(rdefs[d]) /\ DOMAIN new[d] = DOMAIN rdefs[d]
              /\ Started(new[d]) <=> Started(rdefs[d])
              /\ \A i \in DOMAIN rdefs[d] : /\ new[d][i].inst = rdefs[d][i].inst
                                            /\ new[d][i].refs = rdefs[d][i].refs
              /\ Started(rdefs[d]) => /\ Newest(new[d]).inst = Newest(rdefs[d]).inst
                                      /\ Newest(new[d]).refs = Newest(rdefs[d]).refs
              /\ d \in HintedFor(x) => Hinted(new[d]) /\ Newest(new[d]).hint = Newest(rdefs[d]).inst + 1
              /\ d \notin HintedFor(x) => new[d] = rdefs[d]
  <1>1. /\ new = [d \in Definitions |-> new[d]]
        /\ \A d \in Definitions :
             new[d] = IF d \in HintedFor(x) THEN Hint(rdefs[d], NextNumber(d)) ELSE rdefs[d]
    BY DEF HintDefinitions
  <1>2. ASSUME NEW d \in Definitions
        PROVE  /\ DefinitionResults(new[d]) /\ Len(new[d]) = Len(rdefs[d]) /\ DOMAIN new[d] = DOMAIN rdefs[d]
               /\ Started(new[d]) <=> Started(rdefs[d])
               /\ \A i \in DOMAIN rdefs[d] : /\ new[d][i].inst = rdefs[d][i].inst
                                             /\ new[d][i].refs = rdefs[d][i].refs
               /\ Started(rdefs[d]) => /\ Newest(new[d]).inst = Newest(rdefs[d]).inst
                                       /\ Newest(new[d]).refs = Newest(rdefs[d]).refs
               /\ d \in HintedFor(x) => Hinted(new[d]) /\ Newest(new[d]).hint = Newest(rdefs[d]).inst + 1
    <2>1. DefinitionResults(rdefs[d]) /\ IsSeq(rdefs[d])
      BY DEF Shapes, DefinitionResults
    <2>2. CASE d \notin HintedFor(x)
      BY <1>1, <2>1, <2>2
    <2>3. CASE d \in HintedFor(x)
      <3>1. Started(rdefs[d])
        BY <2>3 DEF HintedFor
      <3>2. PICK n \in Nat : n = Newest(rdefs[d]).inst + 1
        <4>1. Newest(rdefs[d]).inst \in Nat
          BY <3>1, NumberType
        <4> QED BY <4>1
      <3>3. PICK r : r = Hint(rdefs[d], n)
        OBVIOUS
      <3>4. new[d] = r
        BY <1>1, <2>3, <3>2, <3>3 DEF NextNumber
      <3>5. /\ DefinitionResults(r) /\ Len(r) = Len(rdefs[d]) /\ DOMAIN r = DOMAIN rdefs[d]
            /\ \A i \in DOMAIN rdefs[d] : r[i].inst = rdefs[d][i].inst /\ r[i].refs = rdefs[d][i].refs
            /\ Newest(r).hint = n /\ Hinted(r)
        BY <2>1, <3>1, <3>2, <3>3, HintResults
      <3>6. Started(r) /\ Len(rdefs[d]) \in DOMAIN rdefs[d]
        BY <2>1, <3>1, <3>5, SeqShape DEF Hinted
      <3>7. Newest(r).inst = Newest(rdefs[d]).inst /\ Newest(r).refs = Newest(rdefs[d]).refs
        BY <3>5, <3>6 DEF Newest
      <3> QED BY <3>1, <3>2, <3>4, <3>5, <3>6, <3>7
    <2> QED BY <2>2, <2>3
  <1>3. \A d \in Definitions : d \notin HintedFor(x) => new[d] = rdefs[d]
    BY <1>1
  <1> QED BY <1>1, <1>2, <1>3

\* The objects that are hinted with them.
Hinting(x, o) == {d \in HintedFor(x) : o \in ObjectsOf(d)}

\* What oval_probe_hint_definition does to the objects: the newest instance
\* of each is hinted with the next number of a definition it is a part of.
LEMMA HintedObjects ==
  ASSUME Shapes, NEW x, NEW new, new = HintObjects(x)
  PROVE  /\ new = [o \in DOMAIN Objects |-> new[o]]
         /\ \A o \in DOMAIN Objects :
              /\ Instances(new[o]) /\ Len(new[o]) = Len(syschars[o]) /\ DOMAIN new[o] = DOMAIN syschars[o]
              /\ Started(new[o]) <=> Started(syschars[o])
              /\ \A i \in DOMAIN syschars[o] : /\ new[o][i].inst = syschars[o][i].inst
                                               /\ new[o][i].flag = syschars[o][i].flag
                                               /\ new[o][i].saw = syschars[o][i].saw
              /\ Started(syschars[o]) => /\ Newest(new[o]).inst = Newest(syschars[o]).inst
                                         /\ Newest(new[o]).flag = Newest(syschars[o]).flag
                                         /\ Newest(new[o]).saw = Newest(syschars[o]).saw
              /\ Hinting(x, o) = {} => new[o] = syschars[o]
              /\ Started(syschars[o]) /\ Hinting(x, o) # {} =>
                   \E d \in Hinting(x, o) : Newest(new[o]).hint = Newest(rdefs[d]).inst + 1
  <1>1. /\ new = [o \in DOMAIN Objects |-> new[o]]
        /\ \A o \in DOMAIN Objects :
             new[o] = IF Hinting(x, o) = {} THEN syschars[o]
                      ELSE Hint(syschars[o], NextNumber(LastOf(Hinting(x, o))))
    BY DEF HintObjects, Hinting
  <1>2. ASSUME NEW o \in DOMAIN Objects
        PROVE  /\ Instances(new[o]) /\ Len(new[o]) = Len(syschars[o]) /\ DOMAIN new[o] = DOMAIN syschars[o]
               /\ Started(new[o]) <=> Started(syschars[o])
               /\ \A i \in DOMAIN syschars[o] : /\ new[o][i].inst = syschars[o][i].inst
                                                /\ new[o][i].flag = syschars[o][i].flag
                                                /\ new[o][i].saw = syschars[o][i].saw
               /\ Started(syschars[o]) => /\ Newest(new[o]).inst = Newest(syschars[o]).inst
                                          /\ Newest(new[o]).flag = Newest(syschars[o]).flag
                                          /\ Newest(new[o]).saw = Newest(syschars[o]).saw
               /\ Started(syschars[o]) /\ Hinting(x, o) # {} =>
                    \E d \in Hinting(x, o) : Newest(new[o]).hint = Newest(rdefs[d]).inst + 1
    <2>1. Instances(syschars[o]) /\ IsSeq(syschars[o])
      BY DEF Shapes, Instances
    <2>2. CASE Hinting(x, o) = {}
      BY <1>1, <2>1, <2>2
    <2>3. CASE Hinting(x, o) # {}
      <3>1. PICK d \in Hinting(x, o) : d = LastOf(Hinting(x, o))
        <4>1. Hinting(x, o) \in SUBSET Definitions
          BY DEF Hinting, HintedFor, Dependents
        <4> QED BY <2>3, <4>1, LastOfDefinitions
      <3>2. d \in Definitions /\ Started(rdefs[d])
        BY <3>1 DEF Hinting, HintedFor, Dependents
      <3>3. PICK n \in Nat : n = Newest(rdefs[d]).inst + 1
        <4>1. Newest(rdefs[d]).inst \in Nat
          BY <3>2, NumberType
        <4> QED BY <4>1
      <3>4. PICK r : r = Hint(syschars[o], n)
        OBVIOUS
      <3>5. new[o] = r
        BY <1>1, <2>3, <3>1, <3>3, <3>4 DEF NextNumber
      <3>6. /\ Instances(r) /\ Len(r) = Len(syschars[o]) /\ DOMAIN r = DOMAIN syschars[o]
            /\ \A i \in DOMAIN syschars[o] : /\ r[i].inst = syschars[o][i].inst
                                             /\ r[i].flag = syschars[o][i].flag
                                             /\ r[i].saw = syschars[o][i].saw
            /\ Started(syschars[o]) => Newest(r).hint = n
        BY <2>1, <3>4, HintInstances
      <3>7. /\ Started(r) <=> Started(syschars[o])
            /\ Started(syschars[o]) => Len(syschars[o]) \in DOMAIN syschars[o]
        BY <2>1, <3>6, SeqShape DEF Instances
      <3>8. Started(syschars[o]) => /\ Newest(r).inst = Newest(syschars[o]).inst
                                    /\ Newest(r).flag = Newest(syschars[o]).flag
                                    /\ Newest(r).saw = Newest(syschars[o]).saw
        BY <3>6, <3>7 DEF Newest
      <3> QED BY <3>1, <3>3, <3>5, <3>6, <3>7, <3>8
    <2> QED BY <2>2, <2>3
  <1>3. \A o \in DOMAIN Objects : Hinting(x, o) = {} => new[o] = syschars[o]
    BY <1>1
  <1> QED BY <1>1, <1>2, <1>3

-----------------------------------------------------------------------------
(* What has been collected and evaluated stays.                            *)

AgentOK ==
  /\ Shapes /\ References_ /\ Numbers /\ Evidence /\ Cached
  /\ CallOK /\ QueryOK /\ Evaluated

\* The step of EvidenceStays.
EvidenceStep ==
  \A t \in DOMAIN Tests : \A i \in DOMAIN rtests[t] :
    LET test == rtests[t][i]
        object == syschars[Tests[t].object][test.syschar]
        later == syschars'[Tests[t].object]
    IN test.result # "noteval" =>
         /\ rtests'[t][i] = test
         /\ test.syschar \in DOMAIN later
         /\ IF object.flag = "unknown" THEN test.result = "error"
            ELSE /\ later[test.syschar].flag = object.flag
                 /\ later[test.syschar].saw = object.saw

\* The collected objects remain collected objects, and what one was found to
\* be it remains.
ObjectsStay ==
  /\ syschars' = [o \in DOMAIN Objects |-> syschars'[o]]
  /\ \A o \in DOMAIN Objects :
       /\ Instances(syschars'[o])
       /\ Started(syschars[o]) => Started(syschars'[o])
       /\ \A i \in DOMAIN syschars[o] :
            /\ i \in DOMAIN syschars'[o]
            /\ syschars[o][i].flag # "unknown" => /\ syschars'[o][i].flag = syschars[o][i].flag
                                                  /\ syschars'[o][i].saw = syschars[o][i].saw

\* Objects that are not touched stay.
LEMMA SameObjects ==
  ASSUME Shapes, syschars' = syschars
  PROVE  ObjectsStay
  BY DEF Shapes, ObjectsStay, Instances

\* Where objects stay and evaluated tests too, the evidence does.
LEMMA EvidenceKept ==
  ASSUME Evidence, ObjectsStay,
         \A t \in DOMAIN Tests : \A i \in DOMAIN rtests[t] :
           rtests[t][i].result # "noteval" => rtests'[t][i] = rtests[t][i]
  PROVE  EvidenceStep
  <1> SUFFICES ASSUME NEW t \in DOMAIN Tests, NEW i \in DOMAIN rtests[t], rtests[t][i].result # "noteval"
               PROVE  LET object == syschars[Tests[t].object][rtests[t][i].syschar]
                          later == syschars'[Tests[t].object]
                      IN /\ rtests[t][i].syschar \in DOMAIN later
                         /\ IF object.flag = "unknown" THEN rtests[t][i].result = "error"
                            ELSE /\ later[rtests[t][i].syschar].flag = object.flag
                                 /\ later[rtests[t][i].syschar].saw = object.saw
    BY DEF EvidenceStep
  <1>1. PICK o \in DOMAIN Objects : o = Tests[t].object
    BY ContentAssumption
  <1>2. PICK n : n = rtests[t][i].syschar
    OBVIOUS
  <1>3. n \in DOMAIN syschars[o] /\ (syschars[o][n].flag = "unknown" => rtests[t][i].result = "error")
    BY <1>1, <1>2 DEF Evidence
  <1>4. /\ n \in DOMAIN syschars'[o]
        /\ syschars[o][n].flag # "unknown" => /\ syschars'[o][n].flag = syschars[o][n].flag
                                              /\ syschars'[o][n].saw = syschars[o][n].saw
    BY <1>3 DEF ObjectsStay
  <1> QED BY <1>1, <1>2, <1>3, <1>4

\* Where no test is evaluated, the evidence stays and is complete.
LEMMA EvidenceSame ==
  ASSUME Evidence, ObjectsStay, rtests' = rtests
  PROVE  Evidence' /\ EvidenceStep
  <1>1. EvidenceStep
    BY EvidenceKept
  <1>2. ASSUME NEW t \in DOMAIN Tests, NEW i \in DOMAIN rtests'[t], rtests'[t][i].result # "noteval"
        PROVE  /\ rtests'[t][i].syschar \in DOMAIN syschars'[Tests[t].object]
               /\ syschars'[Tests[t].object][rtests'[t][i].syschar].flag = "unknown"
                    => rtests'[t][i].result = "error"
    <2>1. i \in DOMAIN rtests[t] /\ rtests[t][i].result # "noteval"
      BY <1>2
    <2> QED BY <1>1, <2>1 DEF EvidenceStep
  <1> QED BY <1>1, <1>2 DEF Evidence

\* A step of a query, once it is known to keep the shapes.
LEMMA QueryStepOK ==
  ASSUME AgentOK, NEW nodes, Step(nodes), UNCHANGED <<rdefs, rtests>>, ObjectsStay, Cached',
         memo' = [v \in DOMAIN Locals |-> memo'[v]], rcache' = [o \in DOMAIN Objects |-> rcache'[o]]
  PROVE  AgentOK' /\ EvidenceStep
  <1>1. CallOK' /\ QueryOK' /\ call'.pc = "probing"
    BY StepKeepsQuery DEF AgentOK
  <1>2. Shapes'
    BY DEF AgentOK, Shapes, ObjectsStay, Instances
  <1>3. References_'
    BY DEF AgentOK, References_, RefsOK
  <1>4. Numbers'
    BY DEF AgentOK, Numbers
  <1>5. Evidence' /\ EvidenceStep
    BY EvidenceSame DEF AgentOK
  <1>6. Evaluated'
    BY <1>1 DEF Evaluated
  <1> QED BY <1>1, <1>2, <1>3, <1>4, <1>5, <1>6 DEF AgentOK

\* A step that looks at the content only.
LEMMA LookingOK ==
  ASSUME AgentOK, NEW nodes, Step(nodes), UNCHANGED <<memo, rcache, syschars, rdefs, rtests>>
  PROVE  AgentOK' /\ EvidenceStep
  <1>1. ObjectsStay /\ Cached'
    BY SameObjects DEF AgentOK, Cached
  <1>2. /\ memo' = [v \in DOMAIN Locals |-> memo'[v]]
        /\ rcache' = [o \in DOMAIN Objects |-> rcache'[o]]
    BY DEF AgentOK, Shapes
  <1> QED BY <1>1, <1>2, QueryStepOK

\* Another instance of an object leaves the earlier ones alone.
LEMMA NewSyscharStays ==
  ASSUME Shapes, NEW o \in DOMAIN Objects, syschars' = NewSyschar(o)
  PROVE  ObjectsStay
  <1>1. /\ syschars' = [p \in DOMAIN Objects |-> syschars'[p]]
        /\ \A p \in DOMAIN Objects : p # o => syschars'[p] = syschars[p]
        /\ Instances(syschars'[o]) /\ Started(syschars'[o])
        /\ \A i \in DOMAIN syschars[o] : i \in DOMAIN syschars'[o] /\ syschars'[o][i] = syschars[o][i]
    BY NewSyscharShape
  <1>2. \A p \in DOMAIN Objects : Instances(syschars[p])
    BY DEF Shapes, Instances
  <1> QED BY <1>1, <1>2 DEF ObjectsStay

\* What was found is written to an instance that waits for it.
LEMMA FoundStays ==
  ASSUME CallOK, QueryOK, Shapes, NEW kind \in {"collect", "cache", "combine"}, At(kind),
         NEW got, Found(Ref, got)
  PROVE  ObjectsStay
  <1>1. PICK o \in DOMAIN Objects : o = Ref
    BY HeadNode DEF IsNode, Plain
  <1>2. Started(syschars[o]) /\ Newest(syschars[o]).flag = "unknown"
    BY <1>1, HeadNode, HeadDue DEF Writes, Awaits
  <1>3. /\ syschars' = [p \in DOMAIN Objects |-> syschars'[p]]
        /\ \A p \in DOMAIN Objects : p # o => syschars'[p] = syschars[p]
        /\ Instances(syschars'[o]) /\ Started(syschars'[o])
        /\ DOMAIN syschars'[o] = DOMAIN syschars[o]
        /\ \A i \in DOMAIN syschars[o] : i # Len(syschars[o]) => syschars'[o][i] = syschars[o][i]
    BY <1>1, <1>2, FoundShape
  <1>4. \A p \in DOMAIN Objects : Instances(syschars[p])
    BY DEF Shapes, Instances
  <1>5. \A i \in DOMAIN syschars[o] : syschars[o][i].flag # "unknown" => syschars'[o][i] = syschars[o][i]
    BY <1>2, <1>3 DEF Newest
  <1> QED BY <1>1, <1>3, <1>4, <1>5 DEF ObjectsStay

\* The steps of a session one by one: each keeps what is to be in order, and
\* the evidence.  Objects that are asked for,
LEMMA QueriedOK ==
  ASSUME AgentOK, QueryObject \/ QueryMember
  PROVE  AgentOK' /\ EvidenceStep
  <1>1. PICK nodes : Step(nodes)
    BY QueryObjectStep, QueryMemberStep DEF AgentOK
  <1>2. UNCHANGED <<memo, rcache, rdefs, rtests>>
    BY DEF QueryObject, QueryMember
  <1>3. Ref \in DOMAIN Objects
    <2>1. PICK kind \in {"object", "member"} : At(kind)
      BY DEF QueryObject, QueryMember
    <2>2. Head(call.todo).kind = kind /\ Head(call.todo).ref = Ref /\ IsNode(Head(call.todo))
      BY <2>1, HeadNode DEF AgentOK
    <2> QED BY <2>2 DEF IsNode, Plain
  <1>4. syschars' = syschars \/ syschars' = NewSyschar(Ref)
    BY DEF QueryObject, QueryMember, oval_probe_query_object
  <1>5. ObjectsStay
    BY <1>3, <1>4, SameObjects, NewSyscharStays DEF AgentOK
  <1>6. Cached'
    BY <1>2, <1>5 DEF AgentOK, Cached, ObjectsStay
  <1>7. /\ memo' = [v \in DOMAIN Locals |-> memo'[v]]
        /\ rcache' = [o \in DOMAIN Objects |-> rcache'[o]]
    BY <1>2 DEF AgentOK, Shapes
  <1> QED BY <1>1, <1>2, <1>5, <1>6, <1>7, QueryStepOK

\* variables that are computed,
LEMMA ComputeVariableOK ==
  ASSUME AgentOK, ComputeVariable
  PROVE  AgentOK' /\ EvidenceStep
  <1>1. Step(<<>>)
    BY ComputeVariableStep DEF AgentOK
  <1>2. UNCHANGED <<rcache, syschars, rdefs, rtests>>
    BY DEF ComputeVariable
  <1>3. ObjectsStay /\ Cached'
    BY <1>2, SameObjects DEF AgentOK, Cached
  <1>4. memo' = [v \in DOMAIN Locals |-> memo'[v]]
    BY DEF ComputeVariable, AgentOK, Shapes
  <1>5. rcache' = [o \in DOMAIN Objects |-> rcache'[o]]
    BY <1>2 DEF AgentOK, Shapes
  <1> QED BY <1>1, <1>2, <1>3, <1>4, <1>5, QueryStepOK

\* What a probe is given to keep.
LEMMA CachedCollected ==
  ASSUME AgentOK, NEW kind \in {"collect", "cache", "combine"}, At(kind), ObjectsStay,
         rcache' = [rcache EXCEPT ![Ref] = Collected(Ref)]
  PROVE  Cached' /\ rcache' = [o \in DOMAIN Objects |-> rcache'[o]]
  <1>1. PICK o \in DOMAIN Objects : o = Ref
    BY HeadNode DEF AgentOK, IsNode, Plain
  <1>2. Started(syschars[o])
    BY <1>1, HeadNode, HeadDue DEF AgentOK, Writes, Awaits
  <1>3. Collected(o).flag # "unknown"
    BY CollectedKnows DEF AgentOK
  <1>4. /\ rcache' = [p \in DOMAIN Objects |-> rcache'[p]]
        /\ \A p \in DOMAIN Objects : rcache'[p] = IF p = o THEN Collected(o) ELSE rcache[p]
    BY <1>1 DEF AgentOK, Shapes
  <1>5. Cached'
    <2>1. ASSUME NEW p \in DOMAIN Objects, rcache'[p] # None
          PROVE  rcache'[p].flag # "unknown" /\ Started(syschars'[p])
      <3>1. CASE p = o
        BY <1>2, <1>3, <1>4, <3>1 DEF ObjectsStay
      <3>2. CASE p # o
        BY <1>4, <2>1, <3>2 DEF AgentOK, Cached, ObjectsStay
      <3> QED BY <3>1, <3>2
    <2> QED BY <2>1 DEF Cached
  <1> QED BY <1>4, <1>5

\* objects that are collected,
LEMMA CollectOK ==
  ASSUME AgentOK, Collect \/ CacheMember
  PROVE  AgentOK' /\ EvidenceStep
  <1>1. Step(<<>>)
    BY CollectStep, CacheMemberStep DEF AgentOK
  <1>2. PICK kind \in {"collect", "cache", "combine"} : At(kind)
    BY DEF Collect, CacheMember
  <1>3. UNCHANGED <<memo, rdefs, rtests>> /\ rcache' = [rcache EXCEPT ![Ref] = Collected(Ref)]
    BY DEF Collect, CacheMember
  <1>4. syschars' = syschars \/ Found(Ref, Collected(Ref))
    BY DEF Collect, CacheMember
  <1>5. ObjectsStay
    <2>1. CASE syschars' = syschars
      BY <2>1, SameObjects DEF AgentOK
    <2>2. CASE Found(Ref, Collected(Ref))
      BY <1>2, <2>2, FoundStays DEF AgentOK
    <2> QED BY <1>4, <2>1, <2>2
  <1>6. Cached' /\ rcache' = [o \in DOMAIN Objects |-> rcache'[o]]
    BY <1>2, <1>3, <1>5, CachedCollected
  <1>7. memo' = [v \in DOMAIN Locals |-> memo'[v]]
    BY <1>3 DEF AgentOK, Shapes
  <1> QED BY <1>1, <1>3, <1>5, <1>6, <1>7, QueryStepOK

\* objects whose variable has no value,
LEMMA NothingToSendOK ==
  ASSUME AgentOK, NothingToSend
  PROVE  AgentOK' /\ EvidenceStep
  <1>1. Step(<<>>)
    BY NothingToSendStep DEF AgentOK
  <1>2. PICK kind \in {"collect", "cache"} : At(kind)
    BY DEF NothingToSend
  <1>3. UNCHANGED <<memo, rcache, rdefs, rtests>>
    BY DEF NothingToSend
  <1>4. PICK got : Found(Ref, got)
    BY DEF NothingToSend
  <1>5. ObjectsStay
    BY <1>2, <1>4, FoundStays DEF AgentOK
  <1>6. Cached'
    BY <1>3, <1>5 DEF AgentOK, Cached, ObjectsStay
  <1>7. /\ memo' = [v \in DOMAIN Locals |-> memo'[v]]
        /\ rcache' = [o \in DOMAIN Objects |-> rcache'[o]]
    BY <1>3 DEF AgentOK, Shapes
  <1> QED BY <1>1, <1>3, <1>5, <1>6, <1>7, QueryStepOK

\* collections that fail, with the variable or the query they were for,
LEMMA CollectFailsOK ==
  ASSUME AgentOK, CollectFails
  PROVE  AgentOK' /\ EvidenceStep
  <1>1. /\ CallOK' /\ QueryOK' /\ call'.pc \in {"probing", "returned"}
        /\ \/ memo' = memo
           \/ \E v \in DOMAIN Locals : memo' = [memo EXCEPT ![v] = <<[good |-> FALSE, saw |-> {}]>>]
    BY CollectFailsCall DEF AgentOK
  <1>2. UNCHANGED <<syschars, rdefs, rtests>> /\ rcache' \in {rcache, NothingCached}
    BY DEF CollectFails
  <1>3. memo' = [v \in DOMAIN Locals |-> memo'[v]] /\ rcache' = [o \in DOMAIN Objects |-> rcache'[o]]
    BY <1>1, <1>2 DEF AgentOK, Shapes, NothingCached
  <1>4. Shapes'
    BY <1>2, <1>3 DEF AgentOK, Shapes
  <1>5. References_' /\ Numbers'
    BY <1>2 DEF AgentOK, References_, RefsOK, Numbers
  <1>6. Cached'
    BY <1>2 DEF AgentOK, Cached, NothingCached
  <1>7. Evidence' /\ EvidenceStep
    BY <1>2, SameObjects, EvidenceSame DEF AgentOK
  <1>8. Evaluated'
    BY <1>1 DEF Evaluated
  <1> QED BY <1>1, <1>4, <1>5, <1>6, <1>7, <1>8 DEF AgentOK

\* A step of the call alone.
LEMMA CallStepOK ==
  ASSUME AgentOK, UNCHANGED <<memo, rcache, syschars, rdefs, rtests>>, CallOK', QueryOK',
         call'.pc # "evaluated"
  PROVE  AgentOK' /\ EvidenceStep
  <1>1. Shapes'
    BY DEF AgentOK, Shapes
  <1>2. References_' /\ Numbers'
    BY DEF AgentOK, References_, RefsOK, Numbers
  <1>3. Cached'
    BY DEF AgentOK, Cached
  <1>4. Evidence' /\ EvidenceStep
    BY SameObjects, EvidenceSame DEF AgentOK
  <1>5. Evaluated'
    BY DEF Evaluated
  <1> QED BY <1>1, <1>2, <1>3, <1>4, <1>5 DEF AgentOK

\* A definition is evaluated when everything it is made of is known.
LEMMA ProbedReady ==
  ASSUME QueryOK, Probed
  PROVE  \A t \in TestsOf(Subject) : Ready(Tests[t].object) /\ Computed(Tests[t].variable)
  <1>1. PICK todo : todo = call.todo
    OBVIOUS
  <1>2. DOMAIN todo = {} /\ Covered(Subject, todo)
    BY <1>1 DEF QueryOK, Probed
  <1> QED BY <1>2 DEF Covered

\* definitions that are evaluated,
LEMMA EvalDefinitionOK ==
  ASSUME AgentOK, EvalDefinition
  PROVE  AgentOK' /\ EvidenceStep
  <1>1. Shapes' /\ References_' /\ Numbers' /\ Evaluated'
    BY EvalDefinitionResults DEF AgentOK
  <1>2. UNCHANGED <<memo, rcache, syschars>> /\ call' = [call EXCEPT !.pc = "evaluated"] /\ Probed
    BY DEF EvalDefinition
  <1>3. PICK s \in Definitions : s = Subject
    BY EvalDefinitionShape DEF AgentOK
  <1>4. PICK made : Evaluation(made, s)
    BY <1>3, EvalDefinitionShape DEF AgentOK
  <1>5. CallOK' /\ QueryOK'
    <2>1. PICK c : c = call
      OBVIOUS
    <2>2. c = [pc |-> c.pc, defs |-> c.defs, todo |-> c.todo, file |-> c.file, acc |-> c.acc, result |-> c.result]
      BY <2>1 DEF AgentOK, CallOK
    <2>3. call' = [pc |-> "evaluated", defs |-> c.defs, todo |-> c.todo, file |-> c.file,
                   acc |-> c.acc, result |-> c.result]
      BY <1>2, <2>1, <2>2
    <2>4. c.defs \in Seq(Definitions) /\ c.defs # <<>> /\ c.todo = <<>>
      BY <1>2, <2>1 DEF AgentOK, CallOK, Probed
    <2>5. CallOK'
      BY <2>3, <2>4 DEF CallOK
    <2>6. QueryOK'
      BY <2>3, <2>4, NothingToDo
    <2> QED BY <2>5, <2>6
  <1>6. ObjectsStay
    BY <1>2, SameObjects DEF AgentOK
  <1>7. EvidenceStep
    BY <1>4, <1>6, EvidenceKept DEF AgentOK, Evaluation
  <1>8. Evidence'
    <2>1. ASSUME NEW t \in DOMAIN Tests, NEW i \in DOMAIN rtests'[t], rtests'[t][i].result # "noteval"
          PROVE  /\ rtests'[t][i].syschar \in DOMAIN syschars[Tests[t].object]
                 /\ syschars[Tests[t].object][rtests'[t][i].syschar].flag = "unknown"
                      => rtests'[t][i].result = "error"
      <3>1. /\ i \in DOMAIN made.rtests[t]
            /\ \/ rtests'[t][i] = made.rtests[t][i]
               \/ /\ t \in TestsOf(s) /\ rtests'[t][i].syschar = Len(syschars[Tests[t].object])
                  /\ Newest(syschars[Tests[t].object]).flag = "unknown" => rtests'[t][i].result = "error"
        BY <1>4, <2>1 DEF Evaluation
      <3>2. CASE rtests'[t][i] = made.rtests[t][i]
        <4>1. Longer(made.rtests[t], rtests[t])
          BY <1>4 DEF Evaluation, Instanced, Growing
        <4>2. i \in DOMAIN rtests[t] /\ made.rtests[t][i] = rtests[t][i]
          <5>1. ~(i > Len(rtests[t]))
            BY <2>1, <3>1, <3>2, <4>1 DEF Longer
          <5>2. i \in 1 .. Len(made.rtests[t]) /\ Len(rtests[t]) \in Nat
                /\ DOMAIN rtests[t] = 1 .. Len(rtests[t]) /\ Len(made.rtests[t]) \in Nat
            BY <3>1, <4>1, SeqShape DEF Longer
          <5>3. i \in DOMAIN rtests[t]
            BY <5>1, <5>2
          <5> QED BY <4>1, <5>3 DEF Longer
        <4> QED BY <2>1, <3>2, <4>2 DEF AgentOK, Evidence
      <3>3. CASE /\ t \in TestsOf(s) /\ rtests'[t][i].syschar = Len(syschars[Tests[t].object])
                 /\ Newest(syschars[Tests[t].object]).flag = "unknown" => rtests'[t][i].result = "error"
        <4>1. PICK o \in DOMAIN Objects : o = Tests[t].object
          BY ContentAssumption
        <4>2. Started(syschars[o])
          BY <1>2, <1>3, <3>3, <4>1, ProbedReady DEF AgentOK, Ready
        <4>3. Len(syschars[o]) \in DOMAIN syschars[o]
          BY <4>2, SeqShape DEF AgentOK, Shapes
        <4> QED BY <3>3, <4>1, <4>2, <4>3 DEF Newest
      <3> QED BY <3>1, <3>2, <3>3
    <2> QED BY <1>2, <2>1 DEF Evidence
  <1>9. Cached'
    BY <1>2 DEF AgentOK, Cached
  <1> QED BY <1>1, <1>5, <1>7, <1>8, <1>9 DEF AgentOK

\* and results that are taken.
LEMMA GetResultOK ==
  ASSUME AgentOK, GetResult
  PROVE  AgentOK' /\ EvidenceStep
  <1>1. PICK r : call.pc = "evaluated" /\ call' = Continue(r)
    BY DEF GetResult
  <1>2. CallOK' /\ QueryOK' /\ call'.pc # "evaluated"
    BY <1>1, ContinueCall DEF AgentOK
  <1> QED BY <1>2, CallStepOK DEF GetResult

\* The session is asked: what it has is bound anew, hinted and kept.
LEMMA EvalRuleOK ==
  ASSUME AgentOK, NEW name, NEW bindings, oval_agent_eval_rule(name, bindings)
  PROVE  AgentOK' /\ EvidenceStep /\ call'.pc # "idle"
  <1>1. CallOK' /\ QueryOK' /\ call'.pc \in {"returned", "probing"}
    <2>1. CASE name = None
      <3>1. CASE DefinitionIds = <<>>
        <4>1. call' = Returned("error")
          BY <2>1, <3>1 DEF oval_agent_eval_rule
        <4> QED BY <4>1, ReturnedCall
      <3>2. CASE DefinitionIds # <<>>
        <4>1. call' = Probing(DefinitionIds, TRUE, "none")
          BY <2>1, <3>2 DEF oval_agent_eval_rule
        <4> QED BY <3>2, <4>1, AskDefinition, ContentAssumption
      <3> QED BY <3>1, <3>2
    <2>2. CASE name # None /\ name \notin Definitions
      <3>1. call' = Returned("notchecked")
        BY <2>2 DEF oval_agent_eval_rule
      <3> QED BY <3>1, ReturnedCall
    <2>3. CASE name # None /\ name \in Definitions
      <3>1. call' = Probing(<<name>>, FALSE, "none")
        BY <2>3 DEF oval_agent_eval_rule
      <3>2. <<name>> \in Seq(Definitions) /\ <<name>> # <<>>
        BY <2>3
      <3> QED BY <3>1, <3>2, AskDefinition
    <2> QED BY <2>1, <2>2, <2>3
  <1>2. PICK x : IF x = None THEN UNCHANGED <<rdefs, syschars, rcache>>
                 ELSE /\ rdefs' = HintDefinitions(x)
                      /\ syschars' = HintObjects(x)
                      /\ rcache' = NothingCached
    BY DEF oval_agent_eval_rule, oval_agent_resolve_variables
  <1>3. UNCHANGED <<memo, rtests>>
    BY DEF oval_agent_eval_rule
  <1>4. CASE x = None
    BY <1>1, <1>2, <1>3, <1>4, CallStepOK
  <1>5. CASE x # None
    <2>1. rdefs' = HintDefinitions(x) /\ syschars' = HintObjects(x) /\ rcache' = NothingCached
      BY <1>2, <1>5
    <2>2. /\ rdefs' = [d \in Definitions |-> rdefs'[d]]
          /\ \A d \in Definitions :
              /\ DefinitionResults(rdefs'[d]) /\ DOMAIN rdefs'[d] = DOMAIN rdefs[d]
              /\ Started(rdefs'[d]) <=> Started(rdefs[d])
              /\ \A i \in DOMAIN rdefs[d] : rdefs'[d][i].refs = rdefs[d][i].refs
              /\ Started(rdefs[d]) => Newest(rdefs'[d]).inst = Newest(rdefs[d]).inst
      BY <2>1, HintedDefinitions DEF AgentOK
    <2>3. ObjectsStay
      <3>1. /\ syschars' = [o \in DOMAIN Objects |-> syschars'[o]]
            /\ \A o \in DOMAIN Objects :
                 /\ Instances(syschars'[o]) /\ DOMAIN syschars'[o] = DOMAIN syschars[o]
                 /\ Started(syschars'[o]) <=> Started(syschars[o])
                 /\ \A i \in DOMAIN syschars[o] : /\ syschars'[o][i].flag = syschars[o][i].flag
                                                  /\ syschars'[o][i].saw = syschars[o][i].saw
        BY <2>1, HintedObjects DEF AgentOK
      <3> QED BY <3>1 DEF ObjectsStay
    <2>4. Shapes'
      BY <1>3, <2>1, <2>2, <2>3 DEF AgentOK, Shapes, ObjectsStay, Instances, DefinitionResults, NothingCached
    <2>5. References_'
      <3>1. ASSUME NEW d \in Definitions, NEW refs, RefsOK(d, refs)
            PROVE  RefsOK(d, refs)'
        <4>1. ASSUME NEW k \in DOMAIN refs
              PROVE  refs[k] \in IF Nodes(d)[k].kind = "test" THEN DOMAIN rtests'[Nodes(d)[k].ref]
                                 ELSE DOMAIN rdefs'[Nodes(d)[k].ref]
          <5>1. k \in DOMAIN Nodes(d)
            BY <3>1 DEF RefsOK
          <5>2. Nodes(d)[k].kind # "test" => Nodes(d)[k].ref \in Definitions
            BY <5>1, NodesShape
          <5> QED BY <1>3, <2>2, <3>1, <5>2 DEF RefsOK
        <4> QED BY <3>1, <4>1 DEF RefsOK
      <3>2. ASSUME NEW d \in Definitions, NEW i \in DOMAIN rdefs'[d], NEW refs, refs = rdefs'[d][i].refs
            PROVE  RefsOK(d, refs)'
        <4>1. RefsOK(d, refs)
          BY <2>2, <3>2 DEF AgentOK, References_
        <4> QED BY <3>1, <4>1
      <3>3. ASSUME NEW d \in Definitions, Started(rdefs'[d]), NEW e \in ExtendedBy(d)
            PROVE  Started(rdefs'[e])
        <4>1. e \in Definitions
          BY TestsShape
        <4> QED BY <2>2, <3>3, <4>1 DEF AgentOK, References_
      <3> QED BY <3>2, <3>3 DEF References_, RefsOK
    <2>6. Numbers'
      BY <1>3, <2>2 DEF AgentOK, Numbers
    <2>7. Evidence' /\ EvidenceStep
      BY <1>3, <2>3, EvidenceSame DEF AgentOK
    <2>8. Cached'
      BY <2>1 DEF Cached, NothingCached
    <2>9. Evaluated'
      BY <1>1 DEF Evaluated
    <2> QED BY <1>1, <2>4, <2>5, <2>6, <2>7, <2>8, <2>9 DEF AgentOK
  <1> QED BY <1>1, <1>4, <1>5

\* Every step of the session.
LEMMA AgentStepOK ==
  ASSUME AgentOK, AgentStep
  PROVE  AgentOK' /\ EvidenceStep
  <1>1. CASE QueryCriteria
    <2>1. \E nodes : Step(nodes)
      BY <1>1, QueryCriteriaStep DEF AgentOK
    <2> QED BY <1>1, <2>1, LookingOK DEF QueryCriteria
  <1>2. CASE QueryTest
    <2>1. \E nodes : Step(nodes)
      BY <1>2, QueryTestStep DEF AgentOK
    <2> QED BY <1>2, <2>1, LookingOK DEF QueryTest
  <1>3. CASE QueryObject \/ QueryMember
    BY <1>3, QueriedOK
  <1>4. CASE QueryVariable
    <2>1. \E nodes : Step(nodes)
      BY <1>4, QueryVariableStep DEF AgentOK
    <2> QED BY <1>4, <2>1, LookingOK DEF QueryVariable
  <1>5. CASE ComputeVariable
    BY <1>5, ComputeVariableOK
  <1>6. CASE CollectSet
    <2>1. \E nodes : Step(nodes)
      BY <1>6, CollectSetStep DEF AgentOK
    <2> QED BY <1>6, <2>1, LookingOK DEF CollectSet
  <1>7. CASE Collect \/ CacheMember
    BY <1>7, CollectOK
  <1>8. CASE NothingToSend
    BY <1>8, NothingToSendOK
  <1>9. CASE CollectFails
    BY <1>9, CollectFailsOK
  <1>10. CASE EvalDefinition
    BY <1>10, EvalDefinitionOK
  <1>11. CASE GetResult
    BY <1>11, GetResultOK
  <1> QED BY <1>1, <1>2, <1>3, <1>4, <1>5, <1>6, <1>7, <1>8, <1>9, <1>10, <1>11 DEF AgentStep

\* The answer is taken.
LEMMA AnswerOK ==
  ASSUME AgentOK, call' = Idle, UNCHANGED <<memo, rcache, syschars, rdefs, rtests>>
  PROVE  AgentOK' /\ EvidenceStep
  <1>1. CallOK' /\ QueryOK' /\ call'.pc # "evaluated"
    BY IdleCall
  <1> QED BY <1>1, CallStepOK

\* A new session is in order.
LEMMA AgentInitOK ==
  ASSUME AgentInit
  PROVE  AgentOK
  <1>1. /\ memo = [v \in DOMAIN Locals |-> <<>>] /\ rcache = [o \in DOMAIN Objects |-> None]
        /\ syschars = [o \in DOMAIN Objects |-> <<>>] /\ rdefs = [d \in Definitions |-> <<>>]
        /\ rtests = [t \in DOMAIN Tests |-> <<>>]
        /\ call = [pc |-> "idle", defs |-> <<>>, todo |-> <<>>, file |-> FALSE,
                   acc |-> "none", result |-> "none"]
    BY DEF AgentInit, NothingCached, Idle
  <1>2. IsSeq(<<>>) /\ DOMAIN <<>> = {} /\ ~Started(<<>>)
    BY DEF IsSeq, Started
  <1>3. Shapes
    BY <1>1, <1>2 DEF Shapes
  <1>4. References_ /\ Numbers /\ Evidence /\ Cached
    BY <1>1, <1>2 DEF References_, Numbers, Evidence, Cached
  <1>5. CallOK /\ Evaluated
    BY <1>1 DEF CallOK, Evaluated
  <1>6. QueryOK
    <2>1. PICK todo : todo = call.todo
      OBVIOUS
    <2>2. DOMAIN todo = {}
      BY <1>1, <2>1
    <2>3. Ordered(todo) /\ WritesOK(todo) /\ ComputesOK(todo)
      BY <2>2 DEF Ordered, WritesOK, ComputesOK
    <2> QED BY <1>1, <2>1, <2>3 DEF QueryOK
  <1> QED BY <1>3, <1>4, <1>5, <1>6 DEF AgentOK
=============================================================================
