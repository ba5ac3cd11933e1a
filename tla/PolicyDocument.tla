--------------------------- MODULE PolicyDocument ---------------------------
(***************************************************************************)
(* What XCCDF documents say, read off them as they were written, without   *)
(* the resolution that the program performs.  The records of a document    *)
(* are those of module Resolve.                                            *)
(***************************************************************************)
EXTENDS Integers, Sequences, FiniteSets, SequencesExt

CONSTANTS
  Documents, \* name -> a benchmark as it was read
  Root       \* the id of the benchmark itself

DocumentIds == [n \in DOMAIN Documents |-> DOMAIN Documents[n]]

\* Everything reached from a set of items of document d.
Closure(d, S, next(_)) ==
  LET step(T) == T \cup UNION {next(i) : i \in T}
      reach[k \in Nat] == IF k = 0 THEN S ELSE step(reach[k - 1])
  IN reach[Cardinality(DOMAIN d)]

Enclosing(d, i) == {e \in DOMAIN d : Contains(d[e].content, i)}
Extended(d, i) ==
  IF d[i].extends \in DOMAIN d /\ d[d[i].extends].type = d[i].type THEN {d[i].extends} ELSE {}

\* An item that extends or contains itself spoils inheritance for the whole
\* document; but profiles always build on what they extend.
Sound == [n \in DOMAIN Documents |->
  LET d == Documents[n]
      uses(i) == Extended(d, i) \cup Range(d[i].content)
  IN \A i \in Closure(d, {Root}, uses) : i \notin Closure(d, uses(i), uses)]

Lineage == [n \in DOMAIN Documents |->
  LET d == Documents[n]
      inherits(i) == IF d[i].type = "profile" \/ Sound[n] THEN Extended(d, i) ELSE {}
  IN [i \in DOMAIN d |-> Closure(d, {i}, inherits)]]

\* The flag of the item, or of the nearest item it inherits from.
Flag == [n \in DOMAIN Documents |->
  LET d == Documents[n]
      age(i) == Cardinality(Lineage[n][i])
  IN [i \in DOMAIN d |->
       LET flagged == {q \in Lineage[n][i] : d[q].selected # <<>>}
       IN IF flagged = {} THEN TRUE
          ELSE d[CHOOSE q \in flagged : \A o \in flagged : age(o) <= age(q)].selected[1]]]

\* The selects of a profile, those of what it extends first.
ProfileSelects == [n \in DOMAIN Documents |->
  LET d == Documents[n]
  IN [p \in {i \in DOMAIN d : d[i].type = "profile"} |->
       FlattenSeq([k \in 1 .. Cardinality(Lineage[n][p]) |->
         LET at == {q \in Lineage[n][p] : Cardinality(Lineage[n][q]) = k}
         IN IF at = {} THEN <<>> ELSE d[CHOOSE q \in at : TRUE].selects])]]

\* An item and what it is in.
Around == [n \in DOMAIN Documents |->
  LET d == Documents[n]
      enclosing(i) == Enclosing(d, i)
  IN [i \in DOMAIN d |-> Closure(d, {i}, enclosing)]]

\* The rules in document order; abstract items only serve to be extended.
RulesOf == [n \in DOMAIN Documents |->
  LET d == Documents[n]
      rules[i \in DOMAIN d] ==
        CASE d[i].abstract -> <<>>
          [] d[i].type = "rule" /\ ~d[i].abstract -> <<i>>
          [] d[i].type # "rule" /\ ~d[i].abstract ->
               FlattenSeq([k \in DOMAIN d[i].content |-> rules[d[i].content[k]]])
  IN rules[Root]]
=============================================================================
