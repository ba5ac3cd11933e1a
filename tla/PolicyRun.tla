----------------------------- MODULE PolicyRun -----------------------------
(***************************************************************************)
(* What an evaluation of an XCCDF policy promises its user, given what the *)
(* document says (module PolicyDocument): which rules get a result, in     *)
(* which order, and which of them are not evaluated because they are not   *)
(* selected or do not apply.                                               *)
(***************************************************************************)
EXTENDS Integers, Sequences, FiniteSets, SequencesExt

CONSTANTS
  Ids,            \* document -> the ids of its items
  RulesOf,        \* document -> its rules, in order
  Flag,           \* document -> item -> whether it is selected by itself
  ProfileSelects, \* document -> profile -> its selects and those it inherits
  Around,         \* document -> item -> what it is in, and itself
  Root,           \* the document as an item, always selected
  ItemClusters,   \* item -> the cluster it is in
  Applicable,     \* the items whose own platforms apply
  None

VARIABLES
  document, \* the name of the document
  profile,  \* the profile evaluated, or None
  added,    \* profile or None -> the selects the user added, in order
  status,   \* "idle", "running", "complete", "cancelled" or "failed"
  report    \* the results so far: [rule, result]

policyRunVars == <<document, profile, added, status, report>>

-----------------------------------------------------------------------------
Rules == RulesOf[document]

\* The last select that names the item or its cluster decides, those of the
\* user after those of the profile.
Selects ==
  (IF profile = None THEN <<>> ELSE ProfileSelects[document][profile]) \o added[profile]
About(i) == SelectSeq(Selects, LAMBDA s : s.item \in {i, ItemClusters[i]})
Selected(i) == IF About(i) = <<>> THEN Flag[document][i] ELSE Last(About(i)).selected

Evaluated(i) == \A e \in Around[document][i] \ {Root} : Selected(e)
Applies(i) == Around[document][i] \subseteq Applicable

Init ==
  /\ document \in DOMAIN Ids
  /\ profile = None /\ added = [p \in Ids[document] \cup {None} |-> <<>>]
  /\ status = "idle" /\ report = <<>>

Choose == \E p \in Ids[document] \cup {None} :
  /\ status # "running"
  /\ profile' = p /\ status' = "idle" /\ report' = <<>>
  /\ UNCHANGED <<document, added>>

Select ==
  /\ status # "running"
  /\ \E i \in Ids[document] \cup Range(ItemClusters), flag \in BOOLEAN :
       added' = [added EXCEPT ![profile] = Append(@, [item |-> i, selected |-> flag])]
  /\ UNCHANGED <<document, profile, status, report>>

Evaluate ==
  /\ status # "running" /\ status' = "running" /\ report' = <<>>
  /\ UNCHANGED <<document, profile, added>>

\* A rule gets its results one after the other, several only when it is
\* checked.
Done == Cardinality({report[k].rule : k \in DOMAIN report})
Due == (IF Done = 0 THEN {} ELSE {r \in {Rules[Done]} : Evaluated(r) /\ Applies(r)})
       \cup (IF Done < Len(Rules) THEN {Rules[Done + 1]} ELSE {})
Report(r, result) ==
  /\ status = "running" /\ r \in Due
  /\ report' = Append(report, [rule |-> r, result |-> result])
  /\ (result = "notselected") <=> ~Evaluated(r)
  /\ Evaluated(r) /\ ~Applies(r) => result = "notapplicable"

\* The last result, or a cancelled callback, ends the evaluation.
Step ==
  /\ status = "running"
  /\ \/ UNCHANGED report
     \/ \E r \in Due, result \in {"pass", "fail", "error", "unknown", "notapplicable",
                                  "notchecked", "notselected"} : Report(r, result)
  /\ \/ status' = "running"
     \/ status' = "cancelled"
     \/ status' = "complete" /\ {report'[k].rule : k \in DOMAIN report'} = Range(Rules)
  /\ UNCHANGED <<document, profile, added>>

\* A check that cannot be evaluated at all: no report.
Fail ==
  /\ status = "running" /\ status' = "failed" /\ report' = <<>>
  /\ UNCHANGED <<document, profile, added>>

Next == Choose \/ Select \/ Evaluate \/ Step \/ Fail
Spec == Init /\ [][Next]_policyRunVars
=============================================================================
