---------------------------- MODULE OvalCharts ----------------------------
(***************************************************************************)
(* The evaluation charts of the OVAL Language                              *)
(* (schemas/oval/5.10.1/oval-common-schema.xsd:153, :373 and :627), row by *)
(* row as they are printed, to compare OvalLogic with.  A chart relates    *)
(* counts to the results it gives.                                         *)
(***************************************************************************)
EXTENDS OvalLogic

\* The entries of a chart.
Zero == {0}
ZeroUp == Nat
OneUp == Nat \ {0}
TwoUp == Nat \ {0, 1}
UpToOne == {0, 1}
Odd == {n \in Nat : n % 2 = 1}
Even == {n \in Nat : n % 2 = 0}

Row(c, t, f, e, u, ne, na) ==
  /\ c["true"] \in t /\ c["false"] \in f /\ c["error"] \in e
  /\ c["unknown"] \in u /\ c["noteval"] \in ne /\ c["notappl"] \in na

NotApplicableRow(c, r) == r = "notappl" /\ Row(c, Zero, Zero, Zero, Zero, Zero, OneUp)

\* ALL and AND.
ChartAll(c, r) ==
  \/ r = "true" /\ Row(c, OneUp, Zero, Zero, Zero, Zero, ZeroUp)
  \/ r = "false" /\ Row(c, ZeroUp, OneUp, ZeroUp, ZeroUp, ZeroUp, ZeroUp)
  \/ r = "error" /\ Row(c, ZeroUp, Zero, OneUp, ZeroUp, ZeroUp, ZeroUp)
  \/ r = "unknown" /\ Row(c, ZeroUp, Zero, Zero, OneUp, ZeroUp, ZeroUp)
  \/ r = "noteval" /\ Row(c, ZeroUp, Zero, Zero, Zero, OneUp, ZeroUp)
  \/ NotApplicableRow(c, r)

\* AT LEAST ONE and OR.
ChartSome(c, r) ==
  \/ r = "true" /\ Row(c, OneUp, ZeroUp, ZeroUp, ZeroUp, ZeroUp, ZeroUp)
  \/ r = "false" /\ Row(c, Zero, OneUp, Zero, Zero, Zero, ZeroUp)
  \/ r = "error" /\ Row(c, Zero, ZeroUp, OneUp, ZeroUp, ZeroUp, ZeroUp)
  \/ r = "unknown" /\ Row(c, Zero, ZeroUp, Zero, OneUp, ZeroUp, ZeroUp)
  \/ r = "noteval" /\ Row(c, Zero, ZeroUp, Zero, Zero, OneUp, ZeroUp)
  \/ NotApplicableRow(c, r)

\* ONLY ONE and ONE.
ChartOne(c, r) ==
  \/ r = "true" /\ Row(c, {1}, ZeroUp, Zero, Zero, Zero, ZeroUp)
  \/ r = "false" /\ Row(c, TwoUp, ZeroUp, ZeroUp, ZeroUp, ZeroUp, ZeroUp)
  \/ r = "false" /\ Row(c, Zero, OneUp, Zero, Zero, Zero, ZeroUp)
  \/ r = "error" /\ Row(c, UpToOne, ZeroUp, OneUp, ZeroUp, ZeroUp, ZeroUp)
  \/ r = "unknown" /\ Row(c, UpToOne, ZeroUp, Zero, OneUp, ZeroUp, ZeroUp)
  \/ r = "noteval" /\ Row(c, UpToOne, ZeroUp, Zero, Zero, OneUp, ZeroUp)
  \/ NotApplicableRow(c, r)

\* NONE SATISFY.
ChartNone(c, r) ==
  \/ r = "true" /\ Row(c, Zero, OneUp, Zero, Zero, Zero, ZeroUp)
  \/ r = "false" /\ Row(c, OneUp, ZeroUp, ZeroUp, ZeroUp, ZeroUp, ZeroUp)
  \/ r = "error" /\ Row(c, Zero, ZeroUp, OneUp, ZeroUp, ZeroUp, ZeroUp)
  \/ r = "unknown" /\ Row(c, Zero, ZeroUp, Zero, OneUp, ZeroUp, ZeroUp)
  \/ r = "noteval" /\ Row(c, Zero, ZeroUp, Zero, Zero, OneUp, ZeroUp)
  \/ NotApplicableRow(c, r)

\* XOR.
ChartXor(c, r) ==
  \/ r = "true" /\ Row(c, Odd, ZeroUp, Zero, Zero, Zero, ZeroUp)
  \/ r = "false" /\ Row(c, Even, ZeroUp, Zero, Zero, Zero, ZeroUp)
  \/ r = "error" /\ Row(c, ZeroUp, ZeroUp, OneUp, ZeroUp, ZeroUp, ZeroUp)
  \/ r = "unknown" /\ Row(c, ZeroUp, ZeroUp, Zero, OneUp, ZeroUp, ZeroUp)
  \/ r = "noteval" /\ Row(c, ZeroUp, ZeroUp, Zero, Zero, OneUp, ZeroUp)
  \/ NotApplicableRow(c, r)

-----------------------------------------------------------------------------
(* The existence piece of a test, by the status of the items.              *)

Statuses(c, ex, de, er, nc) ==
  /\ c["exists"] \in ex /\ c["does_not_exist"] \in de
  /\ c["error"] \in er /\ c["not_collected"] \in nc

ChartExistence(existence, c, r) ==
  \/ /\ existence = "all"
     /\ \/ r = "true" /\ Statuses(c, OneUp, Zero, Zero, Zero)
        \/ r = "false" /\ Statuses(c, Zero, Zero, Zero, Zero)
        \/ r = "false" /\ Statuses(c, ZeroUp, OneUp, ZeroUp, ZeroUp)
        \/ r = "error" /\ Statuses(c, ZeroUp, Zero, OneUp, ZeroUp)
        \/ r = "unknown" /\ Statuses(c, ZeroUp, Zero, Zero, OneUp)
  \/ /\ existence = "any"
     /\ \/ r = "true" /\ Statuses(c, ZeroUp, ZeroUp, Zero, ZeroUp)
        \/ r = "true" /\ Statuses(c, OneUp, ZeroUp, OneUp, ZeroUp)
        \/ r = "error" /\ Statuses(c, Zero, ZeroUp, OneUp, ZeroUp)
  \/ /\ existence = "at_least_one"
     /\ \/ r = "true" /\ Statuses(c, OneUp, ZeroUp, ZeroUp, ZeroUp)
        \/ r = "false" /\ Statuses(c, Zero, OneUp, Zero, Zero)
        \/ r = "error" /\ Statuses(c, Zero, ZeroUp, OneUp, ZeroUp)
        \/ r = "unknown" /\ Statuses(c, Zero, ZeroUp, Zero, OneUp)
  \/ /\ existence = "none"
     /\ \/ r = "true" /\ Statuses(c, Zero, ZeroUp, Zero, Zero)
        \/ r = "false" /\ Statuses(c, OneUp, ZeroUp, ZeroUp, ZeroUp)
        \/ r = "error" /\ Statuses(c, Zero, ZeroUp, OneUp, ZeroUp)
        \/ r = "unknown" /\ Statuses(c, Zero, ZeroUp, Zero, OneUp)
  \/ /\ existence = "only_one"
     /\ \/ r = "true" /\ Statuses(c, {1}, ZeroUp, Zero, Zero)
        \/ r = "false" /\ Statuses(c, TwoUp, ZeroUp, ZeroUp, ZeroUp)
        \/ r = "false" /\ Statuses(c, Zero, ZeroUp, Zero, Zero)
        \/ r = "error" /\ Statuses(c, UpToOne, ZeroUp, OneUp, ZeroUp)
        \/ r = "unknown" /\ Statuses(c, UpToOne, ZeroUp, Zero, OneUp)

-----------------------------------------------------------------------------
(* Where the code differs from its charts.                                 *)

\* At least one: unknown and not evaluated results next to false ones give an
\* error (oval_resultTest.c:223-236).
ErrorForUndecided(c) ==
  /\ c["true"] = 0 /\ c["error"] = 0 /\ c["false"] > 0
  /\ c["unknown"] > 0 \/ c["noteval"] > 0

ChartOfCheck(check, c, r) ==
  CASE check = "all" -> ChartAll(c, r)
    [] check = "at_least_one" ->
         IF ErrorForUndecided(c) THEN r = "error" ELSE ChartSome(c, r)
    [] check = "none_satisfy" -> ChartNone(c, r)
    [] check = "only_one" -> ChartOne(c, r)

ChartOfOperator(op, c, r) ==
  CASE op = "AND" -> ChartAll(c, r)
    [] op = "ONE" -> ChartOne(c, r)
    [] op = "OR" -> ChartSome(c, r)
    [] op = "XOR" -> ChartXor(c, r)

\* What the code looks at of the items: those not collected are left out, and
\* for 'all exist' also those that do not exist, each of which the chart makes
\* a false (oval_resultTest.c:749-753).
Counted(existence, c) ==
  IF existence = "all" THEN [c EXCEPT !["not_collected"] = 0, !["does_not_exist"] = 0]
  ELSE [c EXCEPT !["not_collected"] = 0]

\* An error next to an existing item is an error for 'none exist', where the
\* chart says false (oval_resultTest.c:692-700); and 'at least one' is false of
\* no items at all, where the chart says nothing (oval_resultTest.c:686-687).
ErrorForExisting(existence, c) == existence = "none" /\ c["exists"] > 0 /\ c["error"] > 0
NothingCounted(c) == c["exists"] = 0 /\ c["error"] = 0 /\ c["does_not_exist"] = 0

ChartOfExistence(existence, c, r) ==
  IF ErrorForExisting(existence, c) THEN r = "error"
  ELSE IF existence = "at_least_one" /\ NothingCounted(c) THEN r = "false"
  ELSE ChartExistence(existence, Counted(existence, c), r)
=============================================================================
