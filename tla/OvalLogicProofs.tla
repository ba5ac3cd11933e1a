-------------------------- MODULE OvalLogicProofs --------------------------
(***************************************************************************)
(* Checks and operators give the results their charts say, whatever the    *)
(* numbers of results; so do existence checks, as far as they look.        *)
(***************************************************************************)
EXTENDS OvalCharts, TLAPS

Counts == [Result -> Nat]
Mixed(c) == ~NoResult(c) /\ ~OnlyNotApplicable(c)

\* What is counted is a number.
LEMMA CountTypes ==
  ASSUME NEW c \in Counts
  PROVE  /\ c["true"] \in Nat /\ c["false"] \in Nat /\ c["error"] \in Nat
         /\ c["unknown"] \in Nat /\ c["noteval"] \in Nat /\ c["notappl"] \in Nat
BY DEF Counts, Result

\* Check by check and operator by operator, where something applied: all,
LEMMA AllFollowsChart ==
  ASSUME NEW c \in Counts, Mixed(c), NEW r \in Result
  PROVE  ChartAll(c, r) <=> r = All(c)
BY CountTypes, SMTT(60)
DEF ChartAll, All, Row, NotApplicableRow, Zero, ZeroUp, OneUp, Undecided, Decided,
    Mixed, NoResult, OnlyNotApplicable, NoneOf, Result

\* at least one and OR,
LEMMA SomeFollowsChart ==
  ASSUME NEW c \in Counts, Mixed(c), NEW r \in Result
  PROVE  /\ ErrorForUndecided(c) => AtLeastOne(c) = "error"
         /\ ~ErrorForUndecided(c) => (ChartSome(c, r) <=> r = AtLeastOne(c))
         /\ ChartSome(c, r) <=> r = Or(c)
BY CountTypes, SMTT(60)
DEF ChartSome, AtLeastOne, Or, Otherwise, ErrorForUndecided, Row, NotApplicableRow, Zero,
    ZeroUp, OneUp, Undecided, Decided, Mixed, NoResult, OnlyNotApplicable, NoneOf, Result

\* none,
LEMMA NoneFollowsChart ==
  ASSUME NEW c \in Counts, Mixed(c), NEW r \in Result
  PROVE  ChartNone(c, r) <=> r = NoneSatisfy(c)
BY CountTypes, SMTT(60)
DEF ChartNone, NoneSatisfy, Row, NotApplicableRow, Zero, ZeroUp, OneUp, Undecided, Decided,
    Mixed, NoResult, OnlyNotApplicable, NoneOf, Result

\* only one and ONE,
LEMMA OneFollowsChart ==
  ASSUME NEW c \in Counts, Mixed(c), NEW r \in Result
  PROVE  /\ ChartOne(c, r) <=> r = OnlyOne(c)
         /\ ChartOne(c, r) <=> r = One(c)
BY CountTypes, SMTT(60)
DEF ChartOne, OnlyOne, One, Row, NotApplicableRow, Zero, ZeroUp, OneUp, TwoUp, UpToOne,
    Undecided, Decided, Mixed, NoResult, OnlyNotApplicable, NoneOf, Result

\* and XOR.
LEMMA XorFollowsChart ==
  ASSUME NEW c \in Counts, Mixed(c)
  PROVE  ChartXor(c, Xor(c))
BY CountTypes, SMTT(60)
DEF ChartXor, Xor, Row, NotApplicableRow, Zero, ZeroUp, OneUp, Odd, Even,
    Undecided, Decided, Mixed, NoResult, OnlyNotApplicable, NoneOf, Result

\* Where nothing applied all charts say so.
LEMMA NothingApplies ==
  ASSUME NEW c \in Counts, OnlyNotApplicable(c), NEW r \in Result
  PROVE  /\ ChartAll(c, r) <=> r = "notappl"
         /\ ChartSome(c, r) <=> r = "notappl"
         /\ ChartNone(c, r) <=> r = "notappl"
         /\ ChartOne(c, r) <=> r = "notappl"
         /\ ChartXor(c, "notappl")
         /\ ~NoResult(c) /\ ~ErrorForUndecided(c)
BY CountTypes, SMTT(60)
DEF ChartAll, ChartSome, ChartNone, ChartOne, ChartXor, Row, NotApplicableRow, Zero, ZeroUp, OneUp,
    TwoUp, UpToOne, Odd, Even, ErrorForUndecided, NoResult, OnlyNotApplicable, NoneOf, Result

\* A check gives exactly the result of its chart for every number of results
\* of each kind, but for the errors that 'at least one' makes of undecided
\* results next to false ones (oval_resultTest.c:189-276).
THEOREM CheckFollowsChart ==
  ASSUME NEW c \in Counts, ~NoResult(c), NEW check \in Check, NEW r \in Result
  PROVE  ChartOfCheck(check, c, r) <=> r = ores_get_result_bychk(c, check)
<1>1. CASE OnlyNotApplicable(c)
  BY <1>1, NothingApplies DEF ChartOfCheck, ores_get_result_bychk, Check
<1>2. CASE ~OnlyNotApplicable(c)
  <2>1. Mixed(c)
    BY <1>2 DEF Mixed
  <2>2. CASE check = "all"
    BY <1>2, <2>1, <2>2, AllFollowsChart DEF ChartOfCheck, ores_get_result_bychk
  <2>3. CASE check = "at_least_one"
    BY <1>2, <2>1, <2>3, SomeFollowsChart DEF ChartOfCheck, ores_get_result_bychk
  <2>4. CASE check = "none_satisfy"
    BY <1>2, <2>1, <2>4, NoneFollowsChart DEF ChartOfCheck, ores_get_result_bychk
  <2>5. CASE check = "only_one"
    BY <1>2, <2>1, <2>5, OneFollowsChart DEF ChartOfCheck, ores_get_result_bychk
  <2> QED BY <2>2, <2>3, <2>4, <2>5 DEF Check
<1> QED BY <1>1, <1>2

\* An operator gives a result of its chart, for every number of results
\* (oval_resultTest.c:278-378).
THEOREM OperatorFollowsChart ==
  ASSUME NEW c \in Counts, ~NoResult(c), NEW op \in Operator
  PROVE  ChartOfOperator(op, c, ores_get_result_byopr(c, op))
<1>1. CASE OnlyNotApplicable(c)
  BY <1>1, NothingApplies DEF ChartOfOperator, ores_get_result_byopr, Operator, Result
<1>2. CASE ~OnlyNotApplicable(c)
  <2>1. Mixed(c)
    BY <1>2 DEF Mixed
  <2>2. All(c) \in Result /\ One(c) \in Result /\ Or(c) \in Result
    BY DEF All, One, Or, Undecided, Decided, Result
  <2>3. CASE op = "AND"
    BY <1>2, <2>1, <2>2, <2>3, AllFollowsChart DEF ChartOfOperator, ores_get_result_byopr
  <2>4. CASE op = "ONE"
    BY <1>2, <2>1, <2>2, <2>4, OneFollowsChart DEF ChartOfOperator, ores_get_result_byopr
  <2>5. CASE op = "OR"
    BY <1>2, <2>1, <2>2, <2>5, SomeFollowsChart DEF ChartOfOperator, ores_get_result_byopr
  <2>6. CASE op = "XOR"
    BY <1>2, <2>1, <2>6, XorFollowsChart DEF ChartOfOperator, ores_get_result_byopr
  <2> QED BY <2>3, <2>4, <2>5, <2>6 DEF Operator
<1> QED BY <1>1, <1>2

\* The existence piece of a test is exactly what its chart says of the items
\* the code looks at, for every number of items of each status, but for two
\* rows (oval_resultTest.c:660-721): items not collected never count, nor, for
\* 'all exist', items that do not exist; 'none exist' gives an error where an
\* item exists and another is in error; and 'at least one' is false of nothing.
THEOREM ExistenceFollowsChart ==
  ASSUME NEW c \in [ItemStatus -> Nat], NEW existence \in Existence, NEW r \in Result
  PROVE  ChartOfExistence(existence, c, r)
           <=> r = eval_check_existence(existence, c["exists"], c["error"])
<1> DEFINE seen == Counted(existence, c)
<1>1. /\ c["exists"] \in Nat /\ c["error"] \in Nat /\ c["does_not_exist"] \in Nat
      /\ seen["exists"] = c["exists"] /\ seen["error"] = c["error"] /\ seen["not_collected"] = 0
      /\ seen["does_not_exist"] = IF existence = "all" THEN 0 ELSE c["does_not_exist"]
  BY DEF ItemStatus, Counted
<1> HIDE DEF seen
<1>2. ChartOfExistence(existence, c, r) <=>
        IF ErrorForExisting(existence, c) THEN r = "error"
        ELSE IF existence = "at_least_one" /\ NothingCounted(c) THEN r = "false"
        ELSE ChartExistence(existence, seen, r)
  BY DEF ChartOfExistence, seen
<1>3. CASE existence = "all"
  BY <1>1, <1>2, <1>3 DEF ErrorForExisting, ChartExistence, Statuses, eval_check_existence,
     Zero, ZeroUp, OneUp
<1>4. CASE existence = "any"
  BY <1>1, <1>2, <1>4 DEF ErrorForExisting, ChartExistence, Statuses, eval_check_existence,
     Zero, ZeroUp, OneUp
<1>5. CASE existence = "at_least_one"
  BY <1>1, <1>2, <1>5 DEF ErrorForExisting, NothingCounted, ChartExistence, Statuses,
     eval_check_existence, Zero, ZeroUp, OneUp
<1>6. CASE existence = "none"
  BY <1>1, <1>2, <1>6 DEF ErrorForExisting, ChartExistence, Statuses, eval_check_existence,
     Zero, ZeroUp, OneUp
<1>7. CASE existence = "only_one"
  BY <1>1, <1>2, <1>7 DEF ErrorForExisting, ChartExistence, Statuses, eval_check_existence,
     Zero, ZeroUp, OneUp, TwoUp, UpToOne
<1> QED BY <1>3, <1>4, <1>5, <1>6, <1>7 DEF Existence
=============================================================================
