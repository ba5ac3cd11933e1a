----------------------------- MODULE OvalLogic -----------------------------
(***************************************************************************)
(* How OVAL results are combined: results/oval_resultTest.c and            *)
(* results/oval_resultCriteriaNode.c.  Results are counted, and a check or *)
(* an operator turns the six counters into one result; a test looks at the *)
(* collection flag of its object and at the items it found; the nodes of   *)
(* the criteria of a definition combine the tests.                         *)
(***************************************************************************)
EXTENDS Integers, FiniteSets, Sequences

Result == {"true", "false", "error", "unknown", "noteval", "notappl"}
Check == {"all", "at_least_one", "none_satisfy", "only_one"}
Operator == {"AND", "ONE", "OR", "XOR"}
Existence == {"all", "any", "at_least_one", "none", "only_one"}
ItemStatus == {"exists", "error", "not_collected", "does_not_exist"}

-----------------------------------------------------------------------------
(* Counting (ores_clear, ores_add_res).                                    *)

ores_clear == [r \in Result |-> 0]
ores_add_res(ores, r) == [ores EXCEPT ![r] = @ + 1]

\* The counters after adding the results of a sequence.
Count(rs) == [r \in Result |-> Cardinality({i \in DOMAIN rs : rs[i] = r})]

NoneOf(ores, S) == \A r \in S : ores[r] = 0
NoResult(ores) == NoneOf(ores, Result)
OnlyNotApplicable(ores) ==
  ores["notappl"] > 0 /\ NoneOf(ores, Result \ {"notappl"})

\* What every check and operator says of results that decide nothing: an
\* error hides an unknown, which hides one that was not evaluated.
Undecided(ores) ==
  IF ores["error"] > 0 THEN "error"
  ELSE IF ores["unknown"] > 0 THEN "unknown"
  ELSE IF ores["noteval"] > 0 THEN "noteval" ELSE "none"

Decided(ores) == Undecided(ores) = "none"

-----------------------------------------------------------------------------
(* ores_get_result_bychk, ores_get_result_byopr.  A result no branch of    *)
(* the code assigns is the error it starts from.                           *)

Otherwise(r) == IF r = "none" THEN "error" ELSE r

All(ores) ==
  IF ores["false"] > 0 THEN "false"
  ELSE IF ~Decided(ores) THEN Undecided(ores)
  ELSE IF ores["true"] > 0 THEN "true" ELSE "error"

\* Unknown and not evaluated are returned only when nothing was false.
AtLeastOne(ores) ==
  IF ores["true"] > 0 THEN "true"
  ELSE IF ores["error"] > 0 THEN "error"
  ELSE IF ores["false"] = 0 THEN Otherwise(Undecided(ores))
  ELSE IF Decided(ores) THEN "false" ELSE "error"

NoneSatisfy(ores) ==
  IF ores["true"] > 0 THEN "false"
  ELSE IF ~Decided(ores) THEN Undecided(ores)
  ELSE IF ores["false"] > 0 THEN "true" ELSE "error"

OnlyOne(ores) ==
  IF ores["true"] > 1 THEN "false"
  ELSE IF ~Decided(ores) THEN Undecided(ores)
  ELSE IF ores["true"] = 1 THEN "true"
  ELSE IF ores["false"] > 0 THEN "false" ELSE "error"

ores_get_result_bychk(ores, check) ==
  IF NoResult(ores) THEN "unknown"
  ELSE IF OnlyNotApplicable(ores) THEN "notappl"
  ELSE CASE check = "all" -> All(ores)
         [] check = "at_least_one" -> AtLeastOne(ores)
         [] check = "none_satisfy" -> NoneSatisfy(ores)
         [] check = "only_one" -> OnlyOne(ores)

One(ores) ==
  IF ores["true"] > 1 THEN "false"
  ELSE IF ~Decided(ores) THEN Undecided(ores)
  ELSE IF ores["true"] = 1 THEN "true" ELSE "false"

Or(ores) ==
  IF ores["true"] > 0 THEN "true"
  ELSE IF ~Decided(ores) THEN Undecided(ores)
  ELSE IF ores["false"] > 0 THEN "false" ELSE "error"

Xor(ores) ==
  IF ~Decided(ores) THEN Undecided(ores)
  ELSE IF ores["true"] % 2 = 1 THEN "true" ELSE "false"

ores_get_result_byopr(ores, op) ==
  IF NoResult(ores) THEN "unknown"
  ELSE IF OnlyNotApplicable(ores) THEN "notappl"
  ELSE CASE op = "AND" -> All(ores)
         [] op = "ONE" -> One(ores)
         [] op = "OR" -> Or(ores)
         [] op = "XOR" -> Xor(ores)

-----------------------------------------------------------------------------
(* Comparing an item with a state.  A state has entities, each with a      *)
(* check; an item has the entities of that name, each with a status and    *)
(* the results of the comparison with the values of the state's entity,    *)
(* one value or those of a variable (then with its check and its flag).    *)

EvaluateWithVariable(flag, results, varCheck) ==
  IF flag \in {"complete", "incomplete"}
  THEN ores_get_result_bychk(Count(results), varCheck) ELSE "error"

EvaluateSysent(itemEntity, varCheck) ==
  IF itemEntity.status = "does_not_exist" THEN "false"
  ELSE IF itemEntity.variable # "none"
  THEN EvaluateWithVariable(itemEntity.variable, itemEntity.results, varCheck)
  ELSE itemEntity.results[1]

\* state is a sequence of [check, varCheck, entities].
eval_item(state, op) ==
  ores_get_result_byopr(
    Count([i \in DOMAIN state |->
             ores_get_result_bychk(
               Count([j \in DOMAIN state[i].entities |->
                        EvaluateSysent(state[i].entities[j], state[i].varCheck)]),
               state[i].check)]), op)

-----------------------------------------------------------------------------
(* A test.  items is what the object collected: an id, a status and the    *)
(* result of each state.  An item is taken once however often it was       *)
(* collected, but every occurrence counts for the existence check.         *)

FirstOf(items, i) == \A j \in 1 .. i - 1 : items[j].id # items[i].id

ItemResult(item, op) ==
  CASE item.status \in {"error", "not_collected"} -> "error"
    [] item.status = "does_not_exist" -> "false"
    [] item.status = "exists" -> ores_get_result_byopr(Count(item.states), op)

eval_check_state(items, check, op) ==
  LET taken == {i \in DOMAIN items : FirstOf(items, i)}
  IN ores_get_result_bychk(
       [r \in Result |-> Cardinality({i \in taken : ItemResult(items[i], op) = r})],
       check)

eval_check_existence(existence, exists, errors) ==
  CASE existence = "all" ->
         IF errors >= 1 THEN "error" ELSE IF exists >= 1 THEN "true" ELSE "false"
    [] existence = "any" ->
         IF errors >= 1 /\ exists = 0 THEN "error" ELSE "true"
    [] existence = "at_least_one" ->
         IF exists >= 1 THEN "true" ELSE IF errors >= 1 THEN "error" ELSE "false"
    [] existence = "none" ->
         IF errors >= 1 THEN "error" ELSE IF exists = 0 THEN "true" ELSE "false"
    [] existence = "only_one" ->
         IF exists >= 2 THEN "false" ELSE IF errors >= 1 THEN "error"
         ELSE IF exists = 1 THEN "true" ELSE "false"

Occurrences(items, status) == Cardinality({i \in DOMAIN items : items[i].status = status})

\* The existence piece when not everything was collected.
IncompleteExistence(existence, exists) ==
  CASE existence = "any" -> "true"
    [] existence = "at_least_one" /\ exists > 0 -> "true"
    [] existence = "none" /\ exists > 0 -> "false"
    [] existence = "only_one" /\ exists > 1 -> "false"
    [] OTHER -> "unknown"

\* What the states say of a part of the items: only 'at least one' may be
\* true, anything may be false.
IncompleteState(result, check) ==
  IF result = "false" \/ (result = "true" /\ check = "at_least_one")
  THEN result ELSE "unknown"

\* test: [existence, check, op, hasState].
evaluate_items(test, flag, items) ==
  LET exists == Occurrences(items, "exists")
      errors == Occurrences(items, "error")
      states == eval_check_state(items, test.check, test.op)
      existence == eval_check_existence(test.existence, exists, errors)
      partial == IncompleteExistence(test.existence, exists)
      anyway == test.existence = "any" /\ ~test.hasState
  IN CASE flag = "error" -> IF anyway THEN "true" ELSE "error"
       [] flag = "not_collected" -> IF anyway THEN "true" ELSE "unknown"
       [] flag = "not_applicable" -> IF anyway THEN "true" ELSE "notappl"
       [] flag = "does_not_exist" ->
            IF test.existence \in {"none", "any"} THEN "true" ELSE "false"
       [] flag = "complete" ->
            IF existence = "true" /\ test.hasState THEN states ELSE existence
       [] flag = "incomplete" ->
            IF partial = "true" /\ test.hasState
            THEN IncompleteState(states, test.check) ELSE partial
       [] flag = "unknown" -> "error"

-----------------------------------------------------------------------------
(* Criteria.                                                               *)

_oval_result_negate(negate, r) ==
  IF negate /\ r \in {"true", "false"} THEN IF r = "true" THEN "false" ELSE "true"
  ELSE r

criteria_result(negate, op, subresults) ==
  _oval_result_negate(negate, ores_get_result_byopr(Count(subresults), op))
=============================================================================
