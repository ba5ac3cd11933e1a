------------------------------ MODULE VarRefs ------------------------------
(***************************************************************************)
(* An object whose entities take their values from variables: how the      *)
(* library sends it (oval_sexp.c) and how a worker of a probe evaluates it *)
(* for each choice of values (probe/worker.c, probe-api.c).                *)
(*                                                                         *)
(* An entity is [name, kind, var, vals].  Its kind says where it refers to *)
(* the variable var: in an "attribute", in an "element", or not at all, a  *)
(* "value".  A variable is [ok, flag, values]: whether it could be asked   *)
(* for, its collection flag, its values.  Some values, of the set Odd,     *)
(* cannot be converted to the type of an entity.                           *)
(***************************************************************************)
EXTENDS Integers, Sequences, SequencesExt

CONSTANTS Odd

Collected == {"complete", "incomplete"}
Convertible(values) == \A i \in DOMAIN values : values[i] \notin Odd
Ret(ret, values) == [ret |-> ret, values |-> IF ret = 0 THEN values ELSE <<>>]

oval_varref_attr_to_sexp(v) ==
  Ret(IF ~v.ok THEN -1
      ELSE IF v.flag \notin Collected \/ v.values = <<>> THEN 1
      ELSE IF Convertible(v.values) THEN 0 ELSE -1, v.values)

\* Here a variable without values is good enough.
oval_varref_elm_to_sexp(v) ==
  LET values == IF v.flag \in Collected THEN v.values ELSE <<>>
  IN Ret(IF v.ok /\ Convertible(values) THEN 0 ELSE -1, values)

Reference(e, vars) ==
  IF e.kind = "attribute" THEN oval_varref_attr_to_sexp(vars[e.var])
  ELSE IF e.kind = "element" THEN oval_varref_elm_to_sexp(vars[e.var])
  ELSE Ret(0, e.vals)

\* The entities that refer to a variable in an attribute come first, then
\* the values of their variables, then the other entities.  A reference that
\* fails, for whatever reason, makes it an object that does not exist.
oval_object_to_sexp(entities, vars) ==
  LET refers == SelectSeq(entities, LAMBDA e : e.kind = "attribute")
      others == SelectSeq(entities, LAMBDA e : e.kind # "attribute")
  IN IF \A i \in DOMAIN entities : Reference(entities[i], vars).ret = 0
     THEN [skip_eval |-> "none",
           refers |-> [i \in DOMAIN refers |-> [refers[i] EXCEPT !.vals = <<>>]],
           varrefs |-> [i \in DOMAIN refers |->
                          [id |-> refers[i].var, vals |-> Reference(refers[i], vars).values]],
           others |-> [i \in DOMAIN others |->
                         [others[i] EXCEPT !.vals = Reference(others[i], vars).values]]]
     ELSE [skip_eval |-> "does_not_exist", refers |-> <<>>, varrefs |-> <<>>, others |-> <<>>]

-----------------------------------------------------------------------------
(* The worker: next[i] is the place of the value the i-th entity has now,  *)
(* counted from 0.                                                         *)

\* The first entry of the variable's name counts.
Entry(object, id) ==
  object.varrefs[CHOOSE i \in DOMAIN object.varrefs :
                   /\ object.varrefs[i].id = id
                   /\ \A j \in 1 .. i - 1 : object.varrefs[j].id # id]

probe_varref_create_ctx(object) ==
  [ents |-> [i \in DOMAIN object.refers |->
               [object.refers[i] EXCEPT !.vals = Entry(object, object.refers[i].var).vals]],
   next |-> [i \in DOMAIN object.refers |-> 0]]

\* The next value of the first entity that has one, the first values of
\* those before it; no choice is left if none has.
probe_varref_iterate_ctx(ctx) ==
  LET n == Len(ctx.ents)
      last(i) == ctx.next[i] + 1 >= Len(ctx.ents[i].vals)
      turn == CHOOSE i \in 1 .. n + 1 : (i <= n => ~last(i)) /\ \A j \in 1 .. i - 1 : last(j)
  IN [more |-> turn <= n,
      ctx |-> [ctx EXCEPT !.next = [i \in 1 .. n |-> IF i < turn THEN 0
                                                    ELSE IF i = turn THEN @[i] + 1 ELSE @[i]]]]

probe_ent_getval(ctx, i) == ctx.ents[i].vals[ctx.next[i] + 1]
Choice(ctx) == [i \in DOMAIN ctx.ents |-> probe_ent_getval(ctx, i)]

\* The choices that probe_main is called for, until it fails for one.
RECURSIVE Evaluated(_, _)
Evaluated(ctx, failing) ==
  LET step == probe_varref_iterate_ctx(ctx)
  IN <<Choice(ctx)>> \o (IF Choice(ctx) \in failing \/ ~step.more THEN <<>>
                         ELSE Evaluated(step.ctx, failing))

\* Without references in attributes there is one evaluation.
probe_worker(object, failing) ==
  IF object.varrefs = <<>> THEN <<<<>>>>
  ELSE Evaluated(probe_varref_create_ctx(object), failing)
=============================================================================
