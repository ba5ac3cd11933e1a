------------------------------ MODULE Platforms ------------------------------
(***************************************************************************)
(* Whether a document's items apply to the system: the platforms of        *)
(* XCCDF_POLICY/xccdf_policy.c, names and dictionaries (CPE 1) and the     *)
(* expressions of platforms (CPE 2).                                       *)
(*                                                                         *)
(* A name is the sequence of its fields, "" for one that is not given.  A  *)
(* dictionary is [dir, items], an item [name, checks]; a language model is *)
(* [dir, platforms], a function from ids to expressions; dir is the        *)
(* directory of the file, "." for the current one.  model = [dicts, langs] *)
(* are the document's own and those that were added, in this order.        *)
(***************************************************************************)
EXTENDS Integers, Sequences, SequencesExt, FiniteSetsExt

CONSTANTS
  NameOf,        \* a function from the platforms that are names to those names
  Shifted(_),    \* a platform without a "#" at its beginning
  Holds(_, _)    \* whether a file of OVAL is there and has a definition that is true

-----------------------------------------------------------------------------
(* CPE/cpename.c, CPE/cpedict.c.                                           *)

cpe_fields_num(name) == Max({0} \cup {i \in DOMAIN name : name[i] # ""})

\* Fields that are not given match everything, but not nothing: against has
\* to be as long.
cpe_name_match_one(name, against) ==
  /\ cpe_fields_num(name) <= cpe_fields_num(against)
  /\ \A i \in DOMAIN name : name[i] \in {"", against[i]}

cpe_name_match_cpes(name, names) == \E other \in Range(names) : cpe_name_match_one(name, other)
cpe_name_match_dict(name, dict) ==
  \E item \in Range(dict.items) : cpe_name_match_one(item.name, name)

\* Files are looked for from where the document is that is named in usr.
_cpe_get_oval_href(dir, href) == IF dir = "." THEN <<href>> ELSE <<dir, href>>
check_cb(dir, check) == Holds(_cpe_get_oval_href(dir, check.href), check.name)

cpe_item_is_applicable(item, dir) == \E check \in Range(item.checks) : check_cb(dir, check)
cpe_name_applicable_dict(name, dict, dir) ==
  \E item \in Range(dict.items) :
    cpe_name_match_one(name, item.name) /\ cpe_item_is_applicable(item, dir)

-----------------------------------------------------------------------------
(* CPE/cpelang.c: expressions.                                             *)

Negated(expr, value) == IF expr.negate THEN ~value ELSE value

\* For names that are given.
RECURSIVE cpe_language_match_expr(_, _)
cpe_language_match_expr(names, expr) ==
  Negated(expr,
    CASE expr.oper = "AND" -> \A e \in Range(expr.expr) : cpe_language_match_expr(names, e)
      [] expr.oper = "OR" -> \E e \in Range(expr.expr) : cpe_language_match_expr(names, e)
      [] expr.oper = "MATCH" -> cpe_name_match_cpes(expr.cpe, names))

\* All dictionaries are asked for a name of a language model, but their files
\* are looked for from the language model.
cpe_dict_cb(model, dir, name) ==
  \E dict \in Range(model.dicts) : cpe_name_applicable_dict(name, dict, dir)

\* For the system.
RECURSIVE cpe_testexpr_evaluate(_, _, _)
cpe_testexpr_evaluate(model, dir, expr) ==
  Negated(expr,
    CASE expr.oper = "AND" -> \A e \in Range(expr.expr) : cpe_testexpr_evaluate(model, dir, e)
      [] expr.oper = "OR" -> \E e \in Range(expr.expr) : cpe_testexpr_evaluate(model, dir, e)
      [] expr.oper = "MATCH" -> cpe_dict_cb(model, dir, expr.cpe)
      [] expr.oper = "CHECK" -> check_cb(dir, expr))

cpe_platform_applicable_lang_model(model, lang, id) ==
  id \in DOMAIN lang.platforms /\ cpe_testexpr_evaluate(model, lang.dir, lang.platforms[id])

-----------------------------------------------------------------------------
\* Of the platforms those that apply; the model remembers them for the report.
ApplicablePlatforms(model, platforms) ==
  {p \in platforms :
     \/ \E lang \in Range(model.langs) : cpe_platform_applicable_lang_model(model, lang, Shifted(p))
     \/ \E dict \in Range(model.dicts) :
          p \in DOMAIN NameOf /\ cpe_name_applicable_dict(NameOf[p], dict, dict.dir)}

xccdf_policy_model_platforms_are_applicable(model, platforms) ==
  platforms = {} \/ ApplicablePlatforms(model, platforms) # {}
==============================================================================
