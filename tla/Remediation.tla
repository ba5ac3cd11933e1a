---------------------------- MODULE Remediation ----------------------------
(***************************************************************************)
(* Fixing what an evaluation found to fail                                 *)
(* (XCCDF_POLICY/xccdf_policy_remediate.c): the choice of a fix, its text  *)
(* (xccdf_policy_substitute.c), its execution, the check of its success.   *)
(*                                                                         *)
(* A rule is [applies, selected, fixes], a fix [applies, system, reboot,   *)
(* disruption, content].  Its content is a sequence of nodes [kind, text,  *)
(* idref, children] of XML; the kinds "sub" and "title" of elements refer  *)
(* to a value or a plain text by idref, and so do the kinds "object" and   *)
(* "object title" of another name space.  A text is a sequence of words;   *)
(* those of values, titles and plain texts are not empty.                  *)
(***************************************************************************)
EXTENDS Integers, Sequences, SequencesExt

CONSTANTS
  Rules,         \* id -> rule
  Interpreters,  \* the systems of fixes for which an interpreter is installed
  Values,        \* id -> the text of a value
  Titles,        \* id -> the title of a value or an item
  PlainTexts,    \* id -> a plain text
  CanRun(_),     \* whether the directory, file, pipe and process of a text can be made
  Run(_, _),     \* external: what a script makes of the system
  Holds(_, _)    \* external: whether a definition is true of a system

-----------------------------------------------------------------------------
(* The choice of a fix.                                                    *)

_filter_fixes_by_applicability(rule) ==
  IF rule.applies THEN SelectSeq(rule.fixes, LAMBDA f : f.applies) ELSE <<>>
_filter_fixes_by_system(fixes, systems) == SelectSeq(fixes, LAMBDA f : f.system \in systems)

\* Of the disruptions that are medium or low the last one wins.
_filter_fixes_by_distruption_and_reboot(fixes) ==
  LET reboot == \A i \in DOMAIN fixes : fixes[i].reboot
      kept == SelectSeq(fixes, LAMBDA f : reboot \/ ~f.reboot)
      preferred == SelectSeq(kept, LAMBDA f : f.disruption \in {"medium", "low"})
  IN IF preferred = <<>> THEN kept
     ELSE SelectSeq(kept, LAMBDA f : f.disruption = Last(preferred).disruption)

\* A sequence of at most one.
Suitable(rule, systems) ==
  LET fixes == _filter_fixes_by_distruption_and_reboot(
                 _filter_fixes_by_system(_filter_fixes_by_applicability(rule), systems))
  IN IF fixes = <<>> THEN <<>> ELSE <<Head(fixes)>>
_find_suitable_fix(id) == IF id \in DOMAIN Rules THEN Suitable(Rules[id], Interpreters) ELSE <<>>
_find_fix_for_template(rule, template) == Suitable(rule, {template})

-----------------------------------------------------------------------------
(* Its text.                                                               *)

TextNode(text) == [kind |-> "text", text |-> text, idref |-> "", children |-> <<>>]
Titled(id) == IF id \in DOMAIN Titles THEN Titles[id] ELSE <<>>
NamedText(id) == IF id \in DOMAIN PlainTexts THEN PlainTexts[id] ELSE <<>>

\* What a reference stands for, <<>> for NULL: titles are of values when a
\* sub asks for one, and of any item for an object.
Referred(node) ==
  IF node.kind = "object title" THEN Titled(node.idref)
  ELSE IF node.idref \in DOMAIN Values
       THEN IF node.kind = "title" THEN Titled(node.idref) ELSE Values[node.idref]
       ELSE NamedText(node.idref)

\* A sub without an answer stays and is a warning, 2; an object becomes an
\* empty text.
_xccdf_text_substitution_cb(node) ==
  IF node.kind \in {"sub", "title"}
  THEN IF Referred(node) = <<>> THEN [res |-> 2, node |-> node]
       ELSE [res |-> 0, node |-> TextNode(Referred(node))]
  ELSE [res |-> 0,
        node |-> IF node.kind \in {"object", "object title"} THEN TextNode(Referred(node)) ELSE node]

\* The result is the first that is not 0, the output what all calls made.
RECURSIVE xml_element_dfs_callback(_)
xml_element_dfs_callback(node) ==
  LET own == _xccdf_text_substitution_cb(node)
      below == [i \in DOMAIN own.node.children |-> xml_element_dfs_callback(own.node.children[i])]
      results == SelectSeq(<<own.res>> \o [i \in DOMAIN below |-> below[i].res], LAMBDA r : r # 0)
  IN [res |-> IF results = <<>> THEN 0 ELSE results[1],
      node |-> [own.node EXCEPT !.children = [i \in DOMAIN below |-> below[i].node]]]

xml_iterate_dfs(content) ==
  IF \E i \in DOMAIN content : content[i].kind = "malformed"
  THEN [res |-> 1, content |-> <<>>]
  ELSE LET out == xml_element_dfs_callback([TextNode(<<>>) EXCEPT !.kind = "x", !.children = content])
       IN [res |-> out.res, content |-> out.node.children]

\* The content is set only if all was substituted.
xccdf_policy_resolve_fix_substitution(fix) ==
  LET out == xml_iterate_dfs(fix.content)
  IN [res |-> out.res, fix |-> IF out.res = 0 THEN [fix EXCEPT !.content = out.content] ELSE fix]

\* Comments go; elements are refused.
IsText(node) == node.kind \in {"text", "cdata"}
_xccdf_fix_decode_xml(fix) ==
  IF \E i \in DOMAIN fix.content : ~IsText(fix.content[i]) /\ fix.content[i].kind # "comment"
  THEN [res |-> 1, text |-> <<>>]
  ELSE LET texts == SelectSeq(fix.content, IsText)
       IN [res |-> 0, text |-> FlattenSeq([i \in DOMAIN texts |-> texts[i].text])]

-----------------------------------------------------------------------------
(* Its execution.  p = [system, memory, results, calls]: the system, what  *)
(* the OVAL session remembers of definitions, the rule results [rule,      *)
(* result, checks, fixes, messages] of an evaluation, the calls of the     *)
(* user's callbacks.  The user stops at the calls whose numbers are in     *)
(* stops.  A check is [multi, definition].                                 *)

Message(p, i, what) == [p EXCEPT !.results[i].messages = Append(@, what)]
SetResult(p, i, result) == [p EXCEPT !.results[i].result = result]

_xccdf_fix_execute(p, i, fix) ==
  LET decoded == _xccdf_fix_decode_xml(fix)
  IN IF fix.content = <<>> THEN [res |-> 1, p |-> p]
     ELSE IF fix.system \notin Interpreters THEN [res |-> 1, p |-> Message(p, i, "not supported")]
     ELSE IF decoded.res # 0 THEN [res |-> 1, p |-> Message(p, i, "unresolved elements")]
     ELSE IF ~CanRun(decoded.text) THEN [res |-> 1, p |-> Message(p, i, "not run")]
     ELSE [res |-> 0, p |-> Message([p EXCEPT !.system = Run(@, decoded.text)], i, "completed")]

xccdf_policy_report_cb(p, name, rule, stops) ==
  [res |-> IF Len(p.calls) + 1 \in stops THEN 1 ELSE 0,
   p |-> [p EXCEPT !.calls = Append(@, [name |-> name, rule |-> rule])]]

\* A definition the session has a result of is not evaluated again.
xccdf_policy_check_evaluate(p, check) ==
  LET d == check.definition
      memory == IF d \in DOMAIN p.memory THEN p.memory
                ELSE [x \in DOMAIN p.memory \cup {d} |->
                        IF x = d THEN Holds(p.system, d) ELSE p.memory[x]]
  IN [passes |-> memory[d], p |-> [p EXCEPT !.memory = memory]]

Verify(p, i, checks) ==
  IF checks = <<>> THEN Message(SetResult(p, i, "error"), i, "missing check")
  ELSE LET asked == xccdf_policy_check_evaluate(p, Last(checks))
       IN IF asked.passes THEN SetResult(asked.p, i, "fixed")
          ELSE Message(SetResult(asked.p, i, "error"), i, "not verified")

\* Only what was executed is reported.
ExecuteAndVerify(p, i, fix, stops) ==
  LET executed == _xccdf_fix_execute(p, i, fix)
      rr == p.results[i]
      started == xccdf_policy_report_cb(executed.p, "start", rr.rule, stops)
  IN IF executed.res # 0 THEN Message(executed.p, i, "aborted")
     ELSE IF started.res # 0 THEN started.p
     ELSE xccdf_policy_report_cb(Verify(started.p, i, rr.checks), "end", rr.rule, stops).p

xccdf_policy_rule_result_remediate(p, i, stops) ==
  LET rr == p.results[i]
      fix == _find_suitable_fix(rr.rule)
      text == xccdf_policy_resolve_fix_substitution(fix[1])
      added == [p EXCEPT !.results[i].fixes = Append(@, text.fix)]
  IN IF rr.result # "fail" \/ fix = <<>> \/ (rr.checks # <<>> /\ Last(rr.checks).multi) THEN p
     ELSE IF text.res # 0 THEN Message(added, i, "substitution failed")
     ELSE ExecuteAndVerify(added, i, text.fix, stops)

\* Whatever happens to a rule result, the next one has its turn.
xccdf_policy_remediate(p, stops) ==
  FoldLeft(LAMBDA q, i : xccdf_policy_rule_result_remediate(q, i, stops),
           p, [i \in DOMAIN p.results |-> i])

-----------------------------------------------------------------------------
(* A script of fixes.  Groups make no difference to the order of rules nor *)
(* to where it ends.                                                       *)

_xccdf_policy_rule_generate_fix(id, template) ==
  LET fix == _find_fix_for_template(Rules[id], template)
      text == xccdf_policy_resolve_fix_substitution(fix[1])
      decoded == _xccdf_fix_decode_xml(text.fix)
      out(res, words) == [res |-> res, text |-> words]
  IN IF ~Rules[id].selected \/ ~Rules[id].applies \/ fix = <<>> THEN out(0, <<>>)
     ELSE IF text.res # 0 THEN out(IF text.res = 1 THEN 1 ELSE 0, <<>>)
     ELSE out(decoded.res, decoded.text)

xccdf_policy_generate_fix(ids, template) ==
  FoldLeft(LAMBDA out, id :
             LET one == _xccdf_policy_rule_generate_fix(id, template)
             IN IF out.res # 0 THEN out ELSE [res |-> one.res, text |-> out.text \o one.text],
           [res |-> 0, text |-> <<>>], ids)
=============================================================================
