------------------------------ MODULE XccdfDom ------------------------------
(***************************************************************************)
(* What an XCCDF document keeps of what is in memory, and what is in memory *)
(* after it is read again (XCCDF/item.c, rule.c, value.c, profile.c,        *)
(* benchmark.c, result.c, tailoring.c).                                     *)
(*                                                                         *)
(* An element is [el, at, ok, text, sub]: its name, its attributes, whether *)
(* no attribute was written twice, its text and the elements in it.  The    *)
(* document is laid out as it is when it is saved: there is white space     *)
(* between two elements.  A "-" in the name of an attribute is a "_" here.  *)
(* References, metadata, dictionaries and the markup of a text are values   *)
(* nobody looks into.                                                       *)
(***************************************************************************)
EXTENDS Sequences, SequencesExt, Functions, TLC

CONSTANTS Decimal(_),          \* what is left of a number printed with "%f"
          Bound(_),            \* the same, cut to 14 characters
          Words(_),            \* the words of an attribute
          oscap_expand_ipv6(_) \* an address written out in full

NULL == "NULL"
Blank == "blank"
Failed == [el |-> "failed"]

Each(s, Op(_)) == [i \in DOMAIN s |-> Op(s[i])]
OneEach(s, Op(_)) == FlattenSeq(Each(s, Op))
If(b, s) == IF b THEN s ELSE <<>>
\* What is not there is not added to a list.
Kept(s) == SelectSeq(s, LAMBDA v : v # NULL)
Given(at) == RestrictDomain(at, LAMBDA a : at[a] # NULL)
\* xmlNewProp writes an empty value for a missing one.
Prop(v) == IF v = NULL THEN "" ELSE v
Flag(b) == IF b THEN "true" ELSE "false"
IfTrue(b) == IF b THEN "true" ELSE NULL

Elem(el, at, sub) == [el |-> el, at |-> Given(at), ok |-> TRUE, text |-> NULL, sub |-> sub]
Leaf(el, at, text) ==
  [el |-> el, at |-> Given(at), ok |-> TRUE, text |-> IF text = "" THEN NULL ELSE text, sub |-> <<>>]
NoAttributes == [x \in {} |-> NULL]
RECURSIVE WellFormed(_)
WellFormed(n) == n.ok /\ \A i \in DOMAIN n.sub : WellFormed(n.sub[i])

Has(n, a) == a \in DOMAIN n.at
Attr(n, a) == IF Has(n, a) THEN n.at[a] ELSE NULL
BoolAttr(n, a) == Attr(n, a) \in {"true", "1"}
Subs(n, els) == SelectSeq(n.sub, LAMBDA c : c.el \in els)
All(n, el, Op(_)) == Each(Subs(n, {el}), Op)

\* Of an element without text the reader takes the white space that follows,
\* if it stands on one of its attributes, and nothing otherwise.
String(n, onAttribute) ==
  IF n.text # NULL THEN n.text ELSE IF onAttribute THEN Blank ELSE NULL

-----------------------------------------------------------------------------
(* Texts.  override is NULL if the document does not say.                   *)

oscap_text_to_dom(el, canOverride, at, t) ==
  Leaf(el, at @@ IF canOverride THEN [override |-> t.override] ELSE NoAttributes, t.text)
Texts(el, ts) == Each(ts, LAMBDA t : oscap_text_to_dom(el, TRUE, NoAttributes, t))

\* Without the attribute the reader stays where it was, on an attribute of
\* another name or on none.
oscap_text_new_parse(n, canOverride, onAttribute) ==
  [text |-> n.text,
   override |-> IF canOverride /\ (Has(n, "override") \/ onAttribute)
                THEN Flag(BoolAttr(n, "override")) ELSE NULL]
Text(n) == oscap_text_new_parse(n, TRUE, FALSE)

-----------------------------------------------------------------------------
(* What all items have.  flags are the attributes that are true, defined     *)
(* those the document gave.                                                  *)

Flags == {"resolved", "hidden", "selected", "prohibitChanges", "multiple", "abstract", "interactive"}
Statuses == {"accepted", "deprecated", "draft", "incomplete", "interim"}
NoVersion == [text |-> NULL, update |-> NULL, time |-> NULL]

xccdf_item_new(el) ==
  [el |-> el, id |-> NULL, cluster_id |-> NULL, extends |-> NULL, flags |-> {"selected"},
   defined |-> {}, weight |-> "1.0", version |-> NoVersion, statuses |-> <<>>, dc_statuses |-> <<>>,
   title |-> <<>>, description |-> <<>>, warnings |-> <<>>, question |-> <<>>, references |-> <<>>,
   metadata |-> <<>>, rationale |-> <<>>, platforms |-> <<>>]

xccdf_status_to_dom(s) == Leaf("status", [date |-> s.date], s.status)
xccdf_warning_to_dom(w) == oscap_text_to_dom("warning", TRUE, [category |-> w.category], w.text)
Platforms(x) == Each(x.platforms, LAMBDA p : Elem("platform", [idref |-> Prop(p)], <<>>))
Metadata(x) == Each(x.metadata, LAMBDA m : Leaf("metadata", NoAttributes, m))

Children(x) ==
  Each(SelectSeq(x.statuses, LAMBDA s : s.status # NULL), xccdf_status_to_dom)
    \o Each(x.dc_statuses, LAMBDA r : Leaf("dc-status", NoAttributes, r))
    \o If(x.el \notin {"Benchmark", "TestResult"} /\ x.version.text # NULL,
          <<Leaf("version", [update |-> x.version.update, time |-> x.version.time], x.version.text)>>)
    \o Texts("title", x.title) \o Texts("description", x.description)
    \o If(x.el = "Benchmark",
          Each(x.notices, LAMBDA n : oscap_text_to_dom("notice", FALSE, [id |-> n.id], n.text))
            \o Texts("front-matter", x.front_matter) \o Texts("rear-matter", x.rear_matter))
    \o Each(x.warnings, xccdf_warning_to_dom)
    \o Texts("question", x.question)
    \o Each(x.references, LAMBDA r : Leaf("reference", NoAttributes, r))
    \o If(x.el # "Benchmark", Metadata(x))

\* at and sub are what the kind of the item adds.
xccdf_item_to_dom(x, at, sub) ==
  LET general == Given([id |-> Prop(x.id), cluster_id |-> x.cluster_id,
                        hidden |-> IF "hidden" \in x.defined THEN Flag("hidden" \in x.flags) ELSE NULL,
                        prohibitChanges |-> IfTrue("prohibitChanges" \in x.flags),
                        abstract |-> IfTrue("abstract" \in x.flags)])
  IN [el |-> x.el, at |-> general @@ Given(at), ok |-> DOMAIN general \cap DOMAIN Given(at) = {},
      text |-> NULL, sub |-> Children(x) \o sub]

xccdf_item_process_attributes(n) ==
  LET given == DOMAIN n.at \cap Flags
  IN [xccdf_item_new(n.el) EXCEPT
        !.id = Attr(n, "id"), !.cluster_id = Attr(n, "cluster_id"), !.extends = Attr(n, "extends"),
        !.flags = (@ \ given) \cup {f \in given : BoolAttr(n, f)},
        !.defined = given \cup (DOMAIN n.at \cap {"weight"}),
        !.weight = IF Has(n, "weight") THEN n.at.weight ELSE @]

xccdf_warning_new_parse(n) ==
  [category |-> Attr(n, "category"), text |-> oscap_text_new_parse(n, TRUE, Has(n, "category"))]

Version(n) == [text |-> n.text, update |-> Attr(n, "update"), time |-> Attr(n, "time")]

Status(n) == Each(SelectSeq(Subs(n, {"status"}), LAMBDA c : c.text \in Statuses),
                  LAMBDA c : [status |-> c.text, date |-> Attr(c, "date")])

xccdf_item_process_element(x, n) ==
  [x EXCEPT !.title = All(n, "title", Text),
            !.description = All(n, "description", Text),
            !.warnings = All(n, "warning", xccdf_warning_new_parse),
            !.references = All(n, "reference", LAMBDA c : c.text),
            !.statuses = Status(n),
            !.dc_statuses = All(n, "dc-status", LAMBDA c : c.text),
            \* The last one counts.
            !.version = IF Subs(n, {"version"}) = <<>> THEN @ ELSE Version(Last(Subs(n, {"version"}))),
            !.rationale = All(n, "rationale", Text),
            !.platforms = Kept(All(n, "platform", LAMBDA c : Attr(c, "idref"))),
            !.question = All(n, "question", Text),
            !.metadata = All(n, "metadata", LAMBDA c : c.text)]
Item(n) == xccdf_item_process_element(xccdf_item_process_attributes(n), n)

-----------------------------------------------------------------------------
(* Rules and groups.                                                        *)

XCCDF_STRATEGY_MAP == <<"configure", "disable", "enable", "patch", "policy", "restrict", "update",
                        "combination", NULL>>
\* 0 is a strategy that is not known.
XCCDF_STRATEGY(word) == IF word = NULL THEN 0 ELSE SelectInSeq(XCCDF_STRATEGY_MAP, LAMBDA w : w = word)

Requires(x) ==
  OneEach(x.requires, LAMBDA ids : Each(ids, LAMBDA id : Elem("requires", [idref |-> id], <<>>)))
Conflicts(x) == Each(x.conflicts, LAMBDA id : Elem("conflicts", [idref |-> id], <<>>))
ItemDeps(x, n) ==
  [x EXCEPT !.requires = SelectSeq(All(n, "requires", LAMBDA c : Words(Attr(c, "idref"))),
                                   LAMBDA ids : ids # <<>>),
            !.conflicts = Kept(All(n, "conflicts", LAMBDA c : Attr(c, "idref")))]

xccdf_ident_to_dom(i) == Leaf("ident", [system |-> Prop(i.system)], i.id)
xccdf_ident_parse(n) == [system |-> Attr(n, "system"), id |-> String(n, TRUE)]

xccdf_profile_note_to_dom(note) ==
  oscap_text_to_dom("profile-note", FALSE, [tag |-> Prop(note.reftag)], note.text)
ProfileNotes(n) ==
  Each(SelectSeq(Subs(n, {"profile-note"}), LAMBDA c : Has(c, "tag")),
       LAMBDA c : [reftag |-> c.at.tag, text |-> oscap_text_new_parse(c, FALSE, TRUE)])

Effort(f) == [reboot |-> IfTrue(f.reboot), complexity |-> f.complexity, disruption |-> f.disruption]
EffortOf(n) == [reboot |-> BoolAttr(n, "reboot"), complexity |-> Attr(n, "complexity"),
                disruption |-> Attr(n, "disruption"), strategy |-> XCCDF_STRATEGY(Attr(n, "strategy"))]

\* The map is read one place too far, which ends in an empty word.
xccdf_fixtext_to_dom(f) ==
  oscap_text_to_dom("fixtext", TRUE,
    Effort(f) @@ [fixref |-> f.fixref,
                  strategy |-> IF f.strategy = 0 THEN NULL ELSE Prop(XCCDF_STRATEGY_MAP[f.strategy + 1])],
    f.text)
xccdf_fixtext_parse(n) ==
  EffortOf(n) @@ [fixref |-> Attr(n, "fixref"), text |-> oscap_text_new_parse(n, TRUE, Has(n, "fixref"))]

xccdf_fix_to_dom(f) ==
  Leaf("fix", Effort(f) @@ [id |-> f.id, system |-> f.system, platform |-> f.platform,
                            strategy |-> IF f.strategy = 0 THEN NULL ELSE XCCDF_STRATEGY_MAP[f.strategy]],
       f.content)
xccdf_fix_parse(n) ==
  EffortOf(n) @@ [id |-> Attr(n, "id"), system |-> Attr(n, "system"), platform |-> Attr(n, "platform"),
                  content |-> n.text]

\* oper is NULL in a check that is not complex; multi and negate are NULL if
\* the document does not say.
RECURSIVE xccdf_check_to_dom(_)
xccdf_check_to_dom(c) ==
  LET complex == c.oper # NULL
  IN Elem(IF complex THEN "complex-check" ELSE "check",
          [system |-> IF complex THEN NULL ELSE Prop(c.system), id |-> c.id, selector |-> c.selector,
           multi_check |-> IF complex THEN NULL ELSE c.multi, negate |-> c.negate, operator |-> c.oper],
          Each(c.children, xccdf_check_to_dom)
            \o Each(c.imports, LAMBDA i : Leaf("check-import",
                                               [import_name |-> Prop(i.name), import_xpath |-> i.xpath],
                                               i.content))
            \o Each(c.exports, LAMBDA e : Elem("check-export",
                                               [export_name |-> Prop(e.name), value_id |-> Prop(e.value)],
                                               <<>>))
            \o Each(c.content_refs, LAMBDA r : Elem("check-content-ref",
                                                    [name |-> r.name, href |-> Prop(r.href)], <<>>))
            \o If(c.content # NULL, <<Leaf("check-content", NoAttributes, c.content)>>))

\* Without an attribute on the element the reader never enters it.
RECURSIVE xccdf_check_parse(_)
xccdf_check_parse(n) ==
  LET entered == DOMAIN n.at \cap {"id", "system", "selector", "operator", "multi_check", "negate"} # {}
      body == IF entered THEN n ELSE [n EXCEPT !.sub = <<>>]
      With(els, a) == SelectSeq(Subs(body, els), LAMBDA c : Has(c, a))
      content == Subs(body, {"check-content"})
  IN [id |-> Attr(n, "id"), system |-> Attr(n, "system"), selector |-> Attr(n, "selector"),
      oper |-> Attr(n, "operator"),
      multi |-> IF Has(n, "multi_check") /\ n.el = "check" THEN Flag(BoolAttr(n, "multi_check")) ELSE NULL,
      negate |-> IF Has(n, "negate") THEN Flag(BoolAttr(n, "negate")) ELSE NULL,
      children |-> If(Has(n, "operator"),
                      Each(Subs(body, {"check", "complex-check"}), xccdf_check_parse)),
      imports |-> Each(With({"check-import"}, "import_name"),
                       LAMBDA c : [name |-> c.at.import_name, xpath |-> Attr(c, "import_xpath"),
                                   content |-> String(c, TRUE)]),
      exports |-> Each(With({"check-export"}, "export_name"),
                       LAMBDA c : [name |-> c.at.export_name, value |-> Attr(c, "value_id")]),
      content_refs |-> Each(With({"check-content-ref"}, "href"),
                            LAMBDA c : [name |-> Attr(c, "name"), href |-> c.at.href]),
      content |-> IF content = <<>> THEN NULL ELSE Head(content).text]

xccdf_rule_new(base) ==
  base @@ [role |-> NULL, severity |-> NULL, requires |-> <<>>, conflicts |-> <<>>, idents |-> <<>>,
           profile_notes |-> <<>>, fixtexts |-> <<>>, fixes |-> <<>>, checks |-> <<>>,
           impact_metric |-> NULL]

Weight(x) == IF "weight" \in x.defined THEN Decimal(x.weight) ELSE NULL

xccdf_rule_to_dom(x) ==
  xccdf_item_to_dom(x,
    [extends |-> x.extends, multiple |-> IfTrue("multiple" \in x.flags),
     selected |-> Flag("selected" \in x.flags), weight |-> Weight(x),
     role |-> x.role, severity |-> x.severity],
    Texts("rationale", x.rationale) \o Platforms(x) \o Requires(x) \o Conflicts(x)
      \o Each(x.idents, xccdf_ident_to_dom) \o Each(x.profile_notes, xccdf_profile_note_to_dom)
      \o Each(x.fixtexts, xccdf_fixtext_to_dom) \o Each(x.fixes, xccdf_fix_to_dom)
      \o Each(x.checks, xccdf_check_to_dom))

xccdf_rule_parse(n) ==
  [ItemDeps(xccdf_rule_new(Item(n)), n) EXCEPT
    !.role = Attr(n, "role"), !.severity = Attr(n, "severity"),
    !.defined = @ \cup (DOMAIN n.at \cap {"role", "severity"}),
    !.profile_notes = ProfileNotes(n),
    !.checks = Each(Subs(n, {"check", "complex-check"}), xccdf_check_parse),
    !.fixes = All(n, "fix", xccdf_fix_parse),
    !.fixtexts = All(n, "fixtext", xccdf_fixtext_parse),
    !.idents = All(n, "ident", xccdf_ident_parse)]

-----------------------------------------------------------------------------
(* Values.  given is which of the two the document gives, must_match is     *)
(* NULL if it does not say.                                                 *)

Instance(selector) ==
  [selector |-> selector, given |-> {}, value |-> NULL, defval |-> NULL, match |-> NULL,
   lower_bound |-> NULL, upper_bound |-> NULL, must_match |-> NULL, choices |-> <<>>]

xccdf_value_new(base) ==
  base @@ [type |-> "string", oper |-> NULL, interface_hint |-> NULL, instances |-> <<>>, sources |-> <<>>]

Selector(i) == [selector |-> IF i.selector = "" THEN NULL ELSE i.selector]
xccdf_unit_node(el, i, text, given) == If(given, <<Leaf(el, Selector(i), text)>>)

\* All values first, then all defaults and so on.
xccdf_value_to_dom(x) ==
  LET Unit(el, Value(_), IsGiven(_)) ==
        OneEach(x.instances, LAMBDA i : xccdf_unit_node(el, i, Value(i), IsGiven(i)))
      Offered(i) ==
        If(i.choices # <<>>,
           <<Elem("choices", Selector(i) @@ [mustMatch |-> IF i.must_match = "true" THEN "true" ELSE NULL],
                  Each(i.choices, LAMBDA c : Leaf("choice", NoAttributes, c)))>>)
  IN xccdf_item_to_dom(x,
       [extends |-> x.extends, operator |-> x.oper, type |-> x.type,
        interactive |-> IfTrue("interactive" \in x.flags), interfaceHint |-> x.interface_hint],
       Unit("value", LAMBDA i : i.value, LAMBDA i : "value" \in i.given)
         \o Unit("default", LAMBDA i : i.defval, LAMBDA i : "defval" \in i.given)
         \o Unit("match", LAMBDA i : i.match, LAMBDA i : x.type = "string" /\ i.match # NULL)
         \o Unit("lower-bound", LAMBDA i : Bound(i.lower_bound),
                 LAMBDA i : x.type = "number" /\ i.lower_bound # NULL)
         \o Unit("upper-bound", LAMBDA i : Bound(i.upper_bound),
                 LAMBDA i : x.type = "number" /\ i.upper_bound # NULL)
         \o OneEach(x.instances, Offered)
         \o Each(x.sources, LAMBDA s : Leaf("source", NoAttributes, s)))

\* What an element says goes to the first instance with its selector.
_xccdf_value_find_or_create_instance(instances, selector, Op(_)) ==
  LET found == SelectInSeq(instances, LAMBDA i : i.selector = selector)
  IN IF found = 0 THEN Append(instances, Op(Instance(selector)))
     ELSE [instances EXCEPT ![found] = Op(@)]

Unit(instances, c, type) ==
  LET text == String(c, Has(c, "selector"))
      At(Op(_)) == _xccdf_value_find_or_create_instance(
                     instances, IF Has(c, "selector") THEN c.at.selector ELSE "", Op)
  IN CASE c.el = "value" -> At(LAMBDA i : [i EXCEPT !.value = text, !.given = @ \cup {"value"}])
       [] c.el = "default" -> At(LAMBDA i : [i EXCEPT !.defval = text, !.given = @ \cup {"defval"}])
       [] c.el = "match" /\ type = "string" -> At(LAMBDA i : [i EXCEPT !.match = text])
       [] c.el = "lower-bound" /\ type = "number" -> At(LAMBDA i : [i EXCEPT !.lower_bound = text])
       [] c.el = "upper-bound" /\ type = "number" -> At(LAMBDA i : [i EXCEPT !.upper_bound = text])
       [] c.el = "choices" ->
            At(LAMBDA i : [i EXCEPT !.must_match = Flag(BoolAttr(c, "mustMatch")),
                                    !.choices = @ \o Kept(All(c, "choice", LAMBDA d : String(d, FALSE)))])
       [] OTHER -> instances

xccdf_value_parse(n) ==
  LET type == IF Has(n, "type") THEN n.at.type ELSE "string"
  IN [xccdf_value_new(Item(n)) EXCEPT
       !.type = type, !.oper = Attr(n, "operator"), !.interface_hint = Attr(n, "interfaceHint"),
       !.sources = Kept(All(n, "source", LAMBDA c : String(c, FALSE))),
       !.instances = FoldLeft(LAMBDA is, c : Unit(is, c, type), <<>>, n.sub)]

\* The instance of a selector; without a selector and without an instance for
\* it, the first one of all.
xccdf_value_get_instance_by_selector(x, selector) ==
  LET found == SelectSeq(x.instances, LAMBDA i : i.selector = selector)
  IN IF found # <<>> THEN Head(found)
     ELSE IF selector = "" /\ x.instances # <<>> THEN Head(x.instances) ELSE Instance(NULL)

xccdf_group_new(base) ==
  base @@ [requires |-> <<>>, conflicts |-> <<>>, values |-> <<>>, content |-> <<>>]

RECURSIVE xccdf_group_to_dom(_)
ContentDom(content) ==
  Each(content, LAMBDA i : IF i.el = "Rule" THEN xccdf_rule_to_dom(i) ELSE xccdf_group_to_dom(i))
xccdf_group_to_dom(x) ==
  xccdf_item_to_dom(x,
    [extends |-> x.extends, weight |-> Weight(x),
     selected |-> IF "selected" \in x.defined THEN Flag("selected" \in x.flags) ELSE NULL],
    Texts("rationale", x.rationale) \o Platforms(x) \o Requires(x) \o Conflicts(x)
      \o Each(x.values, xccdf_value_to_dom) \o ContentDom(x.content))

Named(n, el) == SelectSeq(Subs(n, {el}), LAMBDA c : Has(c, "id"))
RECURSIVE xccdf_group_parse(_)
\* An item without an id is left out.
xccdf_content_parse(n) ==
  Each(SelectSeq(Subs(n, {"Rule", "Group"}), LAMBDA c : Has(c, "id")),
       LAMBDA c : IF c.el = "Rule" THEN xccdf_rule_parse(c) ELSE xccdf_group_parse(c))
xccdf_group_parse(n) ==
  [ItemDeps(xccdf_group_new(Item(n)), n) EXCEPT
    !.values = Each(Named(n, "Value"), xccdf_value_parse), !.content = xccdf_content_parse(n)]

-----------------------------------------------------------------------------
(* Profiles.                                                                *)

xccdf_profile_new(base) ==
  base @@ [note_tag |-> NULL, selects |-> <<>>, setvalues |-> <<>>, refine_values |-> <<>>,
           refine_rules |-> <<>>, tailoring |-> FALSE]

xccdf_setvalue_to_dom(v) == Leaf("set-value", [idref |-> v.item], v.value)
SetValues(n) ==
  Each(SelectSeq(Subs(n, {"set-value"}), LAMBDA c : Has(c, "idref")),
       LAMBDA c : [item |-> c.at.idref, value |-> String(c, TRUE)])

\* Of those for the same item only the last, in the order they have.
Final(s) ==
  LET last == SelectSeq([i \in DOMAIN s |-> i],
                        LAMBDA i : s[i].item = NULL \/ \A j \in DOMAIN s : s[j].item = s[i].item => j <= i)
  IN Each(last, LAMBDA i : s[i])

\* An abstract profile says so twice.
xccdf_profile_to_dom(x) ==
  xccdf_item_to_dom(x,
    [abstract |-> IfTrue("abstract" \in x.flags), extends |-> x.extends, note_tag |-> x.note_tag],
    Each(x.platforms, LAMBDA p : Leaf("platform", NoAttributes, p))
      \o Each(Final(x.selects),
              LAMBDA s : Elem("select", [idref |-> s.item, selected |-> Flag(s.selected)],
                              Texts("remark", s.remarks)))
      \o Each(Final(x.setvalues), xccdf_setvalue_to_dom)
      \o Each(x.refine_values,
              LAMBDA v : Elem("refine-value", [idref |-> v.item, operator |-> v.oper, selector |-> v.selector],
                              Texts("remark", v.remarks)))
      \o Each(x.refine_rules,
              LAMBDA r : Elem("refine-rule",
                              [idref |-> r.item, role |-> r.role, selector |-> r.selector,
                               severity |-> r.severity,
                               weight |-> IF r.weight = NULL THEN NULL ELSE Decimal(r.weight)],
                              Texts("remark", r.remarks))))

\* A remark without text is read again and again: there is none.
xccdf_parse_remarks(n) == All(n, "remark", Text)
xccdf_profile_parse(n) ==
  LET Refined(el) == SelectSeq(Subs(n, {el}), LAMBDA c : Has(c, "idref"))
  IN [xccdf_profile_new(Item(n)) EXCEPT
       !.selects = All(n, "select", LAMBDA c : [item |-> Attr(c, "idref"),
                                                selected |-> BoolAttr(c, "selected"),
                                                remarks |-> xccdf_parse_remarks(c)]),
       !.setvalues = SetValues(n),
       !.refine_values = Each(Refined("refine-value"),
                              LAMBDA c : [item |-> c.at.idref, selector |-> Attr(c, "selector"),
                                          oper |-> Attr(c, "operator"), remarks |-> xccdf_parse_remarks(c)]),
       !.refine_rules = Each(Refined("refine-rule"),
                             LAMBDA c : [item |-> c.at.idref, selector |-> Attr(c, "selector"),
                                         weight |-> Attr(c, "weight"), role |-> Attr(c, "role"),
                                         severity |-> Attr(c, "severity"),
                                         remarks |-> xccdf_parse_remarks(c)])]

-----------------------------------------------------------------------------
(* Results of a test.                                                       *)

\* In the order in which they are numbered when they are written, and what
\* number stands for each when they are read.
XCCDF_FACT_TYPE_MAP == <<"boolean", "string", "number">>
XCCDF_TYPE(word) == IF word = "number" THEN 1 ELSE IF word = "string" THEN 2 ELSE 3

xccdf_result_new(base) ==
  base @@ [start_time |-> NULL, end_time |-> NULL, test_system |-> NULL, benchmark_uri |-> NULL,
           profile |-> NULL, remarks |-> <<>>, organizations |-> <<>>, identities |-> <<>>,
           targets |-> <<>>, target_addresses |-> <<>>, target_facts |-> <<>>,
           target_id_refs |-> <<>>, applicable_platforms |-> <<>>, setvalues |-> <<>>,
           rule_results |-> <<>>, scores |-> <<>>]

\* foreign is an element of another language.
xccdf_target_identifier_to_dom(t) ==
  IF t.foreign # NULL THEN Leaf("foreign", NoAttributes, t.foreign)
  ELSE Elem("target-id-ref", [system |-> t.system, href |-> t.href, name |-> t.name], <<>>)

xccdf_override_to_dom(o) ==
  Elem("override", [date |-> o.time, authority |-> o.authority],
       If(o.old_result # NULL, <<Leaf("old-result", NoAttributes, o.old_result)>>)
         \o If(o.new_result # NULL, <<Leaf("new-result", NoAttributes, o.new_result)>>)
         \o Texts("remark", o.remark))
xccdf_override_new_parse(n) ==
  LET entered == Has(n, "time") \/ Has(n, "authority")
      Result(el) == IF entered /\ Subs(n, {el}) # <<>> THEN Last(Subs(n, {el})).text ELSE NULL
  IN [time |-> Attr(n, "time"), authority |-> Attr(n, "authority"),
      old_result |-> Result("old-result"), new_result |-> Result("new-result"),
      remark |-> If(entered /\ Subs(n, {"remark"}) # <<>>, <<Text(Head(Subs(n, {"remark"})))>>)]

xccdf_rule_result_to_dom(r) ==
  Elem("rule-result",
       [idref |-> r.idref, role |-> r.role, time |-> r.time, severity |-> r.severity,
        version |-> r.version, weight |-> Decimal(r.weight)],
       If(r.result # NULL, <<Leaf("result", NoAttributes, r.result)>>)
         \o Each(r.overrides, xccdf_override_to_dom)
         \o Each(r.idents, xccdf_ident_to_dom)
         \o Each(r.messages, LAMBDA m : Leaf("message", [severity |-> m.severity], m.content))
         \* The context stands for that of the parent, too.
         \o Each(r.instances, LAMBDA i : Leaf("instance", [context |-> i.context, parentContext |-> i.context],
                                              i.content))
         \o Each(r.fixes, xccdf_fix_to_dom)
         \o Each(r.checks, xccdf_check_to_dom))
xccdf_rule_result_new_parse(n) ==
  LET result == Subs(n, {"result"})
  IN [idref |-> Attr(n, "idref"), role |-> Attr(n, "role"), time |-> Attr(n, "time"),
      version |-> Attr(n, "version"), weight |-> Attr(n, "weight"), severity |-> Attr(n, "severity"),
      result |-> IF result = <<>> THEN NULL ELSE Last(result).text,
      overrides |-> All(n, "override", xccdf_override_new_parse),
      idents |-> All(n, "ident", xccdf_ident_parse),
      messages |-> All(n, "message", LAMBDA c : [severity |-> Attr(c, "severity"),
                                                 content |-> String(c, Has(c, "severity"))]),
      instances |-> All(n, "instance",
                        LAMBDA c : [context |-> IF Has(c, "context") THEN c.at.context ELSE "undefined",
                                    parent_context |-> Attr(c, "parentContext"),
                                    content |-> String(c, DOMAIN c.at # {})]),
      fixes |-> All(n, "fix", xccdf_fix_parse),
      checks |-> All(n, "check", xccdf_check_parse)]

Facts(facts) ==
  Each(facts, LAMBDA f : Leaf("fact", [name |-> f.name, type |-> XCCDF_FACT_TYPE_MAP[f.type]], f.value))
xccdf_target_fact_new_parse(n) ==
  [name |-> Attr(n, "name"), type |-> XCCDF_TYPE(Attr(n, "type")), value |-> String(n, DOMAIN n.at # {})]

\* An address with a colon in it is one of IPv6, others stay as they are.
\* The identifier of the benchmark, which is not read, is left out.
xccdf_result_to_dom(x) ==
  LET dom ==
        xccdf_item_to_dom(x,
          [start_time |-> x.start_time, end_time |-> Prop(x.end_time), version |-> x.version.text],
          Texts("remark", x.remarks)
            \o Each(x.organizations, LAMBDA o : Leaf("organization", NoAttributes, o))
            \o Each(x.identities, LAMBDA i : Leaf("identity", [authenticated |-> Flag(i.authenticated),
                                                               privileged |-> Flag(i.privileged)], i.name))
            \o If(x.profile # NULL, <<Elem("profile", [idref |-> x.profile], <<>>)>>)
            \o Each(x.targets, LAMBDA t : Leaf("target", NoAttributes, t))
            \o Each(x.target_addresses, LAMBDA a : Leaf("target-address", NoAttributes, oscap_expand_ipv6(a)))
            \o If(x.target_facts # <<>>, <<Elem("target-facts", NoAttributes, Facts(x.target_facts))>>)
            \o Each(x.target_id_refs, xccdf_target_identifier_to_dom)
            \o Each(x.applicable_platforms, LAMBDA p : Elem("platform", [idref |-> p], <<>>))
            \o Each(x.setvalues, xccdf_setvalue_to_dom)
            \o Each(x.rule_results, xccdf_rule_result_to_dom)
            \o Each(x.scores, LAMBDA s : Leaf("score", [system |-> s.system, maximum |-> Decimal(s.maximum)],
                                              Decimal(s.score))))
      title == SelectInSeq(dom.sub, LAMBDA c : c.el = "title")
  IN IF x.benchmark_uri = NULL \/ title = 0 THEN dom
     ELSE [dom EXCEPT !.sub = InsertAt(@, title, Elem("benchmark", [href |-> x.benchmark_uri], <<>>))]

xccdf_result_new_parse(n) ==
  LET First(el, a) == IF \E c \in ToSet(Subs(n, {el})) : Has(c, a)
                      THEN Head(SelectSeq(Subs(n, {el}), LAMBDA c : Has(c, a))).at[a] ELSE NULL
      Strings(el) == Kept(All(n, el, LAMBDA c : String(c, FALSE)))
  IN IF ~Has(n, "id") \/ ~Has(n, "end_time") THEN Failed
     ELSE [xccdf_result_new(Item(n)) EXCEPT
            !.end_time = n.at.end_time, !.start_time = Attr(n, "start_time"),
            !.test_system = Attr(n, "test_system"),
            !.version = IF Subs(n, {"version"}) # <<>> THEN @ ELSE [NoVersion EXCEPT !.text = Attr(n, "version")],
            !.organizations = Strings("organization"), !.targets = Strings("target"),
            !.target_addresses = Strings("target-address"),
            !.identities = All(n, "identity",
              LAMBDA c : [authenticated |-> BoolAttr(c, "authenticated"),
                          privileged |-> BoolAttr(c, "priviledged"),
                          name |-> String(c, Has(c, "authenticated") \/ Has(c, "priviledged"))]),
            !.profile = First("profile", "idref"), !.benchmark_uri = First("benchmark", "href"),
            !.target_facts = OneEach(Subs(n, {"target-facts"}),
                                     LAMBDA c : All(c, "fact", xccdf_target_fact_new_parse)),
            !.target_id_refs = All(n, "target-id-ref",
              LAMBDA c : [system |-> Attr(c, "system"), href |-> Attr(c, "href"), name |-> Attr(c, "name"),
                          foreign |-> NULL]),
            !.setvalues = SetValues(n),
            !.rule_results = All(n, "rule-result", xccdf_rule_result_new_parse),
            !.scores = All(n, "score",
              LAMBDA c : [system |-> Attr(c, "system"), score |-> c.text,
                          maximum |-> IF Has(c, "maximum") THEN c.at.maximum ELSE "100"])]

-----------------------------------------------------------------------------
(* Benchmarks.  A model of scores is the name of its system.                *)

DefaultModel == "urn:xccdf:scoring:default"

xccdf_benchmark_new(base) ==
  base @@ [lang |-> NULL, style |-> NULL, style_href |-> NULL, notices |-> <<>>, front_matter |-> <<>>,
           rear_matter |-> <<>>, plain_texts |-> <<>>, cpe_list |-> NULL, cpe_lang_model |-> NULL,
           models |-> <<DefaultModel>>, profiles |-> <<>>, values |-> <<>>, content |-> <<>>,
           results |-> <<>>]

xccdf_benchmark_to_dom(x) ==
  xccdf_item_to_dom(x,
    [resolved |-> IF "resolved" \in x.flags THEN "1" ELSE "0",
     lang |-> x.lang, style |-> x.style, style_href |-> x.style_href],
    Each(x.plain_texts, LAMBDA p : Leaf("plain-text", [id |-> p.id], p.text))
      \o If(x.cpe_list # NULL, <<Leaf("cpe-list", NoAttributes, x.cpe_list)>>)
      \o If(x.cpe_lang_model # NULL, <<Leaf("platform-specification", NoAttributes, x.cpe_lang_model)>>)
      \o Platforms(x)
      \o If(x.version.text # NULL, <<Leaf("version", NoAttributes, x.version.text)>>)
      \o Metadata(x)
      \o Each(x.models, LAMBDA system : Elem("model", [system |-> Prop(system)], <<>>))
      \o Each(x.profiles, xccdf_profile_to_dom)
      \o Each(x.values, xccdf_value_to_dom)
      \o ContentDom(x.content)
      \o Each(x.results, xccdf_result_to_dom))

\* A result that cannot be read is used as if it could.
xccdf_benchmark_parse(n) ==
  LET Final1(el) == IF Subs(n, {el}) = <<>> THEN NULL ELSE Last(Subs(n, {el})).text
  IN IF ~Has(n, "id") THEN Failed
     ELSE [xccdf_benchmark_new(Item(n)) EXCEPT
            !.lang = Attr(n, "lang"), !.style = Attr(n, "style"), !.style_href = Attr(n, "style_href"),
            !.notices = All(n, "notice", LAMBDA c : [id |-> Attr(c, "id"),
                                                     text |-> oscap_text_new_parse(c, FALSE, Has(c, "id"))]),
            !.front_matter = All(n, "front-matter", Text),
            !.rear_matter = All(n, "rear-matter", Text),
            !.plain_texts = Each(Named(n, "plain-text"),
                                 LAMBDA c : [id |-> c.at.id, text |-> IF c.text = NULL THEN "" ELSE c.text]),
            !.cpe_list = Final1("cpe-list"), !.cpe_lang_model = Final1("platform-specification"),
            !.models = @ \o SelectSeq(All(n, "model", LAMBDA c : Attr(c, "system")),
                                      LAMBDA system : system # DefaultModel),
            !.profiles = Each(Named(n, "Profile"), xccdf_profile_parse),
            !.values = Each(Named(n, "Value"), xccdf_value_parse),
            !.content = xccdf_content_parse(n),
            !.results = All(n, "TestResult", xccdf_result_new_parse)]

-----------------------------------------------------------------------------
(* Tailoring.                                                               *)

Tailoring ==
  [id |-> NULL, benchmark_ref |-> NULL, benchmark_ref_version |-> NULL, statuses |-> <<>>,
   dc_statuses |-> <<>>, version |-> NoVersion, metadata |-> <<>>, profiles |-> <<>>]

xccdf_tailoring_add_profile(t, profile) ==
  [t EXCEPT !.profiles = Append(@, [profile EXCEPT !.tailoring = TRUE])]

\* Not if another one extends it.
xccdf_tailoring_remove_profile(t, profile) ==
  IF \E p \in ToSet(t.profiles) : p # profile /\ p.extends = profile.id THEN t
  ELSE [t EXCEPT !.profiles = LET i == SelectInSeq(@, LAMBDA p : p = profile)
                              IN IF i = 0 THEN @ ELSE RemoveAt(@, i)]

Extension == [Tailoring |-> "extension-Tailoring", benchmark |-> "extension-benchmark",
              version |-> "extension-version"]

\* version is "1.0", "1.1" or "1.2", the language of the document.  In 1.1 the
\* elements are those of an extension, in a file of its own only.
xccdf_tailoring_to_dom(t, version, own) ==
  LET Name(el) == IF version = "1.1" THEN Extension[el] ELSE el
  IN IF version = "1.0" \/ (version = "1.1" /\ ~own) THEN Failed
     ELSE Elem(Name("Tailoring"), [id |-> t.id],
            If(t.benchmark_ref # NULL \/ t.benchmark_ref_version # NULL,
               <<Elem(Name("benchmark"), [href |-> t.benchmark_ref, version |-> t.benchmark_ref_version],
                      <<>>)>>)
              \o Each(t.statuses, xccdf_status_to_dom)
              \o Each(t.dc_statuses, LAMBDA r : Leaf("dc-status", NoAttributes, r))
              \o If(t.version.text # NULL,
                    <<Leaf(Name("version"), [update |-> t.version.update, time |-> t.version.time],
                           t.version.text)>>)
              \o Metadata(t)
              \o Each(t.profiles, xccdf_profile_to_dom))

\* Only Tailoring and version are known in the extension, too.
xccdf_tailoring_parse(n, benchmark) ==
  LET refs == Subs(n, {"benchmark"})
      versions == Subs(n, {"version", Extension.version})
      profiles == IF benchmark = NULL THEN <<>> ELSE Each(Named(n, "Profile"), xccdf_profile_parse)
      t == [Tailoring EXCEPT
             !.id = Attr(n, "id"),
             !.benchmark_ref = IF refs = <<>> THEN NULL ELSE Attr(Last(refs), "href"),
             !.benchmark_ref_version = IF refs = <<>> THEN NULL ELSE Attr(Last(refs), "version"),
             !.statuses = Status(n),
             !.dc_statuses = All(n, "dc-status", LAMBDA c : c.text),
             !.version = IF versions = <<>> THEN NoVersion ELSE Version(Last(versions)),
             !.metadata = All(n, "metadata", LAMBDA c : c.text)]
  IN FoldLeft(xccdf_tailoring_add_profile, t, profiles)
=============================================================================
