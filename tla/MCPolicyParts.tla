--------------------------- MODULE MCPolicyParts ----------------------------
(***************************************************************************)
(* Instances of what a policy is made of and of what is done with it,      *)
(* compared with what they should be for all small inputs.                 *)
(***************************************************************************)
LOCAL INSTANCE Integers
LOCAL INSTANCE Sequences
LOCAL INSTANCE SequencesExt
LOCAL INSTANCE FiniteSets
LOCAL INSTANCE Functions

-----------------------------------------------------------------------------
(* Names of three fields, a dictionary and a language model that lie in    *)
(* different directories.                                                  *)

\* "wfn" is a name in a format that is not taken apart.
CpeNames == [unix |-> <<"o", "", "">>, six |-> <<"o", "unix", "6">>, wfn |-> <<"", "", "">>]
WithoutHash(p) == IF p = "#new" THEN "new" ELSE IF p = "#old" THEN "old" ELSE p
\* The file lies in the directory d.
IsTrue(file, name) == file = <<"d", "oval">> /\ name = "yes"

P == INSTANCE Platforms WITH NameOf <- CpeNames, Shifted <- WithoutHash, Holds <- IsTrue

OvalCheck(name) == [href |-> "oval", name |-> name]
Match(cpe, negate) == [oper |-> "MATCH", negate |-> negate, cpe |-> cpe]
CheckExpr(name) == [oper |-> "CHECK", negate |-> FALSE, href |-> "oval", name |-> name]
Expr(oper, negate, es) == [oper |-> oper, negate |-> negate, expr |-> es]

Dict(dir, name) ==
  [dir |-> dir, items |-> <<[name |-> <<"o", "unix", "5">>, checks |-> <<>>],
                            [name |-> <<"o", "unix", "6">>,
                             checks |-> <<OvalCheck("no"), OvalCheck(name)>>]>>]
Lang(dir) == [dir |-> dir, platforms |-> [new |-> Match(CpeNames.six, FALSE),
                                          old |-> Match(CpeNames.six, TRUE)]]

Fields == {"", "a", "b"}
AllNames == {<<f, g, h>> : f \in {"", "o"}, g \in Fields, h \in Fields}
Within(name, other) == \A i \in DOMAIN name : name[i] \in {"", other[i]}

\* A name stands for all that agree with it where it says something, a longer
\* one for no more of them (cpename.c:528).  One that says nothing, as all of
\* a format that is not read, stands for everything.
ASSUME NamesCoverNames ==
  /\ \A m, n \in AllNames : P!cpe_name_match_one(m, n) <=> Within(m, n)
  /\ \A n \in AllNames : P!cpe_name_match_one(CpeNames.wfn, n)

\* A dictionary has a name if one of its items covers it; it says that a name
\* applies if one of its items is covered (cpedict.c:106, 150).
ASSUME BothWays ==
  \A n \in AllNames :
    LET dict == [dir |-> "d", items |-> <<[name |-> <<"o", "a", "">>, checks |-> <<OvalCheck("yes")>>]>>]
    IN P!cpe_name_match_dict(n, dict) /\ P!cpe_name_applicable_dict(n, dict, "d")
         => n = <<"o", "a", "">>

\* Expressions are what they say, in both places that evaluate them
\* (cpelang.c:76, 151): NAND and NOR too, and of nothing.
Smallest == {Match(CpeNames.six, FALSE), Match(CpeNames.six, TRUE)}
Expressions == Smallest \cup {Expr(op, n, es) : op \in {"AND", "OR"}, n \in BOOLEAN,
                                                es \in SeqOf(Smallest, 2)}
ASSUME ExpressionsAreBoolean ==
  \A on \in BOOLEAN :
    LET model == [dicts |-> <<Dict("d", IF on THEN "yes" ELSE "no")>>, langs |-> <<>>]
        names == IF on THEN <<CpeNames.six>> ELSE <<CpeNames.unix>>
        Value(e) == P!cpe_testexpr_evaluate(model, "d", e)
        Opposite(e) == [e EXCEPT !.negate = ~@]
        Dual(e) == [Opposite(e) EXCEPT !.oper = IF e.oper = "AND" THEN "OR" ELSE "AND",
                                       !.expr = [i \in DOMAIN e.expr |-> Opposite(e.expr[i])]]
    IN \A e \in Expressions :
         /\ Value(e) = P!cpe_language_match_expr(names, e)
         /\ Value(e) # Value(Opposite(e))
         /\ e.oper # "MATCH" => Value(e) = Value(Dual(e))

\* Another dictionary can take a platform back only through a negation
\* (xccdf_policy.c:920-963).
ASSUME MoreIsMore ==
  LET dicts == {Dict("d", "yes"), Dict("d", "no"), Dict("e", "yes")}
      models == {[dicts |-> d, langs |-> l] : d \in SeqOf(dicts, 2), l \in SeqOf({Lang("d"), Lang("e")}, 1)}
      all == {"unix", "six", "wfn", "new", "#new", "old", "#old", "other"}
      Applies(m) == P!ApplicablePlatforms(m, all)
  IN \A m \in models, d \in dicts :
       Applies(m) \ {"old", "#old"} \subseteq Applies([m EXCEPT !.dicts = Append(@, d)])

\* A name that applies is not found through an expression of a document in
\* another directory: the dictionary's files are looked for there
\* (xccdf_policy.c:813).
ASSUME FoundFromOneDirectory ==
  LET model(dir) == [dicts |-> <<Dict("d", "yes")>>, langs |-> <<Lang(dir)>>]
  IN /\ P!ApplicablePlatforms(model("d"), {"six", "new", "old"}) = {"six", "new"}
     /\ P!ApplicablePlatforms(model("e"), {"six", "new", "old"}) = {"six", "old"}

-----------------------------------------------------------------------------
(* Lists of up to three fixes, contents of up to two nodes, and two rules  *)
(* with one definition or two, under every pattern of the user's stops.    *)

SomeTitles == [v |-> <<"title">>, r |-> <<"rule">>]
Chooser == INSTANCE Remediation WITH
  Rules <- <<>>, Interpreters <- {"sh"}, Values <- [v |-> <<"value">>],
  Titles <- SomeTitles, PlainTexts <- [t |-> <<"plain">>],
  CanRun <- LAMBDA text : TRUE, Run <- LAMBDA system, text : system,
  Holds <- LAMBDA system, d : FALSE

AFix(content) ==
  [applies |-> TRUE, system |-> "sh", reboot |-> FALSE, disruption |-> "low", content |-> content]
AllFixes ==
  [applies : BOOLEAN, system : {"sh", "other"}, reboot : BOOLEAN,
   disruption : {"unknown", "low", "medium"}, content : {<<>>}]
FixLists == UNION {[1 .. n -> AllFixes] : n \in 0 .. 3}
RuleOf(fixes) == [applies |-> TRUE, selected |-> TRUE, fixes |-> fixes]
UsableFixes(fixes) == {f \in Range(fixes) : f.applies /\ f.system = "sh"}
Chosen(fixes) == Chooser!Suitable(RuleOf(fixes), {"sh"})

\* A fix is found whenever one can be used, and it asks for no reboot that
\* can be done without (xccdf_policy_remediate.c:167, 202).
ASSUME NoNeedlessReboot ==
  \A fixes \in FixLists :
    LET one == Chosen(fixes)
    IN (one = <<>> <=> UsableFixes(fixes) = {})
       /\ (one # <<>> => /\ one[1] \in UsableFixes(fixes)
                         /\ one[1].reboot => \A f \in UsableFixes(fixes) : f.reboot)

\* "choose fixes with the least disruption" (208), but the last of low and
\* medium is chosen, and an unknown one never if there is either.
ASSUME NotTheLeast ==
  LET low == AFix(<<>>)  medium == [low EXCEPT !.disruption = "medium"]
  IN Chosen(<<low, medium>>) = <<medium>> /\ Chosen(<<medium, low>>) = <<low>>
ASSUME KnownBeforeUnknown ==
  \A fixes \in FixLists :
    LET one == Chosen(fixes)
    IN one # <<>> /\ one[1].disruption = "unknown" =>
         \A f \in UsableFixes(fixes) : f.reboot = one[1].reboot => f.disruption = "unknown"

XmlNode(kind, idref, children) ==
  [kind |-> kind, text |-> IF kind \in {"text", "cdata", "comment"} THEN <<kind>> ELSE <<>>,
   idref |-> idref, children |-> children]
FixLeaves == {XmlNode(kind, "", <<>>) : kind \in {"text", "cdata", "comment", "malformed"}}
          \cup {XmlNode(kind, id, <<>>) : kind \in {"sub", "title", "object", "object title"},
                                       id \in {"v", "r", "t", "nowhere"}}
FixNodes ==
  FixLeaves \cup {XmlNode("element", "", <<leaf>>) :
                     leaf \in {l \in FixLeaves : l.kind # "malformed"}}
Contents == UNION {[1 .. n -> FixNodes] : n \in 1 .. 2}
Resolved(content) == Chooser!xccdf_policy_resolve_fix_substitution(AFix(content))
Decoded(content) == Chooser!_xccdf_fix_decode_xml(Resolved(content).fix)

\* Nothing that looks like an element reaches an interpreter, and what does
\* is what stood there, in this order (227, xccdf_policy_substitute.c:53).
Stands(node) ==
  IF node.kind \in {"text", "cdata"} THEN node.text
  ELSE CASE node.kind \in {"sub", "object"} /\ node.idref = "v" -> <<"value">>
         [] node.kind = "title" /\ node.idref = "v" -> <<"title">>
         [] node.kind = "object title" /\ node.idref \in {"v", "r"} ->
              SomeTitles[node.idref]
         [] node.kind \in {"sub", "title", "object"} /\ node.idref = "t" -> <<"plain">>
         [] OTHER -> <<>>
ASSUME ScriptsAreTexts ==
  \A content \in Contents :
    LET kinds == {content[i].kind : i \in DOMAIN content}
    IN Resolved(content).res = 0 /\ Decoded(content).res = 0 =>
         /\ kinds \cap {"element", "malformed"} = {}
         /\ Decoded(content).text = FlattenSeq([i \in DOMAIN content |-> Stands(content[i])])

\* A sub that means nothing stops the fix; an object that means nothing
\* leaves a gap in the script (xccdf_policy_substitute.c:105, 161).
ASSUME GapsInScripts ==
  LET with(kind) == <<XmlNode("text", "", <<>>), XmlNode(kind, "nowhere", <<>>)>>
  IN /\ Resolved(with("sub")).res = 2
     /\ Resolved(with("object")).res = 0 /\ Decoded(with("object")).text = <<"text">>

-----------------------------------------------------------------------------
\* A script is a word for what it repairs or what it breaks; a system is what
\* holds of it.
Scripts ==
  [none |-> [makes |-> {}, breaks |-> {}], makeA |-> [makes |-> {"a"}, breaks |-> {}],
   makeB |-> [makes |-> {"b"}, breaks |-> {}], both |-> [makes |-> {"a", "b"}, breaks |-> {}],
   swap |-> [makes |-> {"b"}, breaks |-> {"a"}]]
RunScript(system, text) == (system \ Scripts[text[1]].breaks) \cup Scripts[text[1]].makes

Fixer(one, two) == INSTANCE Remediation WITH
  Rules <- [r1 |-> RuleOf(<<AFix(<<[Chooser!TextNode(<<>>) EXCEPT !.text = <<one>>]>>)>>),
            r2 |-> RuleOf(<<AFix(<<[Chooser!TextNode(<<>>) EXCEPT !.text = <<two>>]>>)>>)],
  Interpreters <- {"sh"}, Values <- <<>>, Titles <- <<>>, PlainTexts <- <<>>,
  CanRun <- LAMBDA text : text # <<"none">>, Run <- RunScript,
  Holds <- LAMBDA system, d : d \in system

FailedRule(r, d) ==
  [rule |-> r, result |-> "fail", checks |-> <<[multi |-> FALSE, definition |-> d]>>,
   fixes |-> <<>>, messages |-> <<>>]
Failed(d1, d2) == [system |-> {}, memory |-> <<>>, calls |-> <<>>,
                   results |-> <<FailedRule("r1", d1), FailedRule("r2", d2)>>]
Remediated(one, two, d2, stops) ==
  Fixer(one, two)!xccdf_policy_remediate(Failed("a", d2), stops)
FirstOnly(one, two, d2, stops) ==
  Fixer(one, two)!xccdf_policy_rule_result_remediate(Failed("a", d2), 1, stops)

\* A rule is called fixed only if its definition held after a fix of its own
\* or of an earlier rule, and a fix that was not run changes nothing
\* (xccdf_policy_remediate.c:421); for rules that share no definition, it
\* held right after its own.
ASSUME FixedWasSeenToHold ==
  \A one, two \in DOMAIN Scripts, d2 \in {"a", "b"}, stops \in SUBSET (1 .. 4) :
    LET half == FirstOnly(one, two, d2, stops)
        end == Remediated(one, two, d2, stops)
    IN /\ end.results[1].result = "fixed" => "a" \in half.system
       /\ end.results[2].result = "fixed" => d2 \in half.system \cup end.system
       /\ d2 = "b" /\ end.results[2].result = "fixed" => "b" \in end.system
       /\ \A i \in {1, 2} : <<one, two>>[i] = "none" => end.results[i].result = "fail"

\* The session answers for a definition two rules share with what it was
\* before the second fix: what that repaired is an error, what it broke is
\* fixed (419).
ASSUME VerdictBeforeTheFix ==
  /\ Remediated("makeB", "makeA", "a", {}).results[2].result = "error"
  /\ "a" \in Remediated("makeB", "makeA", "a", {}).system
  /\ Remediated("makeA", "swap", "a", {}).results[2].result = "fixed"
  /\ "a" \notin Remediated("makeA", "swap", "a", {}).system

\* The user who stops at the first fix finds its rule failed though the fix
\* was run, and the second rule fixed all the same (411, 439).
ASSUME StopsOneRuleOnly ==
  LET end == Remediated("makeA", "makeB", "b", {1})
  IN /\ end.system = {"a", "b"}
     /\ end.results[1].result = "fail" /\ end.results[2].result = "fixed"

\* A script of fixes ends before the first fix with elements in it, but goes
\* on after one whose references mean nothing (493, 497).
Written(contents) ==
  LET G == INSTANCE Remediation WITH
             Rules <- [i \in DOMAIN contents |-> RuleOf(<<AFix(contents[i])>>)],
             Interpreters <- {}, Values <- [v |-> <<"value">>], Titles <- <<>>, PlainTexts <- <<>>,
             CanRun <- LAMBDA text : TRUE, Run <- RunScript, Holds <- LAMBDA system, d : FALSE
  IN G!xccdf_policy_generate_fix([i \in DOMAIN contents |-> i], "sh")
ASSUME ScriptEndsAtElement ==
  LET text == <<XmlNode("text", "", <<>>)>>
      after(kind, id) == Written(<<text, <<XmlNode(kind, id, <<>>)>>, text>>)
  IN /\ after("sub", "v") = [res |-> 0, text |-> <<"text", "value", "text">>]
     /\ after("sub", "nowhere") = [res |-> 0, text |-> <<"text", "text">>]
     /\ after("element", "") = [res |-> 1, text |-> <<"text">>]

-----------------------------------------------------------------------------
(* All options of the command with at most one failure, and all programs   *)
(* of five calls of the library.                                           *)

XS(Files) == INSTANCE XccdfSession
Lib == INSTANCE XccdfSession WITH Files <- 1

SessionOptions ==
  [sds : BOOLEAN, tailoring : {"none", "input", "file", "both", "component"}, custom : BOOLEAN,
   cpe : BOOLEAN, full : BOOLEAN, oval_results : BOOLEAN, arf : BOOLEAN, xccdf : BOOLEAN]
SessionOf(o) ==
  LET s == Lib!xccdf_session_new(o.sds, o.tailoring \in {"input", "both"})
      t == [s EXCEPT !.cpe = o.cpe, !.full = o.full, !.oval_results = o.oval_results,
                     !.arf = o.arf, !.xccdf = o.xccdf]
      u == CASE o.tailoring = "component" -> [Lib!New(t) EXCEPT !.component = t.next]
             [] o.tailoring \in {"file", "both"} -> Lib!xccdf_session_set_user_tailoring_file(t)
             [] OTHER -> t
  IN IF o.custom THEN [Lib!New(u) EXCEPT !.custom = u.next] ELSE u

\* What may fail in which step of an evaluation.
StepFails ==
  << {"invalid", "checklist", "import", "cpe invalid", "cpe unknown", "dictionaries", "invalid oval",
      "import oval", "agent", "invalid tailoring", "select", "tailoring"},
     {"no profile", "evaluation"},
     {"temp dir", "oval name", "invalid oval results", "save oval"},
     {"offline", "import oval"},
     {"save", "invalid result"},
     {"temp dir", "save arf"} >>
NoFailure == [k \in 1 .. 6 |-> {}]
Failures == {NoFailure} \cup {[NoFailure EXCEPT ![k] = {w}] : <<k, w>> \in
              {<<k, w>> \in (1 .. 6) \X UNION Range(StepFails) : w \in StepFails[k]}}

CommandOf(o, n, remediate, fails) ==
  LET run == XS(n)!app_evaluate_xccdf(SessionOf(o), remediate, fails)
  IN [ret |-> run.ret, before |-> run.s, s |-> XS(n)!xccdf_session_free(run.s)]

\* The failures after which the command frees something twice: a dictionary
\* of no known kind, a tailoring that is not valid, an OVAL result that
\* cannot be made.  Without OVAL results a collection of reports ends it
\* (xccdf_session.c:499, 867, 1163, 1290).
FreesTwice(o, n, fails) ==
  \/ o.cpe /\ "cpe unknown" \in fails[1]
  \/ /\ "invalid tailoring" \in fails[1]
     /\ o.tailoring \in {"input", "file", "both"} \/ (o.tailoring = "component" /\ o.sds /\ o.full)
  \/ /\ n > 0 /\ (o.oval_results \/ o.arf)
     /\ ~(o.tailoring = "component" /\ ~o.sds)
     /\ \/ "oval name" \in fails[3]
        \/ o.full /\ "invalid oval results" \in fails[3]
        \/ ~o.oval_results /\ "temp dir" \in fails[3]
WithoutTable(o, n, s) == n = 0 /\ s.bad = {"no table"} /\ o.arf

\* But for those every block is freed once, whatever fails, and is not
\* touched afterwards.
ASSUME CommandFreesOnce ==
  \A o \in SessionOptions, n \in {0, 2}, remediate \in BOOLEAN, fails \in Failures :
    LET end == CommandOf(o, n, remediate, fails)
    IN /\ end.s.bad = {"freed twice"} <=> FreesTwice(o, n, fails)
       /\ end.s.bad \notin {{}, {"freed twice"}} => WithoutTable(o, n, end.s)
       /\ end.s.bad = {} => end.s.freed = 1 .. end.s.next - 1

\* What is written of the rules is what was found last; what is written of
\* the definitions is what was found before the remediation
\* (utils/oscap-xccdf.c:500, 513).  oscap xccdf remediate has it right (628).
ASSUME OvalFromBefore ==
  \A o \in SessionOptions, remediate \in BOOLEAN :
    LET run == CommandOf(o, 1, remediate, NoFailure)
        s == run.before
    IN run.ret = 0 =>
         /\ s.result_source # 0 => s.says[s.result_source] = IF remediate THEN 2 ELSE 1
         /\ s.result_sources # 0 => s.says[s.result_sources] = 1
ASSUME RemediationReportsItself ==
  \A o \in SessionOptions :
    LET run == Lib!app_xccdf_remediate(SessionOf(o), NoFailure)
    IN run.ret = 0 => \A p \in {run.s.result_source, run.s.result_sources} \ {0} : run.s.says[p] = 2

-----------------------------------------------------------------------------
(* A program may call the library otherwise.                               *)

Operations == {"load", "load_xccdf", "load_oval", "evaluate", "remediate", "export", "contains"}
Performed(s, op) ==
  CASE op = "load" -> Lib!xccdf_session_load(s, {})
    [] op = "load_xccdf" -> Lib!xccdf_session_load_xccdf(s, {})
    [] op = "load_oval" -> Lib!xccdf_session_load_oval(s, {})
    [] op = "evaluate" -> Lib!xccdf_session_evaluate(s, {})
    [] op = "remediate" -> Lib!xccdf_session_remediate(s, {})
    [] op = "export" -> Lib!Then(Lib!xccdf_session_export_oval(s, {}),
                                 LAMBDA t : Lib!xccdf_session_export_xccdf(t, {}))
    [] op = "contains" -> [ret |-> 0, s |-> Lib!xccdf_session_contains_fail_result(s)]
SessionPrograms == {<<"load", "evaluate">> \o p : p \in [1 .. 3 -> Operations]}
AfterProgram(program) ==
  FoldLeft(LAMBDA call, op : Lib!Then(call, LAMBDA s : Performed(s, op)),
           [ret |-> 0, s |-> SessionOf([sds |-> FALSE, tailoring |-> "none", custom |-> FALSE, cpe |-> FALSE,
                                      full |-> FALSE, oval_results |-> TRUE, arf |-> FALSE, xccdf |-> TRUE])],
           program).s

\* The place of the last such call before the k-th, or 0.
LastBefore(program, k, ops) ==
  LET places == {i \in 1 .. k - 1 : program[i] \in ops}
  IN IF places = {} THEN 0 ELSE CHOOSE i \in places : \A j \in places : j <= i
LoadsModel == {"load", "load_xccdf"}
\* OVAL is loaded once after each document, and results are looked at only
\* until the next document is loaded.
KeepsOrder(program) ==
  \A k \in DOMAIN program :
    /\ program[k] = "load_oval" =>
         LastBefore(program, k, {"load", "load_oval", "remediate"}) < LastBefore(program, k, {"load_xccdf"})
    /\ program[k] \in {"remediate", "export", "contains"} =>
         LastBefore(program, k, LoadsModel) < LastBefore(program, k, {"evaluate"})
ASSUME OrderedCallsAreSafe ==
  \A program \in SessionPrograms : KeepsOrder(program) => AfterProgram(program).bad = {}

\* Agents that were freed stay registered, a result that was freed is read
\* (xccdf_session.c:718, 428), and a second evaluation is never exported
\* (964).
ASSUME CallsOutOfOrder ==
  /\ AfterProgram(<<"load", "evaluate", "load_oval", "evaluate">>).bad = {"used after free"}
  /\ AfterProgram(<<"load", "evaluate", "load", "contains">>).bad = {"used after free"}
  /\ LET once == AfterProgram(<<"load", "evaluate", "export">>)
         again == AfterProgram(<<"load", "evaluate", "export", "evaluate", "export">>)
     IN again.result # once.result /\ again.result_source = once.result_source


-----------------------------------------------------------------------------
(* Documents that are written and read again.                              *)

LOCAL NULL == "NULL"

\* Six digits of a number, a bound no longer than fourteen characters.
Digits(v) == IF v = "0.1234567" THEN "0.123457" ELSE v
Fourteen(v) == IF v = "99999999.000000" THEN "99999999.00000" ELSE Digits(v)
WordsOf(v) == IF v = "a b" THEN <<"a", "b">> ELSE IF v = " " THEN <<>> ELSE <<v>>
InFull(a) == IF a = "::1" THEN "0:0:0:0:0:0:0:1" ELSE a

D == INSTANCE XccdfDom WITH Decimal <- Digits, Bound <- Fourteen, Words <- WordsOf,
                            oscap_expand_ipv6 <- InFull

\* The names under which a document is not what it was.
Changed(docs, Again(_)) == {k \in DOMAIN docs : Again(docs[k]) # docs[k]}

AText(text, override) == [text |-> text, override |-> override]
Identified(el) == [D!xccdf_item_new(el) EXCEPT !.id = "i"]

-----------------------------------------------------------------------------
(* Rules.  A document says of a rule whether it is selected.                *)

ARule == [D!xccdf_rule_new(Identified("Rule")) EXCEPT !.defined = {"selected"}]
RuleAgain(x) == D!xccdf_rule_parse(D!xccdf_rule_to_dom(x))
AFixText(f) == [ARule EXCEPT !.fixtexts = <<f>>]
FixText == [reboot |-> FALSE, complexity |-> "low", disruption |-> NULL, strategy |-> 0,
            fixref |-> NULL, text |-> AText("do", NULL)]
SomeFix(strategy) == [reboot |-> TRUE, complexity |-> NULL, disruption |-> "high", strategy |-> strategy,
                      id |-> "f", system |-> "sh", platform |-> "p", content |-> "run"]
ACheck == [id |-> NULL, system |-> "oval", selector |-> NULL, oper |-> NULL, multi |-> NULL,
          negate |-> NULL, children |-> <<>>, imports |-> <<>>, exports |-> <<>>,
          content_refs |-> <<[name |-> NULL, href |-> "file"]>>, content |-> NULL]
Complex == [ACheck EXCEPT !.system = NULL, !.oper = "OR", !.content_refs = <<>>,
                         !.children = <<ACheck, [ACheck EXCEPT !.negate = "true"]>>]

RuleDocs ==
  [plain |-> ARule,
   unselected |-> [ARule EXCEPT !.flags = {}],
   hidden |-> [ARule EXCEPT !.flags = @ \cup {"hidden"}, !.defined = @ \cup {"hidden"}],
   shown |-> [ARule EXCEPT !.defined = @ \cup {"hidden"}],
   multiple |-> [ARule EXCEPT !.flags = @ \cup {"multiple"}, !.defined = @ \cup {"multiple"}],
   single |-> [ARule EXCEPT !.defined = @ \cup {"multiple"}],
   resolved |-> [ARule EXCEPT !.flags = @ \cup {"resolved"}, !.defined = @ \cup {"resolved"}],
   extends |-> [ARule EXCEPT !.extends = "j", !.cluster_id = "c", !.role = "full", !.severity = "low",
                             !.defined = @ \cup {"role", "severity"}],
   weight |-> [ARule EXCEPT !.weight = "2.0", !.defined = @ \cup {"weight"}],
   digits |-> [ARule EXCEPT !.weight = "0.1234567", !.defined = @ \cup {"weight"}],
   status |-> [ARule EXCEPT !.statuses = <<[status |-> "draft", date |-> "today"],
                                           [status |-> "accepted", date |-> NULL]>>],
   version |-> [ARule EXCEPT !.version = [text |-> "1", update |-> "u", time |-> "t"]],
   undated |-> [ARule EXCEPT !.version = [text |-> NULL, update |-> "u", time |-> "t"]],
   texts |-> [ARule EXCEPT !.title = <<AText("a", NULL), AText("b", "true")>>,
                           !.question = <<AText("c", "false")>>, !.rationale = <<AText("d", NULL)>>],
   warning |-> [ARule EXCEPT !.warnings = <<[category |-> NULL, text |-> AText("w", NULL)]>>],
   category |-> [ARule EXCEPT !.warnings = <<[category |-> "audit", text |-> AText("w", NULL)]>>],
   overriding |-> [ARule EXCEPT !.warnings = <<[category |-> "audit", text |-> AText("w", "true")]>>],
   platforms |-> [ARule EXCEPT !.platforms = <<"p", "q">>, !.references = <<"r">>, !.metadata = <<"m">>],
   requires |-> [ARule EXCEPT !.requires = <<<<"a">>, <<"b">>>>, !.conflicts = <<"c">>],
   either |-> [ARule EXCEPT !.requires = <<<<"a", "b">>>>],
   ident |-> [ARule EXCEPT !.idents = <<[system |-> "s", id |-> "CCE"]>>],
   unnamed |-> [ARule EXCEPT !.idents = <<[system |-> "s", id |-> ""]>>],
   note |-> [ARule EXCEPT !.profile_notes = <<[reftag |-> "t", text |-> AText("n", NULL)]>>],
   fixtext |-> AFixText(FixText),
   fixref |-> AFixText([FixText EXCEPT !.fixref = "f"]),
   strategy |-> AFixText([FixText EXCEPT !.strategy = 1]),
   fix |-> [ARule EXCEPT !.fixes = <<SomeFix(0), SomeFix(1), SomeFix(8)>>],
   check |-> [ARule EXCEPT !.checks = <<[ACheck EXCEPT !.content = "c", !.multi = "false",
                                                      !.imports = <<[name |-> "i", xpath |-> NULL,
                                                                     content |-> "c"]>>,
                                                      !.exports = <<[name |-> "e", value |-> "v"]>>]>>],
   imported |-> [ARule EXCEPT !.checks = <<[ACheck EXCEPT !.imports = <<[name |-> "i", xpath |-> NULL,
                                                                        content |-> NULL]>>]>>],
   complex |-> [ARule EXCEPT !.checks = <<[Complex EXCEPT !.children = Append(@, Complex)]>>],
   metric |-> [ARule EXCEPT !.impact_metric = "AV:N"]]

\* Of a rule all is kept but for a flag that is false, a seventh digit of the
\* weight, an alternative that is required, the strategy of a
\* text about a fix (item.c:568), what overrides a text that has another
\* attribute, too (text.c:110), and what stands for nothing.
ASSUME RulesAreKept ==
  Changed(RuleDocs, RuleAgain) =
    {"single", "resolved", "digits", "undated", "category", "either", "unnamed", "fixref", "strategy",
     "imported", "metric"}

\* What was lost is lost at once, but for the strategy, which is another one
\* each time.
ASSUME LostAtOnce ==
  /\ Changed([k \in DOMAIN RuleDocs |-> RuleAgain(RuleDocs[k])], RuleAgain) = {"strategy"}
  /\ \A s \in 1 .. 8 : RuleAgain(AFixText([FixText EXCEPT !.strategy = s])).fixtexts[1].strategy = (s + 1) % 9

\* One of several rules that was required is all of them afterwards
\* (rule.c:104, 977).
Satisfied(x, selected) == \A i \in DOMAIN x.requires : \E id \in Range(x.requires[i]) : id \in selected
ASSUME RequiresMore ==
  \A groups \in SeqOf({<<"a">>, <<"b">>, <<"a", "b">>}, 2), selected \in SUBSET {"a", "b"} :
    LET x == [ARule EXCEPT !.requires = groups]
    IN /\ Satisfied(RuleAgain(x), selected) => Satisfied(x, selected)
       /\ Satisfied(RuleAgain(x), selected) <=> UNION {Range(g) : g \in Range(groups)} \subseteq selected

-----------------------------------------------------------------------------
(* Values, for all instances with two selectors and two things given.       *)

ValueAgain(x) == D!xccdf_value_parse(D!xccdf_value_to_dom(x))
AnInstance(selector, given) ==
  [D!Instance(selector) EXCEPT !.given = given,
                               !.value = IF "value" \in given THEN "v" ELSE NULL,
                               !.defval = IF "defval" \in given THEN "d" ELSE NULL]
AValue(type, instances) ==
  [D!xccdf_value_new(Identified("Value")) EXCEPT !.type = type, !.instances = instances]
Given == SUBSET {"value", "defval"}
Instances ==
  UNION {[DOMAIN order -> Given] \X {order} : order \in {<<"">>, <<"a">>, <<"", "a">>, <<"a", "">>, <<"a", "b">>}}
InstancesOf(pair) == [i \in DOMAIN pair[2] |-> AnInstance(pair[2][i], pair[1][i])]

\* Under its selector every instance is found again that gives something.
\* The one without a selector is, too; where there is none another one may
\* stand for it, as values come before defaults (value.c:245, 354).
ASSUME InstancesAreFound ==
  \A pair \in Instances, selector \in {"", "a", "b"} :
    LET x == AValue("number", InstancesOf(pair))
        Of(y) == D!xccdf_value_get_instance_by_selector(y, selector)
        i == SelectInSeq(pair[2], LAMBDA s : s = selector)
    IN i # 0 /\ pair[1][i] # {} => Of(ValueAgain(x)) = Of(x)
ASSUME AnotherStandsForNone ==
  LET x == AValue("string", <<AnInstance("a", {"defval"}), AnInstance("b", {"value"})>>)
      Default(y) == D!xccdf_value_get_instance_by_selector(y, "").selector
  IN Default(x) = "a" /\ Default(ValueAgain(x)) = "b"

ANumber(lower) == [AnInstance("", {"value"}) EXCEPT !.lower_bound = lower]
Choice(choices, must) == [AnInstance("s", {"value"}) EXCEPT !.choices = choices, !.must_match = must]
ValueDocs ==
  [number |-> AValue("number", <<ANumber("1.000000")>>),
   long |-> AValue("number", <<ANumber("99999999.000000")>>),
   string |-> AValue("string", <<[ANumber(NULL) EXCEPT !.match = "m"]>>),
   bounded |-> AValue("string", <<ANumber("1.000000")>>),
   matched |-> AValue("boolean", <<[ANumber(NULL) EXCEPT !.match = "m"]>>),
   must |-> AValue("string", <<Choice(<<"a", "b">>, "true")>>),
   may |-> AValue("string", <<Choice(<<"a", "b">>, "false")>>),
   undecided |-> AValue("string", <<Choice(<<"a", "b">>, NULL)>>),
   empty |-> AValue("string", <<Choice(<<"a", "">>, "true")>>),
   nothing |-> AValue("string", <<AnInstance("s", {})>>),
   extends |-> [AValue("string", <<>>) EXCEPT !.extends = "j", !.oper = "equals", !.sources = <<"s">>],
   unselected |-> [AValue("string", <<>>) EXCEPT !.flags = {}]]

\* A bound is cut to fourteen characters, one that the type does not have is
\* left out, and a list of choices that did not say decides (value.c:226,
\* 229, 236).
ASSUME ValuesAreKept ==
  Changed(ValueDocs, ValueAgain) =
    {"long", "bounded", "matched", "undecided", "empty", "nothing", "unselected"}

-----------------------------------------------------------------------------
(* Profiles, for all lists of three selections.                             *)

ProfileAgain(x) == D!xccdf_profile_parse(D!xccdf_profile_to_dom(x))
AProfile == D!xccdf_profile_new(Identified("Profile"))
Select(item, selected) == [item |-> item, selected |-> selected, remarks |-> <<>>]
Selects == SeqOf({Select(item, b) : item \in {NULL, "a", "b"}, b \in BOOLEAN}, 3)
SetValue(item, value) == [item |-> item, value |-> value]

\* The last of those for an item counts.
LastFor(s, item) == LET i == SelectLastInSeq(s, LAMBDA v : v.item = item) IN IF i = 0 THEN <<>> ELSE <<s[i]>>

\* Every item is selected as it was, and only once (profile.c:340).
ASSUME SelectsAreKept ==
  \A s \in Selects :
    LET again == ProfileAgain([AProfile EXCEPT !.selects = s]).selects
    IN \A item \in {"a", "b"} :
         SelectSeq(again, LAMBDA v : v.item = item) = LastFor(s, item)
ASSUME SetValuesAreKept ==
  \A s \in SeqOf({SetValue(item, v) : item \in {"a", "b"}, v \in {"1", "2"}}, 3) :
    LET again == ProfileAgain([AProfile EXCEPT !.setvalues = s]).setvalues
    IN \A item \in {"a", "b"} :
         SelectSeq(again, LAMBDA v : v.item = item) = LastFor(s, item)

ProfileDocs ==
  [plain |-> AProfile,
   extends |-> [AProfile EXCEPT !.extends = "j", !.title = <<AText("t", "true")>>],
   note |-> [AProfile EXCEPT !.note_tag = "n"],
   platform |-> [AProfile EXCEPT !.platforms = <<"p">>],
   unset |-> [AProfile EXCEPT !.setvalues = <<SetValue("a", NULL)>>],
   remark |-> [AProfile EXCEPT !.selects = <<[Select("a", TRUE) EXCEPT !.remarks = <<AText("r", NULL)>>]>>],
   refines |-> [AProfile EXCEPT
     !.refine_values = <<[item |-> "a", selector |-> "s", oper |-> "equals", remarks |-> <<>>],
                         [item |-> "a", selector |-> NULL, oper |-> NULL, remarks |-> <<AText("r", "true")>>]>>,
     !.refine_rules = <<[item |-> "b", selector |-> NULL, weight |-> "1.0", role |-> "full",
                         severity |-> NULL, remarks |-> <<>>],
                        [item |-> "b", selector |-> "s", weight |-> NULL, role |-> NULL,
                         severity |-> "high", remarks |-> <<>>]>>],
   tailored |-> [AProfile EXCEPT !.tailoring = TRUE]]

\* The tag of the notes and the platforms, written as the text of an element
\* whose attribute is read, are lost (profile.c:313, 321).
ASSUME ProfilesAreKept == Changed(ProfileDocs, ProfileAgain) = {"note", "platform", "unset", "tailored"}

\* An abstract profile has the attribute twice and is no document at all
\* (item.c:387, profile.c:307).
ASSUME AbstractTwice ==
  \A abstract \in BOOLEAN :
    LET x == [AProfile EXCEPT !.flags = IF abstract THEN {"abstract"} ELSE {}]
    IN D!WellFormed(D!xccdf_profile_to_dom(x)) <=> ~abstract

-----------------------------------------------------------------------------
(* ResultDocs.  Every result ends at some time.                                *)

ResultAgain(x) == D!xccdf_result_new_parse(D!xccdf_result_to_dom(x))
AResult == [D!xccdf_result_new(Identified("TestResult")) EXCEPT !.end_time = "now"]
RuleResult == [idref |-> "r", role |-> NULL, time |-> "now", version |-> NULL, weight |-> "1.0",
               severity |-> NULL, result |-> "pass", overrides |-> <<>>, idents |-> <<>>,
               messages |-> <<>>, instances |-> <<>>, fixes |-> <<>>, checks |-> <<>>]
WithRule(r) == [AResult EXCEPT !.rule_results = <<r>>]
Override == [time |-> NULL, authority |-> "me", old_result |-> "fail", new_result |-> "pass",
             remark |-> <<AText("r", NULL)>>]
TestInstance(context, parent) == [context |-> context, parent_context |-> parent, content |-> "c"]
Fact(type) == [name |-> "n", type |-> type, value |-> "v"]
Identifier == [system |-> "s", href |-> "h", name |-> NULL, foreign |-> NULL]
Identity == [authenticated |-> TRUE, privileged |-> FALSE, name |-> "root"]

ResultDocs ==
  [plain |-> AResult,
   endless |-> [AResult EXCEPT !.end_time = NULL],
   times |-> [AResult EXCEPT !.start_time = "then", !.profile = "p", !.targets = <<"t">>,
                             !.version = [text |-> "1", update |-> NULL, time |-> NULL]],
   updated |-> [AResult EXCEPT !.version = [text |-> "1", update |-> "u", time |-> NULL]],
   untitled |-> [AResult EXCEPT !.benchmark_uri = "b"],
   titled |-> [AResult EXCEPT !.benchmark_uri = "b", !.title = <<AText("t", NULL)>>],
   system |-> [AResult EXCEPT !.test_system = "s"],
   remark |-> [AResult EXCEPT !.remarks = <<AText("r", NULL)>>],
   identity |-> [AResult EXCEPT !.identities = <<Identity>>],
   privileged |-> [AResult EXCEPT !.identities = <<[Identity EXCEPT !.privileged = TRUE]>>],
   address |-> [AResult EXCEPT !.target_addresses = <<"127.0.0.1">>],
   address6 |-> [AResult EXCEPT !.target_addresses = <<"::1">>],
   strings |-> [AResult EXCEPT !.target_facts = <<Fact(2), Fact(2)>>],
   facts |-> [AResult EXCEPT !.target_facts = <<Fact(1), Fact(3)>>],
   identifier |-> [AResult EXCEPT !.target_id_refs = <<Identifier>>],
   foreign |-> [AResult EXCEPT !.target_id_refs = <<[Identifier EXCEPT !.foreign = "x"]>>],
   applicable |-> [AResult EXCEPT !.applicable_platforms = <<"p">>],
   platform |-> [AResult EXCEPT !.platforms = <<"p">>],
   setvalue |-> [AResult EXCEPT !.setvalues = <<SetValue("a", "1"), SetValue("a", "2")>>],
   score |-> [AResult EXCEPT !.scores = <<[system |-> "s", score |-> "50.0", maximum |-> "100.0"]>>],
   rule |-> WithRule([RuleResult EXCEPT !.role = "full", !.severity = "low", !.version = "1"]),
   message |-> WithRule([RuleResult EXCEPT !.messages = <<[severity |-> "info", content |-> "m"],
                                                         [severity |-> NULL, content |-> "m"]>>]),
   instance |-> WithRule([RuleResult EXCEPT !.instances = <<TestInstance("a", "a")>>]),
   parent |-> WithRule([RuleResult EXCEPT !.instances = <<TestInstance("a", "b")>>]),
   parentless |-> WithRule([RuleResult EXCEPT !.instances = <<TestInstance("a", NULL)>>]),
   fix |-> WithRule([RuleResult EXCEPT !.fixes = <<SomeFix(8)>>, !.checks = <<ACheck>>,
                                       !.idents = <<[system |-> "s", id |-> "CCE"]>>]),
   complex |-> WithRule([RuleResult EXCEPT !.checks = <<ACheck, Complex>>]),
   override |-> WithRule([RuleResult EXCEPT !.overrides = <<Override>>]),
   dated |-> WithRule([RuleResult EXCEPT !.overrides = <<[Override EXCEPT !.time = "now"]>>]),
   anonymous |-> WithRule([RuleResult EXCEPT !.overrides = <<[Override EXCEPT !.authority = NULL]>>])]

\* A result does not keep its remarks, the foreign names of its target, who
\* was privileged (elements.c:326), when something was overridden
\* (result.c:1178, 1212), complex checks, contexts of a parent (1134), and
\* without a title not even the benchmark it belongs to (772).
ASSUME ResultsAreKept ==
  Changed(ResultDocs, ResultAgain) =
    {"endless", "updated", "untitled", "system", "remark", "privileged", "address6", "facts", "foreign",
     "applicable", "platform", "parent", "parentless", "complex", "dated", "anonymous"}

\* What a rule gave is what it gave.
ASSUME VerdictsAreKept ==
  \A k \in DOMAIN ResultDocs :
    LET Verdicts(x) == [i \in DOMAIN x.rule_results |-> <<x.rule_results[i].idref, x.rule_results[i].result>>]
    IN Verdicts(ResultAgain(ResultDocs[k])) = Verdicts(ResultDocs[k])

\* Numbers and truth values change places each time they are written (result.c:876,
\* 570), an override without an authority loses what it did (1181), and
\* platforms become other ones before they are lost (891, item.c:792).
ASSUME AgainAndAgain ==
  LET facts == ResultAgain(ResultDocs.facts)
      rule == ResultAgain(ResultDocs.anonymous).rule_results[1]
      applicable == ResultAgain(ResultDocs.applicable)
  IN /\ facts.target_facts = <<Fact(3), Fact(1)>> /\ ResultAgain(facts) = ResultDocs.facts
     /\ rule.overrides[1].old_result = NULL /\ rule.overrides[1].new_result = NULL
     /\ applicable.platforms = <<"p">> /\ ResultAgain(applicable) = AResult

\* A result that did not end ends at no time, and is read for all that.
ASSUME EndsSomeTime ==
  LET dom == D!xccdf_result_to_dom(AResult)
  IN /\ ResultAgain(ResultDocs.endless).end_time = ""
     /\ D!xccdf_result_new_parse([dom EXCEPT !.at = D!Given(@ @@ [end_time |-> ""])]) = AResult
     /\ D!xccdf_result_new_parse([dom EXCEPT !.at = [id |-> "i"]]) = D!Failed

-----------------------------------------------------------------------------
(* Benchmarks and tailoring.                                                *)

BenchmarkAgain(x) == D!xccdf_benchmark_parse(D!xccdf_benchmark_to_dom(x))
ABenchmark ==
  [D!xccdf_benchmark_new(Identified("Benchmark")) EXCEPT !.defined = {"resolved"}]
AGroup == [D!xccdf_group_new(Identified("Group")) EXCEPT !.content = <<ARule>>,
                                                         !.values = <<AValue("string", <<>>)>>]
BenchmarkDocs ==
  [plain |-> ABenchmark,
   resolved |-> [ABenchmark EXCEPT !.flags = @ \cup {"resolved"}, !.lang = "en", !.style = "s"],
   undecided |-> [ABenchmark EXCEPT !.defined = {}],
   unselected |-> [ABenchmark EXCEPT !.flags = {}],
   notices |-> [ABenchmark EXCEPT !.notices = <<[id |-> "n", text |-> AText("n", NULL)]>>,
                                  !.front_matter = <<AText("f", NULL)>>, !.rear_matter = <<AText("r", NULL)>>],
   plain_text |-> [ABenchmark EXCEPT !.plain_texts = <<[id |-> "p", text |-> ""], [id |-> "q", text |-> "t"]>>],
   nameless |-> [ABenchmark EXCEPT !.plain_texts = <<[id |-> NULL, text |-> "t"]>>],
   cpe |-> [ABenchmark EXCEPT !.cpe_list = "l", !.cpe_lang_model = "m", !.platforms = <<"p">>],
   version |-> [ABenchmark EXCEPT !.version = [text |-> "1", update |-> NULL, time |-> NULL]],
   updated |-> [ABenchmark EXCEPT !.version = [text |-> "1", update |-> "u", time |-> NULL]],
   rationale |-> [ABenchmark EXCEPT !.rationale = <<AText("r", NULL)>>],
   models |-> [ABenchmark EXCEPT !.models = @ \o <<"flat">>],
   flat |-> [ABenchmark EXCEPT !.models = <<"flat">>],
   parts |-> [ABenchmark EXCEPT !.profiles = <<AProfile>>, !.values = <<AValue("string", <<>>)>>,
                                !.content = <<AGroup, ARule>>, !.results = <<ResultDocs.titled>>],
   group |-> [ABenchmark EXCEPT !.content = <<[AGroup EXCEPT !.content = <<AGroup>>,
                                                             !.requires = <<<<"a">>>>]>>]]

\* What a benchmark keeps.  The default model comes back (benchmark.c:120,
\* 179).
ASSUME BenchmarksAreKept ==
  /\ Changed(BenchmarkDocs, BenchmarkAgain) =
       {"undecided", "unselected", "nameless", "updated", "rationale", "flat"}
  /\ BenchmarkAgain(BenchmarkDocs.flat).models = <<D!DefaultModel, "flat">>
  /\ Changed([k \in DOMAIN BenchmarkDocs |-> BenchmarkAgain(BenchmarkDocs[k])], BenchmarkAgain) = {}

ATailoring ==
  D!xccdf_tailoring_add_profile(
    [D!Tailoring EXCEPT !.id = "t", !.benchmark_ref = "b", !.benchmark_ref_version = "1",
                        !.statuses = <<[status |-> "draft", date |-> NULL]>>, !.metadata = <<"m">>,
                        !.version = [text |-> "1", update |-> "u", time |-> "t"]],
    AProfile)
TailoringAgain(version, own, benchmark) ==
  LET dom == D!xccdf_tailoring_to_dom(ATailoring, version, own)
  IN IF dom = D!Failed THEN D!Failed ELSE D!xccdf_tailoring_parse(dom, benchmark)

\* Tailoring of a 1.1 document is a file of its own that does not say which
\* benchmark it is for, as that element is not known in the extension
\* (tailoring.c:301, elements.c:177).
ASSUME TailoringIsKept ==
  /\ \A own \in BOOLEAN : TailoringAgain("1.2", own, "b") = ATailoring
  /\ TailoringAgain("1.1", TRUE, "b") =
       [ATailoring EXCEPT !.benchmark_ref = NULL, !.benchmark_ref_version = NULL]
  /\ \A v \in {"1.0", "1.1"} : TailoringAgain(v, v = "1.0", "b") = D!Failed
  /\ TailoringAgain("1.2", TRUE, NULL).profiles = <<>>

\* Profiles are added and removed, and none is left that extends one that was
\* removed: a set of profiles that is closed stays so (tailoring.c:111).
Chain == {[AProfile EXCEPT !.id = id, !.extends = e] : id \in {"i", "j"}, e \in {NULL, "i", "j"}}
Closed(t) == \A p \in Range(t.profiles) : p.extends = NULL \/ \E q \in Range(t.profiles) : q.id = p.extends
ASSUME NobodyIsDisinherited ==
  \A ps \in SeqOf(Chain, 3) :
    LET t == FoldLeft(D!xccdf_tailoring_add_profile, D!Tailoring, ps)
    IN Closed(t) => \A p \in Range(t.profiles) : Closed(D!xccdf_tailoring_remove_profile(t, p))
=============================================================================
