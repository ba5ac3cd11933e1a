---------------------------- MODULE XccdfSession ----------------------------
(***************************************************************************)
(* The session of an XCCDF evaluation (XCCDF/xccdf_session.c): what it     *)
(* holds in memory, which of it is shared with the policy model, and the   *)
(* calls of the oscap command on it (utils/oscap-xccdf.c).                 *)
(*                                                                         *)
(* A pointer is a number, 0 is NULL.  freed holds what was freed, bad says *)
(* what went wrong with it.  engines are the agents the policy model asks, *)
(* results the rule results it owns.  says gives each result and each      *)
(* document made of one the times its system was looked at.  Every call    *)
(* takes what fails or is special in it, a set of words, and returns       *)
(* [ret, s].                                                               *)
(***************************************************************************)
EXTENDS Integers, Sequences, SequencesExt, FiniteSets

CONSTANTS Files  \* how many OVAL files the content refers to

NULL == 0
Call(ret, s) == [ret |-> ret, s |-> s]
Then(call, Op(_)) == IF call.ret = 0 THEN Op(call.s) ELSE call

calloc == [freed |-> {}, bad |-> {}, next |-> 1, says |-> <<>>,
           model |-> NULL, engines |-> <<>>, results |-> {},
           source |-> NULL, tailoring |-> NULL, component |-> NULL, cpe |-> FALSE, result |-> NULL,
           resources |-> NULL, custom |-> NULL, agents |-> <<>>,
           result_source |-> NULL, result_sources |-> NULL, temp_dir |-> FALSE,
           sds |-> FALSE, validate |-> TRUE, full |-> FALSE, oval_results |-> FALSE,
           arf |-> FALSE, xccdf |-> FALSE, profile |-> FALSE]

Bad(s, what) == [s EXCEPT !.bad = @ \cup {what}]
Free(s, p) ==
  IF p = NULL THEN s
  ELSE IF p \in s.freed THEN Bad(s, "freed twice") ELSE [s EXCEPT !.freed = @ \cup {p}]
FreeAll(s, ps) == FoldLeft(Free, s, ps)
Use(s, ps) == IF Range(ps) \cap s.freed # {} THEN Bad(s, "used after free") ELSE s
\* The new pointer is the old s.next.
New(s) == [s EXCEPT !.next = @ + 1]

\* A tailoring file names the document it is for.  component is a document
\* the data stream keeps, as the tailoring of the user's choice.
xccdf_session_new(sds, tailoring) ==
  LET s == [New(calloc) EXCEPT !.source = 1, !.sds = sds]
  IN IF tailoring THEN [New(s) EXCEPT !.tailoring = s.source, !.source = s.next] ELSE s

-----------------------------------------------------------------------------
(* Loading.                                                                *)

\* xccdf_policy_model_free: with its policies and their results.
FreeModel(s) ==
  [FreeAll(s, <<s.model>> \o SetToSeq(s.results)) EXCEPT
     !.model = NULL, !.engines = <<>>, !.results = {}]

xccdf_session_load_xccdf(s, fails) ==
  LET t == FreeModel(s)
      invalid == s.validate /\ "invalid" \in fails
  IN IF invalid \/ (s.sds /\ "checklist" \in fails) \/ "import" \in fails THEN Call(1, t)
     ELSE Call(0, [New(t) EXCEPT !.model = t.next])

\* The source of the user's dictionary is local; it is freed when it has been
\* validated, and freed again when nothing can be made of it.
xccdf_session_load_cpe(s, fails) ==
  LET t == New(s)
      once == Free(t, s.next)
      own == IF ~s.cpe THEN Call(0, s)
             ELSE IF "cpe invalid" \in fails THEN Call(1, once)
             ELSE IF "cpe unknown" \in fails THEN Call(1, Free(once, s.next))
             ELSE Call(0, once)
  IN IF s.model = NULL THEN Call(1, s)
     ELSE Then(own, LAMBDA u :
            Call(IF u.sds /\ fails \cap {"no index", "dictionaries"} # {} THEN 1 ELSE 0, u))

_xccdf_session_get_oval_from_model(s, fails) ==
  LET t == Free(s, s.resources)
      remote == "remote" \in fails
  IN IF remote /\ ~s.temp_dir /\ "temp dir" \in fails THEN Call(1, t)
     ELSE Call(0, [New(t) EXCEPT !.resources = t.next, !.temp_dir = @ \/ remote])

_xccdf_session_free_oval_agents(s) == [FreeAll(s, s.agents) EXCEPT !.agents = <<>>]

NewAgent(s) ==
  [New(s) EXCEPT !.agents = Append(@, s.next), !.engines = Append(@, s.next)]

\* The last of the files is the one that may fail.
xccdf_session_load_oval(s, fails) ==
  LET t == _xccdf_session_free_oval_agents(s)
      located == IF s.custom # NULL THEN Call(0, t) ELSE _xccdf_session_get_oval_from_model(t, fails)
      some(u, n) == FoldLeft(LAMBDA v, i : NewAgent(v), u, [i \in 1 .. n |-> i])
      last == CASE "import oval" \in fails -> 1 [] "agent" \in fails -> 2 [] OTHER -> 0
  IN Then(located, LAMBDA u :
       LET contents == Use(u, <<IF u.custom # NULL THEN u.custom ELSE u.resources>>)
       IN IF Files > 0 /\ u.validate /\ (~u.sds \/ u.full) /\ "invalid oval" \in fails
          THEN Call(1, contents)
          ELSE IF Files > 0 /\ last # 0 THEN Call(last, some(contents, Files - 1))
          ELSE Call(0, some(contents, Files)))

xccdf_session_set_user_tailoring_file(s) ==
  LET t == Free(s, s.tailoring) IN [New(t) EXCEPT !.tailoring = t.next]

\* A tailoring that is not valid is freed, and stays where it was.
xccdf_session_load_tailoring(s, fails) ==
  LET from_sds == s.tailoring = NULL
      tailoring == IF from_sds THEN s.component ELSE s.tailoring
      used == Use(s, <<tailoring>>)
  IN IF tailoring = NULL THEN Call(0, s)
     ELSE IF from_sds /\ (~s.sds \/ "select" \in fails) THEN Call(1, s)
     ELSE IF s.validate /\ (~from_sds \/ s.full) /\ "invalid tailoring" \in fails
          THEN Call(1, Free(used, tailoring))
     ELSE Call(IF "tailoring" \in fails THEN 1 ELSE 0, used)

xccdf_session_load(s, fails) ==
  Then(Then(Then(xccdf_session_load_xccdf(s, fails),
                 LAMBDA t : xccdf_session_load_cpe(t, fails)),
            LAMBDA t : xccdf_session_load_oval(t, fails)),
       LAMBDA t : xccdf_session_load_tailoring(t, fails))

-----------------------------------------------------------------------------
(* Evaluation and remediation.                                             *)

Says(s, p, times) == [s EXCEPT !.says = [q \in DOMAIN @ \cup {p} |-> IF q = p THEN times ELSE @[q]]]

xccdf_session_evaluate(s, fails) ==
  IF s.model = NULL THEN Call(1, s)
  ELSE IF "evaluation" \in fails THEN Call(1, [Use(s, s.engines) EXCEPT !.result = NULL])
  ELSE Call(0, Says([New(Use(s, s.engines)) EXCEPT !.result = s.next, !.results = @ \cup {s.next}],
                    s.next, 1))

xccdf_session_remediate(s, fails) ==
  IF s.model = NULL \/ s.result = NULL \/ "offline" \in fails THEN Call(1, s)
  ELSE Then(xccdf_session_load_oval([s EXCEPT !.engines = <<>>], fails), LAMBDA t :
         LET used == Use(t, <<t.result>> \o t.engines)
         IN Call(0, Says(used, t.result, t.says[t.result] + 1)))

xccdf_session_build_policy_from_testresult(s, fails) ==
  LET t == [s EXCEPT !.result = NULL]
  IN IF fails \cap {"no result", "no profile"} # {} THEN Call(1, t)
     ELSE Call(0, Says([New(t) EXCEPT !.result = t.next, !.results = @ \cup {t.next}, !.profile = TRUE],
                       t.next, 1))

xccdf_session_contains_fail_result(s) == Use(s, <<s.result>>)

-----------------------------------------------------------------------------
(* Export.                                                                 *)

\* A document that was built once is used from then on.
_build_xccdf_result_source(s, fails) ==
  LET of == Use(s, <<s.result>>)
      built == Says([New(of) EXCEPT !.result_source = s.next], s.next, of.says[s.result])
  IN IF s.result_source # NULL \/ ~(s.xccdf \/ s.arf) THEN Call(0, s)
     ELSE IF s.result = NULL THEN Call(1, s)
     ELSE IF s.xccdf /\ "save" \in fails THEN Call(-1, built)
     ELSE Call(IF s.validate /\ s.full /\ "invalid result" \in fails THEN 1 ELSE 0, built)

xccdf_session_export_xccdf(s, fails) ==
  LET built == _build_xccdf_result_source(s, fails)
  IN IF built.ret # 0 THEN Call(1, built.s)
     ELSE Call(0, Use(built.s, <<built.s.result_source, built.s.result>>))

\* The table is freed when a document in it cannot be made, and its pointer
\* stays.
_build_oval_result_sources(s, fails) ==
  LET t == Use([New(s) EXCEPT !.result_sources = s.next], s.agents)
      in == [t EXCEPT !.temp_dir = @ \/ ~s.oval_results]
      time == IF s.result \in DOMAIN s.says THEN s.says[s.result] ELSE 0
  IN IF s.result_sources # NULL THEN Call(0, s)
     ELSE IF ~s.oval_results /\ ~s.temp_dir /\ "temp dir" \in fails THEN Call(1, Free(t, s.next))
     ELSE IF "oval name" \in fails \/ (s.validate /\ s.full /\ "invalid oval results" \in fails)
          THEN Call(1, Free(in, s.next))
     ELSE Call(0, Says(in, s.next, time))

xccdf_session_export_oval(s, fails) ==
  IF ~(s.oval_results \/ s.arf) \/ s.agents = <<>> THEN Call(0, s)
  ELSE Then(_build_oval_result_sources(s, fails), LAMBDA t :
         Call(IF "save oval" \in fails THEN 1 ELSE 0, Use(t, <<t.result_sources>>)))

\* ds_rds_create_source walks through the table of OVAL results, whether or
\* not there is one.
xccdf_session_export_arf(s, fails) ==
  LET t == [s EXCEPT !.temp_dir = @ \/ ~s.sds]
      used == Use(t, <<s.result_source, s.result_sources>>)
      walked == IF s.result_sources = NULL THEN Bad(used, "no table") ELSE used
  IN IF ~s.arf THEN Call(0, s)
     ELSE IF ~s.sds /\ ~s.temp_dir /\ "temp dir" \in fails THEN Call(1, s)
     ELSE Call(IF "save arf" \in fails \/ (s.full /\ "invalid arf" \in fails) THEN 1 ELSE 0, walked)

xccdf_session_free(s) ==
  LET t == FreeAll(s, <<s.result_sources>> \o s.agents \o <<s.custom, s.resources, s.result_source>>)
  IN FreeAll(FreeModel(t), <<s.component, s.source, s.tailoring>>)

-----------------------------------------------------------------------------
(* The oscap command.  fails[k] is what fails in its k-th step; a step that *)
(* fails is the last before the session is freed, but for a remediation.    *)

app_evaluate_xccdf(start, remediate, fails) ==
  LET loaded == xccdf_session_load(start, fails[1])
      evaluated == Then(loaded, LAMBDA s :
                     IF "no profile" \in fails[2] THEN Call(1, s)
                     ELSE xccdf_session_evaluate([s EXCEPT !.profile = TRUE], fails[2]))
      oval == Then(evaluated, LAMBDA s : xccdf_session_export_oval(s, fails[3]))
      fixed == Then(oval, LAMBDA s :
                 IF remediate THEN Call(0, xccdf_session_remediate(s, fails[4]).s) ELSE Call(0, s))
      written == Then(fixed, LAMBDA s : xccdf_session_export_xccdf(s, fails[5]))
      all == Then(written, LAMBDA s : xccdf_session_export_arf(s, fails[6]))
  IN Then(all, LAMBDA s : Call(0, xccdf_session_contains_fail_result(s)))

app_xccdf_remediate(start, fails) ==
  LET loaded == xccdf_session_load(start, fails[1])
      built == Then(loaded, LAMBDA s : xccdf_session_build_policy_from_testresult(s, fails[2]))
      fixed == Then(built, LAMBDA s : Call(0, xccdf_session_remediate(s, fails[3]).s))
      oval == Then(fixed, LAMBDA s : xccdf_session_export_oval(s, fails[4]))
      written == Then(oval, LAMBDA s : xccdf_session_export_xccdf(s, fails[5]))
      all == Then(written, LAMBDA s : xccdf_session_export_arf(s, fails[6]))
  IN Then(all, LAMBDA s : Call(0, xccdf_session_contains_fail_result(s)))
=============================================================================
