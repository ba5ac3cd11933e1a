----------------------------- MODULE MCSetEval -----------------------------
(***************************************************************************)
(* Sets over a few items, with the real sort; what decides whether a       *)
(* filter applies is checked with them, and what the evaluation of an      *)
(* object rests on is compared with what it should compute for all small   *)
(* inputs.                                                                 *)
(***************************************************************************)
EXTENDS SetEval, ListSort, SequencesExt
LOCAL INSTANCE TLC
LOCAL INSTANCE Functions

SmallItems == {1, 2, 3}
TwoItems == {1, 2}

\* Seven elements fill two blocks and begin a third: the sort puts every
\* order of them right.
ASSUME SortsThreeBlocks ==
  \A l \in Permutations(1 .. 7) : SEXP_list_sort(l) = [k \in 1 .. 7 |-> k]

\* What SortAssumption does not ask for: when the displaced element meets
\* its equal in the block, oscap_bfind_i gives no place and it goes first.
ASSUME RepeatedItemMisplaced ==
  SEXP_list_sort(<<5, 6, 1, 2, 5>>) = <<1, 5, 2, 5, 6>>

-----------------------------------------------------------------------------
(* The comparisons of EntityCompare, evaluated for all short values: the   *)
(* order each type puts its values in, and that the filters of a probe and *)
(* the tests of the library judge an item alike.                           *)

\* No pattern compiles.
NoPattern(pattern, string) == "error"

\* Addresses of four bits, floats with two digits, integers up to 12.
E == INSTANCE EntityCompare
       WITH Width <- 4, Precision <- 10, IntMax <- 12, Matches <- NoPattern
L == INSTANCE OvalLogic

\* Comparing two strings is asking which comes first in one order of them all.
TotalPreorder(S, compare(_, _)) ==
  LET ranks == {<<x, Cardinality({y \in S : compare(x, y) = 1})>> : x \in S}
  IN \A p, q \in ranks : compare(p[1], q[1]) = E!Sign(p[2] - q[2])

\* Versions of packages, with or without epoch and release, are in one order
\* (no three of them go round in a circle).
ASSUME VersionsAreOrdered ==
  /\ TotalPreorder(SeqOf({"1", "a", "-", ":"}, 3), LAMBDA x, y : E!rpmevrcmp(x, y))
  /\ TotalPreorder(SeqOf({"0", "1", "a", "."}, 3), LAMBDA x, y : E!rpmvercmp(x, y))

\* A version without an epoch is older than the same with any, 0 included
\* (compare_values); the comment at parseEVR would not compare them.
ASSUME MissingEpochIsOlder ==
  \A epoch \in {<<>>, <<"0">>, <<"1">>} :
    E!rpmevrcmp(<<"1">>, epoch \o <<":", "1">>) = -1

\* Version strings compare as their fields do, a missing field as 0.
ASSUME FieldsDecide ==
  LET digit == <<"0", "1", "2">>
      Text(f) == FlattenSeq([i \in 1 .. 2 * Len(f) - 1 |->
                   IF i % 2 = 0 THEN <<".">> ELSE
                   IF f[(i + 1) \div 2] = 10 THEN <<"1", "0">> ELSE <<digit[f[(i + 1) \div 2] + 1]>>])
      Field(f, i) == IF i \in DOMAIN f THEN f[i] ELSE 0
      Older(f, g) == \E i \in 1 .. 2 : /\ Field(f, i) < Field(g, i)
                                       /\ \A j \in 1 .. i - 1 : Field(f, j) = Field(g, j)
  IN \A f, g \in SeqOf({0, 1, 2, 10}, 2) \ {<<>>} :
       E!VersionOrder(Text(f), Text(g)) =
         IF Older(f, g) THEN 1 ELSE IF Older(g, f) THEN -1 ELSE 0

\* The addresses that agree with an address under its own mask.
Net(af, net) ==
  {x \in 0 .. 15 : E!ipaddr_mask(af, x, net.mask) = E!ipaddr_mask(af, net.addr, net.mask)}
Addresses(masks) == [addr : 0 .. 15, mask : masks]
ContainmentDecides(af, masks) ==
  \A s1, s2 \in Addresses(masks) :
    /\ E!oval_ipaddr_cmp(af, s1, s2, "subset_of") = E!Truth(Net(af, s2) \subseteq Net(af, s1))
    /\ E!oval_ipaddr_cmp(af, s1, s2, "superset_of") = E!Truth(Net(af, s1) \subseteq Net(af, s2))

\* The order of two masks decides, with the shorter one's bits, whether one
\* range is within the other.  It takes masks without holes, and a prefix of
\* length 0 that is not left as a mask of all ones.
ASSUME SubsetsAreSubsets ==
  /\ ContainmentDecides(6, 0 .. 4)
  /\ ContainmentDecides(4, UNION {E!PrefixMask(n) : n \in 1 .. 4} \cup {0})
  /\ ~ContainmentDecides(4, {6, 8})
  /\ \E m \in E!PrefixMask(0) : Net(4, [addr |-> 1, mask |-> m]) = {1}

\* Two floats within the relative error are equal, and equal floats need not
\* have the same equals.
ASSUME NearIsNotTransitive ==
  \E x, y, z \in 0 .. 12 : E!cmp_float(x, y) = 0 /\ E!cmp_float(y, z) = 0 /\ E!cmp_float(x, z) # 0

\* The probe's copy of the check tables says what the library's says, but for
\* one case no branch of either decides: each returns what it started from.
ASSUME ChecksAgree ==
  \A results \in SeqOf(L!Result, 3), check \in L!Check :
    LET c == L!Count(results)
        probe == E!probe_ent_result_bychk(results, check)
        library == L!ores_get_result_bychk(c, check)
    IN probe = library \/
       (/\ <<probe, library>> = <<"unknown", "error">>
        /\ check = "at_least_one" /\ c["false"] > 0 /\ c["true"] + c["error"] = 0)

\* A state's entity of one value, or of those of a variable, and an item's:
\* the probe, for a filter, and the library, for a test, come to one result,
\* whether the number is one or text.
ASSUME FilterIsTest ==
  LET digit == <<"0", "1", "2">>
      Text(n) == <<digit[n + 1]>>
      numeric == {"equals", "not_equal", "greater", "less_or_equal", "bitwise_and"}
  IN \A n \in 0 .. 2, vals \in SeqOf(0 .. 2, 2), op \in numeric, check \in L!Check,
        variable \in BOOLEAN, status \in L!ItemStatus \ {"error", "not_collected"} :
       variable = (Len(vals) # 1) =>
         LET field(v) == [is |-> "number", v |-> v]
             ste == [type |-> "int", op |-> op, variable |-> variable, varCheck |-> check,
                     vals |-> [i \in DOMAIN vals |-> field(vals[i])]]
             itm == [type |-> "int", status |-> status, vals |-> <<field(n)>>]
             sysent == [status |-> status,
                        variable |-> IF variable THEN "complete" ELSE "none",
                        results |-> [i \in DOMAIN vals |->
                                       E!oval_ent_cmp_str(Text(vals[i]), "int", Text(n), op)]]
         IN vals # <<>> => E!probe_entste_cmp(ste, itm) = L!EvaluateSysent(sysent, check)

\* A record matches when every field of the state's does, in all fields of the
\* item's with that name; one that is missing is an error, not a match.
ASSUME RecordsNeedEveryField ==
  LET Field(name, v) == [name |-> name, type |-> "string", op |-> "equals", check |-> "all",
                         variable |-> FALSE, varCheck |-> "all", status |-> "exists",
                         vals |-> <<[is |-> "string", v |-> <<v>>]>>]
      Record(fields) == [type |-> "record", op |-> "equals", check |-> "all",
                         status |-> "exists", vals |-> fields]
      Fields == {Field(name, v) : name \in {"f", "g"}, v \in {"0", "1"}}
      Named(fields, name) == {i \in DOMAIN fields : fields[i].name = name}
  IN \A s \in SeqOf(Fields, 2) \ {<<>>}, i \in SeqOf(Fields, 3) \ {<<>>} :
       (E!probe_entste_cmp(Record(s), Record(i)) = "true") <=>
         \A f \in Range(s) : /\ Named(i, f.name) # {}
                             /\ \A k \in Named(i, f.name) : i[k].vals = f.vals

-----------------------------------------------------------------------------
(* All that a program with three references can do with lists of up to     *)
(* five members in so many steps.                                          *)

References == 1 .. 3
Longest == 5
Steps == 4
Mem == INSTANCE SexpList

NoMemory == [blk |-> <<>>, val |-> <<>>, ref |-> [h \in References |-> Mem!NULL]]

\* p = [m, is, rests]: the memory, what each list should be, and which are the
\* rest of another.
Start == [m |-> NoMemory, is |-> [h \in References |-> <<>>], rests |-> {}]
Held(p) == {h \in References : p.m.ref[h] # Mem!NULL}
Free(p) == References \ Held(p)
After(p, h, m, contents) == [p EXCEPT !.m = m, !.is[h] = contents]
Ext(p, h) == Append(p.is[h], Len(p.is[h]) + 1)

Reading(p) ==
  LET G == IF Free(p) = {} THEN {} ELSE {CHOOSE g \in Free(p) : \A k \in Free(p) : g <= k}
  IN  {After(p, g, Mem!SEXP_list_new(p.m, g, [i \in 1 .. n |-> i]), [i \in 1 .. n |-> i]) :
          g \in G, n \in {0, 1, 3}}
 \cup {[After(p, gh[1], Mem!SEXP_ref(p.m, gh[1], gh[2]), p.is[gh[2]]) EXCEPT
          !.rests = IF gh[2] \in @ THEN @ \cup {gh[1]} ELSE @] : gh \in G \X Held(p)}
 \cup {[After(p, gh[1], Mem!SEXP_list_rest(p.m, gh[1], gh[2]), Tail(p.is[gh[2]])) EXCEPT
          !.rests = @ \cup {gh[1]}] : gh \in {gh \in G \X Held(p) : p.is[gh[2]] # <<>>}}
 \cup {After(p, jgh[1], Mem!SEXP_list_join(p.m, jgh[1], jgh[2], jgh[3]), p.is[jgh[2]] \o p.is[jgh[3]]) :
          jgh \in {jgh \in G \X Held(p) \X Held(p) :
                     Len(p.is[jgh[2]]) + Len(p.is[jgh[3]]) <= Longest}}
 \cup {[After(p, h, Mem!SEXP_free(p.m, h), <<>>) EXCEPT !.rests = @ \ {h}] : h \in Held(p)}
Writing(p) ==
      {After(p, h, Mem!SEXP_list_add(p.m, h, Len(p.is[h]) + 1), Ext(p, h)) :
          h \in {h \in Held(p) : Len(p.is[h]) < Longest /\ ~Mem!Crashes(p.m, h)}}
 \cup {After(p, h, Mem!SEXP_list_replace(p.m, h, n, 0), [p.is[h] EXCEPT ![n] = 0]) :
          <<h, n>> \in {<<h, n>> \in Held(p) \X (1 .. Longest) : n <= Len(p.is[h])}}

\* As the probes use lists: none is changed as long as there is a rest.
Careful(p) == Reading(p) \cup (IF p.rests = {} THEN Writing(p) ELSE {})

RECURSIVE Programs(_, _, _)
Programs(all, new, n) ==
  IF n = 0 THEN all
  ELSE LET next == UNION {Careful(p) : p \in new} \ all IN Programs(all \cup next, next, n - 1)
CarefulPrograms == Programs({Start}, {Start}, Steps)

\* Each pointer to a block is counted, each block and each value is held.
Pointers(m, addr) ==
  Cardinality({v \in DOMAIN m.val : m.val[v].addr = addr})
    + Cardinality({n \in DOMAIN m.blk : m.blk[n].next = addr})
Kept(m) ==
  /\ \A n \in DOMAIN m.blk : m.blk[n].refs = Pointers(m, n) /\ Pointers(m, n) > 0
  /\ \A v \in DOMAIN m.val : m.val[v].refs = Cardinality({h \in References : m.ref[h] = v})

\* For a careful program each reference is a list of its own, however they
\* share values and blocks, and all memory is given back (sexp-value.c:189,
\* 323, 459, 523).
ASSUME ListsAreValues ==
  \A p \in CarefulPrograms :
    /\ Kept(p.m)
    /\ \A h \in Held(p) : Mem!Contents(p.m, h) = p.is[h] /\ Mem!Length(p.m, h) = Len(p.is[h])
    /\ Held(p) = {} => p.m = NoMemory

\* A list of three of which a rest begins at its second block.
Three == FoldLeft(LAMBDA m, e : Mem!SEXP_list_add(m, 1, e), Mem!SEXP_list_new(NoMemory, 1, <<>>), <<1, 2, 3>>)
WithRest == Mem!SEXP_free(Mem!SEXP_list_rest(Mem!SEXP_list_rest(Three, 2, 1), 3, 2), 2)

\* "create a copy of the rest of the list" copies the whole list
\* (sexp-value.c:216), and a member is replaced in the rest as well (363).
ASSUME AddRepeatsTheFront ==
  Mem!Contents(Mem!SEXP_list_add(WithRest, 1, 4), 1) = <<1, 2, 1, 2, 3, 4>>
ASSUME ReplacesInBoth ==
  Mem!Contents(Mem!SEXP_list_replace(WithRest, 1, 3, 0), 3) = <<0>>

\* Nothing is the rest of nothing, less one (sexp-value.c:111).
ASSUME RestOfNothing ==
  Mem!Length(Mem!SEXP_list_rest(Mem!SEXP_list_new(NoMemory, 1, <<>>), 2, 1), 2) = -1

\* A list that is taken from loses its first block while it still begins
\* there (sexp-manip.c:1301).
ASSUME TakenTooSoon ==
  LET m == Mem!SEXP_list_pop(Three, 1) IN Mem!Value(m, 1).addr \notin DOMAIN m.blk

-----------------------------------------------------------------------------
(* Objects of up to three entities over seven variables.                   *)

R == INSTANCE VarRefs WITH Odd <- {99}

RefVariable(ok, flag, values) == [ok |-> ok, flag |-> flag, values |-> values]
RefVariables ==
  [one |-> RefVariable(TRUE, "complete", <<1>>),
   two |-> RefVariable(TRUE, "incomplete", <<2, 3>>),
   more |-> RefVariable(TRUE, "complete", <<4, 5, 6>>),
   none |-> RefVariable(TRUE, "complete", <<>>),
   odd |-> RefVariable(TRUE, "complete", <<7, 99>>),
   error |-> RefVariable(TRUE, "error", <<>>),
   gone |-> RefVariable(FALSE, "unknown", <<>>)]
RefEntities ==
  [name : {"e"}, kind : {"value"}, var : {""}, vals : {<<8>>}]
  \cup [name : {"e"}, kind : {"attribute", "element"}, var : DOMAIN RefVariables, vals : {<<>>}]
RefObjects == UNION {[1 .. n -> RefEntities] : n \in 1 .. 3}

SentOf(object) == R!oval_object_to_sexp(object, RefVariables)
RefChoices(object) ==
  LET refs == SelectSeq(object, LAMBDA e : e.kind = "attribute")
  IN {c \in [DOMAIN refs -> 1 .. 8] :
        \A i \in DOMAIN refs : c[i] \in Range(RefVariables[refs[i].var].values)}

\* A worker evaluates an object once for each choice of values, each entity
\* for itself (probe/worker.c:258, 967).
ASSUME EveryChoiceOnce ==
  \A object \in RefObjects :
    LET sent == SentOf(object)
        runs == R!probe_worker(sent, {})
    IN sent.skip_eval = "none" =>
         Range(runs) = RefChoices(object) /\ Len(runs) = Cardinality(RefChoices(object))

\* It stops with the choice that fails.
ASSUME StopsAtFailure ==
  \A n \in 1 .. 6 :
    LET sent == SentOf(<<[name |-> "e", kind |-> "attribute", var |-> "two", vals |-> <<>>],
                         [name |-> "e", kind |-> "attribute", var |-> "more", vals |-> <<>>]>>)
        all == R!probe_worker(sent, {})
    IN R!probe_worker(sent, {all[n]}) = SubSeq(all, 1, n)

\* A variable in error, that cannot be asked for or converted, does not make
\* the object an error: it does not exist (oval_sexp.c:498).  In an element
\* a variable in error is one without values (265).
RefAttribute(v) == <<[name |-> "e", kind |-> "attribute", var |-> v, vals |-> <<>>]>>
RefElement(v) == <<[name |-> "e", kind |-> "element", var |-> v, vals |-> <<>>]>>
ASSUME TroubleDoesNotExist ==
  /\ \A v \in {"none", "odd", "error", "gone"} : SentOf(RefAttribute(v)).skip_eval = "does_not_exist"
  /\ \A v \in {"odd", "gone"} : SentOf(RefElement(v)).skip_eval = "does_not_exist"
  /\ \A v \in {"none", "error"} : SentOf(RefElement(v)).others[1].vals = <<>>

=============================================================================
