---------------------------- MODULE MCProbeComm ----------------------------
(***************************************************************************)
(* A small document for ProbeComm.  S is a set of A and B with two filters, *)
(* f1 and f2; T is a set of S and A that names f2 twice; A filters with f1  *)
(* itself.  B, D and the states need variables whose values come from C     *)
(* and D, the test of T needs one from E, whose type no probe is installed  *)
(* for.  What library and probes compute beside their conversations is     *)
(* compared with what it should be for all small inputs.                   *)
(***************************************************************************)
EXTENDS ProbeComm, SequencesExt

CONSTANTS p, q, r, T, S, A, B, C, D, E, f1, f2, v1, u1, w1

MCProbes == {p, q, r}
MCSupported == {p, q}
MCObjects == {T, S, A, B, C, D, E}
MCStates == {f1, f2}
MCVariables == {v1, u1, w1}

MCMembers == [o \in MCObjects |->
  CASE o = S -> <<A, B>> [] o = T -> <<S, A>> [] OTHER -> <<>>]
MCFilters == [o \in MCObjects |->
  CASE o = S -> <<f1, f2>> [] o = T -> <<f2, f2>> [] o = A -> <<f1>> [] OTHER -> <<>>]
MCVarRefs == [o \in MCObjects |-> IF o \in {B, D} THEN <<v1>> ELSE <<>>]
MCStateVars == [s \in MCStates |-> IF s = f1 THEN <<u1, v1>> ELSE <<u1>>]
MCTestVars == [o \in MCObjects |-> CASE o = A -> <<v1>> [] o = T -> <<w1>> [] OTHER -> <<>>]
MCVarObject == [x \in MCVariables |-> CASE x = v1 -> C [] x = u1 -> D [] x = w1 -> E]
MCRank == [o \in MCObjects |->
  CASE o = T -> 4 [] o = S -> 3 [] o \in {A, B} -> 2 [] o = D -> 1 [] OTHER -> 0]

\* Which probe collects what: with MCProbeOfApart the variables take their
\* values from a probe of their own; in the other two a probe that waits for
\* the values of one (or of both) is asked to collect them.
MCProbeOf == [o \in MCObjects |-> CASE o = C -> q [] o = E -> r [] OTHER -> p]
MCProbeOfApart == [o \in MCObjects |-> CASE o \in {C, D} -> q [] o = E -> r [] OTHER -> p]
MCProbeOfTogether == [o \in MCObjects |-> IF o = E THEN r ELSE p]
MCFlags == {"complete", "does_not_exist"}
MCOneFlag == {"complete"}

-----------------------------------------------------------------------------
(* The functions of local variables, evaluated for short texts.            *)

Ten == <<"0", "1", "2", "3", "4", "5", "6", "7", "8", "9">>
DigitValue(c) == (CHOOSE i \in 1 .. 10 : Ten[i] = c) - 1
NumberOf(text) == FoldLeft(LAMBDA n, c : 10 * n + DigitValue(c), 0, text)
NumeralOf(n) == IF n < 10 THEN <<Ten[n + 1]>>
                ELSE IF n < 100 THEN <<Ten[n \div 10 + 1], Ten[(n % 10) + 1]>>
                ELSE <<Ten[n \div 100 + 1], Ten[((n \div 10) % 10) + 1], Ten[(n % 10) + 1]>>

\* The only pattern is a group of any one character.
IsPattern(pattern) == pattern = "(.)"
FirstOf(pattern, text) ==
  [ok |-> TRUE, group |-> IF text = <<>> THEN <<>> ELSE <<SubSeq(text, 1, 1)>>]
SecondsOf(text, format) == NumberOf(text)

V == INSTANCE VariableFunctions
       WITH Number <- NumberOf, Numeral <- NumeralOf, Compiles <- IsPattern,
            Capture <- FirstOf, Escaped <- {"."}, Word <- 1000, Room <- 2,
            Seconds <- SecondsOf

Texts == SeqOf({"a", "."}, 3)
Of(texts) == [flag |-> "complete", vals |-> [i \in DOMAIN texts |-> V!Text(texts[i])]]
Numbers(ns) == [flag |-> "complete", vals |-> [i \in DOMAIN ns |-> V!Integer(ns[i])]]
TextsOf(out) == [i \in DOMAIN out.vals |-> out.vals[i].text]
Flag == Range(V!Flags)
SameBag(s, t) == \A x \in Range(s) \cup Range(t) :
                   Cardinality({i \in DOMAIN s : s[i] = x}) = Cardinality({i \in DOMAIN t : t[i] = x})

\* A function of several components is as sure of its values as the least of
\* them, in whatever order they come (_flag_agg_map).  A search and a sum are
\* not: they call complete what was made from an incomplete collection, a sum
\* even what was made from none.
ASSUME SureOfItsValues ==
  LET one(f) == [flag |-> f, vals |-> <<V!Integer(1)>>]
  IN /\ \A f, g, h \in Flag :
          /\ V!AggFlag(f, g) = V!AggFlag(g, f)
          /\ V!AggFlag(f, V!AggFlag(g, h)) = V!AggFlag(V!AggFlag(f, g), h)
     /\ \A f, g \in Flag : \A t \in {V!Concat(<<one(f), one(g)>>), V!Count(<<one(f), one(g)>>),
                                     V!Unique(<<one(f), one(g)>>)} :
          /\ t.flag = "complete" => {f, g} \subseteq {"complete", "unknown"}
          /\ "error" \in {f, g} => t.flag = "error"
     /\ V!RegexCapture("(.)", one("incomplete")).flag = "complete"
     /\ V!Arithmetic("add", <<one("error"), one("not_collected")>>).flag = "complete"

\* Every combination of the values of the components, each once; a component
\* that has none does not count.
ASSUME ConcatCombines ==
  LET lists == SeqOf({<<"a">>, <<".">>}, 2)
      Combinations(l, k, m) ==
        [n \in 1 .. Len(l) * Len(k) * Len(m) |->
           l[((n - 1) \div (Len(k) * Len(m))) + 1]
             \o k[(((n - 1) \div Len(m)) % Len(k)) + 1] \o m[((n - 1) % Len(m)) + 1]]
      OrEmpty(l) == IF l = <<>> THEN <<<<>>>> ELSE l
  IN \A l, k, m \in lists :
       SameBag(TextsOf(V!Concat(<<Of(l), Of(k), Of(m)>>)),
               Combinations(OrEmpty(l), OrEmpty(k), OrEmpty(m)))

\* Splitting loses nothing: the pieces with the delimiter between them are the
\* text, and none of them has it inside.
ASSUME PiecesMakeTheText ==
  \A s \in Texts \ {<<>>}, d \in SeqOf({"a", "."}, 2) :
    LET pieces == TextsOf(V!Split(d, Of(<<s>>)))
    IN /\ s = FlattenSeq([i \in DOMAIN pieces |-> IF i = 1 THEN pieces[i] ELSE d \o pieces[i]])
       /\ d # <<>> => \A i \in DOMAIN pieces, k \in 1 .. 3 :
                        ~IsPrefix(d, SubSeq(pieces[i], k, Len(pieces[i])))

\* A prefix or a suffix is added where it is missing, once.
ASSUME AffixesOnce ==
  \A s \in Texts, x \in SeqOf({"a", "."}, 2) :
    LET begun == V!Begin(x, Of(<<s>>))
        ended == V!End(x, Of(<<s>>))
    IN /\ IsPrefix(x, TextsOf(begun)[1]) /\ V!Begin(x, begun) = begun
       /\ IsSuffix(x, TextsOf(ended)[1]) /\ V!End(x, ended) = ended

\* The difference of two times is right if the first is not the earlier one:
\* otherwise it wraps around and loses its last digits.
ASSUME LaterFirst ==
  \A m, n \in 0 .. 20 :
    (V!TimeDif(0, "s", "s", <<Numbers(<<m>>), Numbers(<<n>>)>>).vals[1].text
       = NumeralOf(IF m > n THEN m - n ELSE n - m)) <=> m >= n

\* All sums of one number of each component.
ASSUME AllSums ==
  \A l, k \in SeqOf(1 .. 3, 2) :
    SameBag(TextsOf(V!Arithmetic("add", <<Numbers(<<4>>), Numbers(l), Numbers(k)>>)),
            FlattenSeq([i \in DOMAIN l |-> [j \in DOMAIN k |-> NumeralOf(4 + l[i] + k[j])]]))

\* A value that is no number ends a sum with an error where the last or the
\* last but one component has it; before, sums are missing and nothing says so.
ASSUME NoNumberUnseen ==
  LET mixed == [flag |-> "complete", vals |-> <<V!Integer(2), V!Text(<<"a">>)>>]
      one == Numbers(<<1>>)
  IN /\ V!Arithmetic("add", <<one, one, mixed>>).flag = "error"
     /\ V!Arithmetic("add", <<one, mixed, one>>).flag = "error"
     /\ V!Arithmetic("add", <<mixed, one, one>>) = Numbers(<<4>>)

\* Counting the different values, through the evaluation of a tree.
ASSUME CountsDifferent ==
  LET env == [now |-> 0, variables |-> [x \in {} |-> 0],
              objects |-> [x \in {"o"} |-> [flag |-> "complete", items |-> <<>>]]]
      Literal(s) == [type |-> "LITERAL", value |-> V!Text(s)]
      All(l) == [i \in DOMAIN l |-> Literal(l[i])]
      Apply(function, l) == [type |-> function, components |-> l]
      Evaluated(c) == V!oval_component_eval_common(env, c)
  IN \A l \in SeqOf({<<"a">>, <<".">>, <<>>}, 3) \ {<<>>} :
       /\ Evaluated(Apply("COUNT", <<Apply("UNIQUE", All(l))>>)).vals
            = <<V!Integer(Cardinality(Range(l)))>>
       /\ Evaluated(Apply("COUNT", <<Apply("CONCAT", All(l))>>)).vals = <<V!Integer(1)>>
       /\ Evaluated(Apply("COUNT",
            Append(All(l), [type |-> "VARREF", variable |-> "v"])))
            = [flag |-> "error", vals |-> <<V!Integer(0)>>]

-----------------------------------------------------------------------------
(* Cells of three bits, three of them: all that opening and closing        *)
(* descriptors can lead to.                                                *)

CellBits == 3
Cells == 3
Desc == INSTANCE Descriptors WITH CellSize <- CellBits, Size <- Cells

\* The tables that can be reached with at most so many open at once.
RECURSIVE TablesFrom(_, _, _)
TablesFrom(most, all, new) ==
  LET Added(t) == IF Cardinality(t.open) < most THEN {Desc!SEAP_desc_add(t).table} ELSE {}
      next == UNION {Added(t) \cup {Desc!SEAP_desc_del(t, sd) : sd \in {u \in t.open : Desc!CanDelete(u)}} : t \in new} \ all
  IN IF next = {} THEN all ELSE TablesFrom(most, all \cup next, next)
Tables(most) == TablesFrom(most, {Desc!desctable}, {Desc!desctable})

\* As long as no more descriptors are open than a cell has bits, there is
\* always another, whatever was closed before.
ASSUME AFewAreAlwaysThere ==
  \A t \in Tables(CellBits) :
    Cardinality(t.open) < CellBits => Desc!SEAP_desc_add(t).sd >= 0

\* One more and a number can come twice: bitmap_setfree gives a new cell's
\* first bit the number of the cell after it.  The tree then refuses it, far
\* from the table's limit; the next attempt succeeds.
ASSUME OneMoreComesTwice ==
  LET failing == {t \in Tables(CellBits + 1) :
                    Cardinality(t.open) <= CellBits /\ Desc!SEAP_desc_add(t).sd = -1}
  IN /\ failing # {}
     /\ \A t \in failing : Desc!SEAP_desc_add(Desc!SEAP_desc_add(t).table).sd >= 0

\* Of all numbers that are ever given out, the last is one that the table
\* asserts it never has to take back.
ASSUME LastIsBeyond ==
  {sd \in UNION {t.open : t \in Tables(CellBits * Cells)} : ~Desc!CanDelete(sd)}
    = {CellBits * Cells}

-----------------------------------------------------------------------------
(* The schema's charts of combined flags (oval-definitions-schema.xsd:998, *)
(* 1010, 1022): a row for each flag of the second operand, a column for    *)
(* each flag of the first.                                                 *)

\* The flags alone: no items, no objects.
Unsorted(l) == l
Sets == INSTANCE SetEval
          WITH Items <- {}, Sort <- Unsorted, MaxCobjs <- 0, Overlap <- FALSE,
               cobjs <- <<>>, extent <- <<>>, merge <- <<>>

ChartFlags == <<"error", "complete", "incomplete", "does_not_exist",
                "not_collected", "not_applicable">>
FlagChart ==
  LET er == "error" co == "complete" in == "incomplete"
      dn == "does_not_exist" nc == "not_collected" na == "not_applicable"
  IN [union |->
        <<<<er, er, er, er, er, er>>, <<er, co, in, co, in, co>>, <<er, in, in, in, in, in>>,
          <<er, co, in, dn, in, dn>>, <<er, in, in, in, nc, nc>>, <<er, co, in, dn, nc, na>>>>,
      intersection |->
        <<<<er, er, er, dn, er, er>>, <<er, co, in, dn, nc, co>>, <<er, in, in, dn, nc, in>>,
          <<dn, dn, dn, dn, dn, dn>>, <<er, nc, nc, dn, nc, nc>>, <<er, co, in, dn, nc, na>>>>,
      complement |->
        <<<<er, er, er, dn, er, er>>, <<er, co, in, dn, nc, er>>, <<er, er, er, dn, nc, er>>,
          <<er, co, in, dn, nc, er>>, <<er, nc, nc, dn, nc, er>>, <<er, er, er, er, er, er>>>>]

\* probe_cobj_combine_flags leaves the charts for five pairs of operands and
\* these flags (probe-api.c:711, 719, 744, 763, 765); the rest is as charted.
ASSUME FlagsLeaveChart ==
  {<<op, one, other, Sets!CombineFlags(op, one, other)>> :
     <<op, one, other>> \in {<<op, one, other>> \in Sets!Operations \X Sets!Flags \X Sets!Flags :
        \E row, column \in 1 .. 6 :
          /\ <<ChartFlags[column], ChartFlags[row]>> = <<one, other>>
          /\ FlagChart[op][row][column] # Sets!CombineFlags(op, one, other)}}
  = {<<"intersection", "error", "does_not_exist", "error">>,
     <<"intersection", "incomplete", "not_collected", "incomplete">>,
     <<"intersection", "incomplete", "not_applicable", "not_applicable">>,
     <<"complement", "complete", "not_collected", "error">>,
     <<"complement", "incomplete", "not_collected", "error">>}

=============================================================================
