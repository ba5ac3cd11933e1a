------------------------- MODULE VariableFunctions -------------------------
(***************************************************************************)
(* The values of a local variable: oval_component.c.  A component is a     *)
(* literal, the fields of what an object collected, the values of another  *)
(* variable, or a function of components; it evaluates to [flag, vals].    *)
(*                                                                         *)
(* A value is [type, text], a text a sequence of characters.  What is      *)
(* known of the system is env: env.objects and env.variables give for each *)
(* one that is not an error [flag, items] and [flag, vals].                *)
(***************************************************************************)
EXTENDS Integers, Sequences, SequencesExt, FiniteSetsExt

CONSTANTS
  Number(_),       \* the number a text begins with
  Numeral(_),      \* the text of a number
  Compiles(_),     \* pcre: whether a pattern is one
  Capture(_, _),   \* pcre: [ok, group], the pattern's first group in a text if any
  Escaped,         \* the characters a pattern gives a meaning
  Word,            \* unsigned long wraps around here
  Room,            \* how many digits the text of a time difference has room for
  Seconds(_, _)    \* a date in a format, in seconds; 0 when it is none

Text(s) == [type |-> "string", text |-> s]
Integer(n) == [type |-> "int", text |-> Numeral(n)]
Failed == [flag |-> "error", vals |-> <<>>]

Flags == <<"unknown", "complete", "incomplete", "does_not_exist", "not_collected",
           "not_applicable", "error">>
FlagRank(flag) == CHOOSE i \in DOMAIN Flags : Flags[i] = flag

\* The table _flag_agg_map: the worse of two flags.
AggFlag(f1, f2) == Flags[Max({FlagRank(f1), FlagRank(f2)})]
AggFlags(results) == FoldLeft(LAMBDA f, r : AggFlag(f, r.flag), "unknown", results)
HasValues(flag) == flag \in {"complete", "incomplete"}

\* A function of each text, on its own.
EachText(r, F(_)) ==
  [flag |-> r.flag,
   vals |-> FlattenSeq([i \in DOMAIN r.vals |->
              [j \in DOMAIN F(r.vals[i].text) |-> Text(F(r.vals[i].text)[j])]])]

-----------------------------------------------------------------------------
(* Leaves.                                                                 *)

LITERAL(c) == [flag |-> "complete", vals |-> <<c.value>>]

\* Of an item's entities those of the name; of a record, and only if the
\* component names one, the fields.
EntityValues(c, e) ==
  IF e.name # c.itemField \/ (e.type = "record") # (c.recordField # <<>>) THEN <<>>
  ELSE IF e.type = "record"
  THEN LET named == SelectSeq(e.fields, LAMBDA f : <<f.name>> = c.recordField)
       IN [i \in DOMAIN named |-> named[i].value]
  ELSE <<[type |-> e.type, text |-> e.text]>>

OBJECTREF(env, c) ==
  IF c.object \notin DOMAIN env.objects THEN Failed
  ELSE LET entities == FlattenSeq(env.objects[c.object].items)
       IN [flag |-> env.objects[c.object].flag,
           vals |-> FlattenSeq([i \in DOMAIN entities |-> EntityValues(c, entities[i])])]

VARREF(env, c) ==
  IF c.variable \notin DOMAIN env.variables THEN Failed
  ELSE LET v == env.variables[c.variable]
       IN [flag |-> v.flag, vals |-> IF HasValues(v.flag) THEN v.vals ELSE <<>>]

-----------------------------------------------------------------------------
(* Functions of the first component; r is what that evaluates to.          *)

Begin(prefix, r) ==
  EachText(r, LAMBDA s : <<IF IsPrefix(prefix, s) THEN s ELSE prefix \o s>>)

End(suffix, r) ==
  EachText(r, LAMBDA s : <<IF IsSuffix(suffix, s) THEN s ELSE s \o suffix>>)

EscapeRegex(r) ==
  EachText(r, LAMBDA s : <<FlattenSeq([i \in DOMAIN s |->
                             IF s[i] \in Escaped THEN <<"\\", s[i]>> ELSE <<s[i]>>])>>)

RECURSIVE Pieces(_, _)
Pieces(s, delimiter) ==
  LET found == {i \in DOMAIN s : IsPrefix(delimiter, SubSeq(s, i, Len(s)))}
  IN IF found = {} THEN <<s>>
     ELSE <<SubSeq(s, 1, Min(found) - 1)>>
            \o Pieces(SubSeq(s, Min(found) + Len(delimiter), Len(s)), delimiter)

Split(delimiter, r) ==
  EachText(r, LAMBDA s : IF delimiter = <<>> THEN [i \in DOMAIN s |-> <<s[i]>>]
                         ELSE Pieces(s, delimiter))

\* A text that is too short makes an error of the flag; the others' values
\* stay.  A length below 0 is no limit.
Substring(start, length, r) ==
  LET from == IF start < 1 THEN 1 ELSE start
      Slice(s) == IF from > Len(s) THEN <<>>
                  ELSE <<SubSeq(s, from, IF length < 0 THEN Len(s)
                                         ELSE Min({Len(s), from + length - 1}))>>
      short == \E i \in DOMAIN r.vals : from > Len(r.vals[i].text)
  IN [EachText(r, Slice) EXCEPT !.flag = IF short THEN "error" ELSE @]

\* Whatever flag the texts had, one that could be searched makes it complete;
\* one that could not ends the search.
RegexCapture(pattern, r) ==
  LET Found(i) == Capture(pattern, r.vals[i].text)
      bad == {i \in DOMAIN r.vals : ~Found(i).ok}
      searched == IF bad = {} THEN Len(r.vals) ELSE Min(bad) - 1
  IN IF ~Compiles(pattern) THEN Failed
     ELSE [flag |-> IF bad # {} THEN "error" ELSE IF searched = 0 THEN r.flag ELSE "complete",
           vals |-> [i \in 1 .. searched |-> Text(FlattenSeq(Found(i).group))]]

-----------------------------------------------------------------------------
(* Functions of all components; rs are what those evaluate to.             *)

\* The first component's values change fastest; a component without values
\* is an empty text.
Concat(rs) ==
  LET Turns(i) == Max({1, Len(rs[i].vals)})
      Before(i) == FoldLeft(LAMBDA n, k : n * Turns(k), 1, [k \in 1 .. i - 1 |-> k])
      Part(k, i) == IF rs[i].vals = <<>> THEN <<>>
                    ELSE rs[i].vals[(((k - 1) \div Before(i)) % Turns(i)) + 1].text
      flag == AggFlags(rs)
  IN [flag |-> flag,
      vals |-> IF rs = <<>> \/ ~HasValues(flag) THEN <<>>
               ELSE [k \in 1 .. Before(Len(rs) + 1) |->
                       Text(FlattenSeq([i \in DOMAIN rs |-> Part(k, i)]))]]

AllValues(rs) == FlattenSeq([i \in DOMAIN rs |-> rs[i].vals])

\* There is always a count.
Count(rs) ==
  LET flag == AggFlags(rs)
  IN [flag |-> flag,
      vals |-> <<Integer(IF HasValues(flag) THEN Len(AllValues(rs)) ELSE 0)>>]

\* In the order of a map from texts.
Unique(rs) ==
  LET flag == AggFlags(rs)
      texts == SetToSeq({v.text : v \in Range(AllValues(rs))})
  IN [flag |-> flag,
      vals |-> IF HasValues(flag) THEN [i \in DOMAIN texts |-> Text(texts[i])] ELSE <<>>]

RECURSIVE Leading(_)
Leading(n) == IF Len(Numeral(n)) <= Room THEN n ELSE Leading(n \div 10)

\* Of one component: now minus its values.  The flag is the last one's; a
\* difference is unsigned and loses the digits there is no room for.
TimeDif(now, format1, format2, rs) ==
  LET last == rs[Len(rs)]
      minuends == IF Len(rs) = 1 THEN <<now>>
                  ELSE [i \in DOMAIN rs[1].vals |-> Seconds(rs[1].vals[i].text, format1)]
      From(m) == [j \in DOMAIN last.vals |->
                    Integer(Leading((m - Seconds(last.vals[j].text, format2)) % Word))]
  IN IF Len(rs) \notin {1, 2} THEN Failed
     ELSE [flag |-> last.flag,
           vals |-> FlattenSeq([i \in DOMAIN minuends |-> From(minuends[i])])]

Numeric == {"int", "float"}
Calculate(op, m, n) == IF op = "add" THEN m + n ELSE m * n

\* Components from the i-th down to the first, applied to a number; values
\* before one that is no number count.
RECURSIVE ArithmeticRec(_, _, _, _, _)
ArithmeticRec(rs, i, op, type, n) ==
  IF i = 0 THEN [flag |-> "complete", vals |-> <<[type |-> type, text |-> Numeral(n)]>>]
  ELSE LET vals == rs[i].vals
           bad == {j \in DOMAIN vals : vals[j].type \notin Numeric}
           used == IF bad = {} THEN Len(vals) ELSE Min(bad) - 1
           Next(j) == ArithmeticRec(rs, i - 1, op,
                        IF type = "float" THEN "float" ELSE vals[j].type,
                        Calculate(op, Number(vals[j].text), n))
       IN [flag |-> IF bad = {} THEN "complete" ELSE "error",
           vals |-> FlattenSeq([j \in 1 .. used |-> Next(j).vals])]

\* It begins with the last component's values.  The flag is that of the last
\* of them: whether the component before has anything that is no number.
\* What the components' own flags were it forgets.
Arithmetic(op, rs) ==
  LET last == rs[Len(rs)]
      bad == {j \in DOMAIN last.vals : last.vals[j].type \notin Numeric}
      used == IF bad = {} THEN Len(last.vals) ELSE Min(bad) - 1
      From(j) == ArithmeticRec(rs, Len(rs) - 1, op, last.vals[j].type,
                               Number(last.vals[j].text))
  IN [flag |-> IF bad # {} THEN "error" ELSE IF used = 0 THEN last.flag ELSE From(used).flag,
      vals |-> FlattenSeq([j \in 1 .. used |-> From(j).vals])]

-----------------------------------------------------------------------------
RECURSIVE oval_component_eval_common(_, _)
oval_component_eval_common(env, c) ==
  CASE c.type = "LITERAL" -> LITERAL(c)
    [] c.type = "OBJECTREF" -> OBJECTREF(env, c)
    [] c.type = "VARREF" -> VARREF(env, c)
    [] OTHER ->
         LET rs == [i \in DOMAIN c.components |-> oval_component_eval_common(env, c.components[i])]
         IN CASE c.type = "CONCAT" -> Concat(rs)
              [] c.type = "COUNT" -> Count(rs)
              [] c.type = "UNIQUE" -> Unique(rs)
              [] c.type = "TIMEDIF" -> TimeDif(env.now, c.format1, c.format2, rs)
              [] c.type = "ARITHMETIC" -> Arithmetic(c.op, rs)
              [] c.type = "BEGIN" -> IF rs = <<>> THEN Failed ELSE Begin(c.prefix, rs[1])
              [] c.type = "END" -> IF rs = <<>> THEN Failed ELSE End(c.suffix, rs[1])
              [] c.type = "SPLIT" -> Split(c.delimiter, rs[1])
              [] c.type = "SUBSTRING" -> Substring(c.start, c.length, rs[1])
              [] c.type = "ESCAPE_REGEX" -> EscapeRegex(rs[1])
              [] c.type = "REGEX_CAPTURE" -> RegexCapture(c.pattern, rs[1])
=============================================================================
