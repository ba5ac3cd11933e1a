--------------------------- MODULE EntityCompare ---------------------------
(***************************************************************************)
(* How a value of a state is compared with one an item has: by the probe   *)
(* for its filters (probes/probe/entcmp.c) and by the library for its      *)
(* tests (results/oval_cmp*.c), which share the comparisons of each type.  *)
(*                                                                         *)
(* A string is a sequence of characters of Ascii; a value is [is, v], what *)
(* kind of S-expression it is and itself.                                  *)
(***************************************************************************)
EXTENDS Integers, Sequences, SequencesExt, FiniteSetsExt, Bitwise
LOCAL L == INSTANCE OvalLogic

CONSTANTS
  Width,          \* bits of an address: 32 or 128 in the code
  Precision,      \* two floats differ when they do by one part in this
  IntMax,         \* INTMAX_MAX
  Matches(_, _)   \* pcre: what a pattern says of a string, a result

Truth(b) == IF b THEN "true" ELSE "false"

\* What an operation says of the order of the item's value and the state's.
Orders == {"equals", "not_equal", "greater", "greater_or_equal", "less", "less_or_equal"}
ByOrder(c, op) ==
  CASE op = "equals" -> Truth(c = 0)
    [] op = "not_equal" -> Truth(c # 0)
    [] op = "greater" -> Truth(c = 1)
    [] op = "greater_or_equal" -> Truth(c # -1)
    [] op = "less" -> Truth(c = -1)
    [] op = "less_or_equal" -> Truth(c # 1)
    [] op \notin Orders -> "error"

Sign(n) == IF n < 0 THEN -1 ELSE IF n = 0 THEN 0 ELSE 1

-----------------------------------------------------------------------------
(* Numbers and strings.                                                    *)

oval_boolean_cmp(state, syschar, op) ==
  IF op \in {"equals", "not_equal"} THEN ByOrder(IF state = syschar THEN 0 ELSE 1, op)
  ELSE "error"

oval_int_cmp(state, syschar, op) ==
  CASE op = "bitwise_and" -> Truth((syschar & state) = state)
    [] op = "bitwise_or" -> Truth((syschar | state) = state)
    [] OTHER -> ByOrder(Sign(syschar - state), op)

\* Equal within a relative error.  Numbers stand for floats.
Magnitude(n) == IF n < 0 THEN -n ELSE n
cmp_float(a, b) ==
  IF Magnitude(a - b) * Precision <= Max({Magnitude(a), Magnitude(b)})
  THEN 0 ELSE Sign(a - b)
oval_float_cmp(state, syschar, op) == ByOrder(cmp_float(syschar, state), op)

Ascii == <<"-", ".", "/", "0", "1", "2", "3", "4", "5", "6", "7", "8", "9", ":",
           "A", "B", "a", "b">>
Code(c) == CHOOSE i \in DOMAIN Ascii : Ascii[i] = c
Digits == {Ascii[i] : i \in 4 .. 13}
Letters == {"A", "B", "a", "b"}
Lower(c) == IF c = "A" THEN "a" ELSE IF c = "B" THEN "b" ELSE c

strcmp(s, t) ==
  IF s = t THEN 0
  ELSE LET k == CHOOSE k \in 1 .. Len(s) + 1 :
                  /\ SubSeq(s, 1, k - 1) = SubSeq(t, 1, k - 1)
                  /\ k > Len(s) \/ k > Len(t) \/ s[k] # t[k]
       IN IF k > Len(s) THEN -1 ELSE IF k > Len(t) THEN 1 ELSE Sign(Code(s[k]) - Code(t[k]))

istrcmp(s, t) ==
  strcmp([i \in DOMAIN s |-> Lower(s[i])], [i \in DOMAIN t |-> Lower(t[i])])

oval_string_cmp(state, syschar, op) ==
  CASE op \in {"equals", "not_equal"} -> ByOrder(strcmp(state, syschar), op)
    [] op = "case_insensitive_equals" -> Truth(istrcmp(state, syschar) = 0)
    [] op = "case_insensitive_not_equal" -> Truth(istrcmp(state, syschar) # 0)
    [] op = "pattern_match" -> Matches(state, syschar)
    [] OTHER -> "error"

oval_binary_cmp(state, syschar, op) ==
  IF op \in {"equals", "not_equal"} THEN ByOrder(istrcmp(state, syschar), op) ELSE "error"

-----------------------------------------------------------------------------
(* Versions.                                                               *)

From(s, k) == SubSeq(s, k, Len(s))
\* How many characters of a class a string begins with.
Span(s, class) ==
  CHOOSE n \in 0 .. Len(s) : /\ \A i \in 1 .. n : s[i] \in class
                             /\ n = Len(s) \/ s[n + 1] \notin class
SkipSpan(s, class) == From(s, Span(s, class) + 1)

\* Segments of digits as numbers: without leading zeros the longer is greater.
CompareDigits(s, t) ==
  LET a == SkipSpan(s, {"0"})
      b == SkipSpan(t, {"0"})
  IN IF Len(a) # Len(b) THEN Sign(Len(a) - Len(b)) ELSE strcmp(a, b)

\* Segment by segment; a number is newer than letters, and what is left over
\* when all segments are equal is newer than nothing.
RECURSIVE rpmvercmp(_, _)
rpmvercmp(one, two) ==
  LET separators == Range(Ascii) \ (Digits \cup Letters)
      begun == one # <<>> /\ two # <<>>
      a == IF begun THEN SkipSpan(one, separators) ELSE one
      b == IF begun THEN SkipSpan(two, separators) ELSE two
  IN IF a = <<>> \/ b = <<>> THEN Sign(Sign(Len(a)) - Sign(Len(b)))
     ELSE LET isnum == a[1] \in Digits
              class == IF isnum THEN Digits ELSE Letters
              p == SubSeq(a, 1, Span(a, class))
              q == SubSeq(b, 1, Span(b, class))
              rc == IF isnum THEN CompareDigits(p, q) ELSE strcmp(p, q)
          IN IF q = <<>> THEN IF isnum THEN 1 ELSE -1
             ELSE IF rc # 0 THEN rc ELSE rpmvercmp(SkipSpan(a, class), SkipSpan(b, class))

\* Epoch and release are sequences of at most one string.
parseEVR(evr) ==
  LET digits == Span(evr, Digits)
      colon == digits < Len(evr) /\ evr[digits + 1] = ":"
      first == IF colon THEN digits + 2 ELSE 1
      dashes == {i \in DOMAIN evr : i > digits /\ evr[i] = "-"}
  IN [epoch |-> IF ~colon THEN <<>>
                ELSE IF digits = 0 THEN <<<<"0">>>> ELSE <<SubSeq(evr, 1, digits)>>,
      version |-> IF dashes = {} THEN From(evr, first)
                  ELSE SubSeq(evr, first, Max(dashes) - 1),
      release |-> IF dashes = {} THEN <<>> ELSE <<From(evr, Max(dashes) + 1)>>]

compare_values(s, t) ==
  IF s = <<>> \/ t = <<>> THEN Len(s) - Len(t) ELSE rpmvercmp(s[1], t[1])

rpmevrcmp(a, b) ==
  LET x == parseEVR(a)
      y == parseEVR(b)
      epoch == compare_values(x.epoch, y.epoch)
      version == rpmvercmp(x.version, y.version)
  IN IF epoch # 0 THEN epoch ELSE IF version # 0 THEN version
     ELSE compare_values(x.release, y.release)

oval_evr_string_cmp(state, sys, op) == ByOrder(rpmevrcmp(sys, state), op)

\* atoi of digits; a field with a sign or that overflows is left out.
Atoi(s) == FoldLeft(LAMBDA n, c : 10 * n + Code(c) - 4, 0, SubSeq(s, 1, Span(s, Digits)))

\* Past one character, the digits that follow and what ends them.
NextField(s) == From(SkipSpan(From(s, 2), Digits), 2)

RECURSIVE VersionOrder(_, _)
VersionOrder(state, syschar) ==
  IF state = <<>> /\ syschar = <<>> THEN 0
  ELSE IF Atoi(syschar) # Atoi(state) THEN Sign(Atoi(syschar) - Atoi(state))
  ELSE VersionOrder(NextField(state), NextField(syschar))

oval_versiontype_cmp(state, syschar, op) == ByOrder(VersionOrder(state, syschar), op)

-----------------------------------------------------------------------------
(* Addresses: [addr, mask], the mask a netmask (IPv4) or the length of a   *)
(* prefix (IPv6).                                                          *)

AllOnes == 2 ^ Width - 1
\* A prefix of length 0 shifts a number by all its bits: nothing or
\* everything may be left.
PrefixMask(n) == IF n = 0 THEN {0, AllOnes} ELSE {2 ^ Width - 2 ^ (Width - n)}

ipaddr_mask(af, addr, mask) ==
  IF af = 4 THEN addr & mask ELSE addr - (addr % 2 ^ (Width - mask))

oval_ipaddr_cmp(af, s1, s2, op) ==
  LET under(m1, m2) == Sign(ipaddr_mask(af, s2.addr, m2) - ipaddr_mask(af, s1.addr, m1))
  IN CASE op = "equals" -> Truth(s1 = s2)
       [] op = "not_equal" -> Truth(s1 # s2)
       [] op = "subset_of" -> Truth(s1.mask <= s2.mask /\ under(s1.mask, s1.mask) = 0)
       [] op = "superset_of" -> Truth(s1.mask >= s2.mask /\ under(s2.mask, s2.mask) = 0)
       [] OTHER -> ByOrder(under(s1.mask, s2.mask), op)

-----------------------------------------------------------------------------
(* The library: text that may not be what its type says.  Of an address    *)
(* that has been read, the record; text for floats is left out.            *)

cstr_to_intmax(s) ==
  LET digits == IF s # <<>> /\ s[1] = "-" THEN Tail(s) ELSE s
      sign == IF digits = s THEN 1 ELSE -1
  IN IF digits = <<>> \/ Span(digits, Digits) < Len(digits) \/ Atoi(digits) > IntMax
     THEN {} ELSE {sign * Atoi(digits)}

\* Anything but 1, or true, which stands for it, is false.
cstr_to_bool(s) == s = <<"1">>

oval_ent_cmp_str(state, type, sys, op) ==
  CASE type = "string" -> oval_string_cmp(state, sys, op)
    [] type = "int" ->
         IF cstr_to_intmax(state) = {} \/ cstr_to_intmax(sys) = {} THEN "error"
         ELSE CHOOSE r \in L!Result : \E m \in cstr_to_intmax(state), n \in cstr_to_intmax(sys) :
                r = oval_int_cmp(m, n, op)
    [] type = "boolean" -> oval_boolean_cmp(cstr_to_bool(state), cstr_to_bool(sys), op)
    [] type = "binary" -> oval_binary_cmp(state, sys, op)
    [] type = "evr_string" -> oval_evr_string_cmp(state, sys, op)
    [] type = "version" -> oval_versiontype_cmp(state, sys, op)
    [] type = "ipv4_address" -> oval_ipaddr_cmp(4, state, sys, op)
    [] type = "ipv6_address" -> oval_ipaddr_cmp(6, state, sys, op)
    [] type \in {"fileset_revision", "ios_version"} -> "noteval"

-----------------------------------------------------------------------------
(* The probe.                                                              *)

\* As in the library but for what no branch decides: at least one false and
\* none true, and one that is not known.
probe_ent_result_bychk(results, check) ==
  LET c == L!Count(results)
  IN IF /\ check = "at_least_one" /\ L!NoneOf(c, {"true", "error"})
        /\ c["false"] > 0 /\ ~L!Decided(c)
     THEN "unknown" ELSE L!ores_get_result_bychk(c, check)

probe_ent_result_byopr(results, op) == L!ores_get_result_byopr(L!Count(results), op)

probe_ent_cmp_single(state, type, sys, op) ==
  CASE type = "binary" -> oval_binary_cmp(state, sys, op)
    [] type = "boolean" -> oval_boolean_cmp(state, sys, op)
    [] type = "evr_string" -> oval_evr_string_cmp(state, sys, op)
    [] type = "float" -> oval_float_cmp(state, sys, op)
    [] type = "version" -> oval_versiontype_cmp(state, sys, op)
    [] type = "int" -> oval_int_cmp(state, sys, op)
    [] type = "string" -> oval_string_cmp(state, sys, op)
    [] type = "ipv4_address" -> oval_ipaddr_cmp(4, state, sys, op)
    [] type = "ipv6_address" -> oval_ipaddr_cmp(6, state, sys, op)
    [] type \in {"fileset_revision", "ios_version"} -> "error"

\* An entity: its type, operation and values, whether they are those of a
\* variable and then how many have to agree (varCheck), and how many entities
\* of an item's that have its name have to (check).
probe_ent_cmp(ent, val) ==
  IF \/ ~ent.variable /\ Len(ent.vals) # 1
     \/ \E i \in DOMAIN ent.vals : ent.vals[i].is # val.is
  THEN "error"
  ELSE LET results == [i \in DOMAIN ent.vals |->
                         probe_ent_cmp_single(ent.vals[i].v, ent.type, val.v, ent.op)]
       IN IF ent.variable THEN probe_ent_result_bychk(results, ent.varCheck)
          ELSE results[1]

\* The entities of a state and an item; of records vals are their fields.
RECURSIVE probe_entste_cmp(_, _)
probe_entste_cmp_record(ste, itm) ==
  LET named(f) == SelectSeq(itm.vals, LAMBDA g : g.name = f.name)
      result(f) == IF named(f) = <<>> THEN <<"error">>
                   ELSE [k \in DOMAIN named(f) |-> probe_entste_cmp(f, named(f)[k])]
  IN IF ste.op # "equals" \/ ste.vals = <<>> \/ itm.vals = <<>> THEN "error"
     ELSE probe_ent_result_bychk(
            [i \in DOMAIN ste.vals |->
               probe_ent_result_bychk(result(ste.vals[i]), ste.vals[i].check)], ste.check)

probe_entste_cmp(ste, itm) ==
  IF itm.status = "does_not_exist" THEN "false"
  ELSE IF itm.status \in {"error", "not_collected"} \/ ste.type # itm.type THEN "error"
  ELSE IF ste.type = "record" THEN probe_entste_cmp_record(ste, itm)
  ELSE IF ste.vals = <<>> THEN "error"
  ELSE LET r == probe_ent_cmp(ste, itm.vals[1]) IN IF r = "noteval" THEN "error" ELSE r

\* The entity of an object: nothing matches it without a value.
probe_entobj_cmp(ent, val) ==
  IF ent.vals = <<>> THEN "false"
  ELSE LET r == probe_ent_cmp(ent, val) IN IF r = "noteval" THEN "false" ELSE r
=============================================================================
