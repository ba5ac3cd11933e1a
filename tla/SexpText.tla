------------------------------ MODULE SexpText ------------------------------
(***************************************************************************)
(* S-expressions, the text SEXP_sbprintf_t makes of them for transport, and *)
(* the parser SEXP_parse, which takes the text in pieces as reads deliver   *)
(* it and keeps its place in between (SEAP/sexp-output.c, sexp-parser.c and *)
(* the sparse buffer generic/spb.c).                                        *)
(*                                                                          *)
(* A word that no parser looks into is one octet.                           *)
(***************************************************************************)
EXTENDS Integers, Sequences, FiniteSets

CONSTANT NoType     \* an S-expression without a datatype

Value(kind, n, s, l) == [kind |-> kind, n |-> n, s |-> s, l |-> l, type |-> NoType]
Num(n) == Value("number", n, <<>>, <<>>)
Str(s) == Value("string", 0, s, <<>>)
Lst(l) == Value("list", 0, <<>>, l)
Bool(b) == Value("bool", IF b THEN 1 ELSE 0, <<>>, <<>>)
Typed(e, t) == [e EXCEPT !.type = t]

-----------------------------------------------------------------------------
(* Output                                                                   *)

Digit == <<"0", "1", "2", "3", "4", "5", "6", "7", "8", "9">>
RECURSIVE Decimal(_)
Decimal(n) == IF n < 10 THEN <<Digit[n + 1]>>
              ELSE Append(Decimal(n \div 10), Digit[(n % 10) + 1])
Prefixed(s, mark) == <<"#", "d">> \o Decimal(Len(s)) \o <<mark>> \o s

\* The elements of a list follow each other without a separator: each begins
\* with an octet that ends the one before it, or is closed by a parenthesis.
RECURSIVE SEXP_sbprintf_t(_)
SEXP_sbprintf_t(e) ==
  LET RECURSIVE All(_)
      All(l) == IF l = <<>> THEN <<>> ELSE SEXP_sbprintf_t(Head(l)) \o All(Tail(l))
  IN (IF e.type = NoType THEN <<>> ELSE Append(Prefixed(e.type, "["), "]"))
     \o CASE e.kind = "bool" -> <<"#", IF e.n = 1 THEN "T" ELSE "F">>
          [] e.kind = "number" -> <<"#", "d">> \o (IF e.n < 0 THEN <<"-">> \o Decimal(-e.n)
                                                   ELSE Decimal(e.n))
          [] e.kind = "string" -> Prefixed(e.s, ":")
          [] e.kind = "list" -> <<"(">> \o All(e.l) \o <<")">>

-----------------------------------------------------------------------------
(* The parser's state: the text so far, the place where the expression in   *)
(* hand begins, how much of it has been looked at, what it seems to be, its *)
(* datatype, and the lists that are open, the outermost holding the result. *)
(* next says where to go on in the loop, ret is ret_p.                      *)

NoState == [off |-> -1]
SEXP_pstate_new(text) ==
  [buf |-> text, off |-> 0, len |-> 0, label |-> "none", class |-> "none", type |-> NoType,
   open |-> <<[type |-> NoType, l |-> <<>>]>>, next |-> "exp", ret |-> "undef"]

Size(p) == Len(p.buf)
At(p, i) == p.buf[i + 1]
Cut(p, from, n) == SubSeq(p.buf, from + 1, from + n)
Digits == {Digit[i] : i \in DOMAIN Digit}
Whitespace == {" ", "\n"}
isnextexp(c) == c \in Whitespace \cup {"\"", "#", "'", "(", ")", "[", "]", "|", "{", "}"}
\* Inside a list the end of the text is not the end of what it ends with.
EofOk(p) == Len(p.open) = 1

Stop(p, ret) == [p EXCEPT !.next = "stop", !.ret = ret]
Goto(p, label) == [p EXCEPT !.next = label]
Loop(p, ret) == [p EXCEPT !.next = "exp", !.ret = ret]

\* Where the run of octets that satisfy Test ends, Size if it does not.
EndOfRun(p, from, Test(_)) ==
  LET ends == {i \in from .. Size(p) - 1 : ~Test(At(p, i))}
  IN IF ends = {} THEN Size(p) ELSE CHOOSE i \in ends : \A j \in ends : i <= j

RECURSIVE Number(_)
Number(s) ==
  IF s = <<>> THEN 0
  ELSE 10 * Number(SubSeq(s, 1, Len(s) - 1)) + (CHOOSE d \in 0 .. 9 : Digit[d + 1] = s[Len(s)])

Add(p, e) ==
  LET n == Len(p.open)
  IN Loop([p EXCEPT !.open[n].l = Append(@, Typed(e, p.type)), !.type = NoType,
                    !.off = @ + p.len, !.len = 0, !.class = "none"], "success")

-----------------------------------------------------------------------------
(* The kinds of expressions                                                 *)

SEXP_parse_ul_string_si(p) ==
  LET end == EndOfRun(p, p.off + (IF p.len = 0 THEN 1 ELSE p.len), LAMBDA c : ~isnextexp(c))
      q == [p EXCEPT !.len = end - p.off, !.label = "char"]
  IN IF end = Size(p) /\ ~EofOk(p) THEN Stop(q, "unfinished")
     ELSE Add(q, Str(Cut(p, p.off, q.len)))

\* spb_pick finds no buffer for a place behind the last octet, not even to
\* pick nothing from it.
SEXP_parse_kl_string(p) ==
  LET q == [p EXCEPT !.label = "char_fixed"]
  IN IF p.off + p.len > Size(p) THEN Stop(q, "unfinished")
     ELSE IF p.off = Size(p) THEN Stop(q, "undef")
     ELSE Add(q, Str(Cut(p, p.off, p.len)))

SEXP_parse_ul_datatype(p) ==
  LET end == EndOfRun(p, p.off + (IF p.len = 0 THEN 1 ELSE p.len), LAMBDA c : c # "]")
      q == [p EXCEPT !.len = end - p.off, !.label = "dtype"]
  IN IF end = Size(p) THEN Stop(q, "unfinished")
     ELSE Loop([q EXCEPT !.type = Cut(p, p.off + 1, end - p.off - 1), !.off = end + 1,
                         !.len = 0], "unfinished")

\* A variant that does not wait for the closing bracket.
SEXP_parse_kl_datatype_Short(p) ==
  LET q == [p EXCEPT !.label = "dtype_fixed"]
  IN IF p.off + p.len + 1 > Size(p) THEN Stop(q, "unfinished")
     ELSE Loop([q EXCEPT !.type = Cut(p, p.off + 1, p.len), !.off = @ + p.len + 2, !.len = 0],
               "unfinished")

SEXP_parse_kl_datatype(p) ==
  LET q == [p EXCEPT !.label = "dtype_fixed"]
  IN IF p.off + p.len + 2 > Size(p) THEN Stop(q, "unfinished")
     ELSE Loop([q EXCEPT !.type = Cut(p, p.off + 1, p.len), !.off = @ + p.len + 2, !.len = 0],
               "unfinished")

\* A number may turn out to be the length of what follows.
NumberEnds(p) ==
  LET text == Cut(p, p.off, p.len)
      follows == IF p.off + p.len < Size(p) THEN At(p, p.off + p.len) ELSE "end"
  IN IF p.class = "uint" /\ follows = ":"
     THEN Goto([p EXCEPT !.off = @ + p.len + 1, !.len = Number(text), !.class = "prefix"], "char_fixed")
     ELSE IF p.class = "uint" /\ follows = "["
     THEN Goto([p EXCEPT !.off = @ + p.len, !.len = Number(text), !.class = "prefix"], "dtype_fixed")
     ELSE IF follows # "end" /\ ~isnextexp(follows) THEN Stop(p, "invalid")
     ELSE Add(p, Num(IF p.class = "int" THEN -Number(Tail(text)) ELSE Number(text)))

ContinueNumber(p) ==
  LET end == EndOfRun(p, p.off + p.len, LAMBDA c : c \in Digits)
      q == [p EXCEPT !.len = end - p.off, !.label = "number"]
  IN IF end = Size(p) /\ ~EofOk(p) THEN Stop(q, "unfinished") ELSE NumberEnds(q)

StartNumber(p) ==
  IF p.len > 0 THEN ContinueNumber(p)
  ELSE ContinueNumber([p EXCEPT !.len = 1, !.class = IF @ = "int" THEN @ ELSE "uint"])

Minus(p) ==
  IF p.off + 1 < Size(p) /\ At(p, p.off + 1) \in Digits
  THEN ContinueNumber([p EXCEPT !.class = "int", !.len = @ + 1])
  ELSE IF p.off + 1 < Size(p) \/ EofOk(p) THEN SEXP_parse_ul_string_si([p EXCEPT !.len = @ + 1])
  ELSE Stop(p, "unfinished")

\* #T and #F, or # and the base of the number that follows.
Hash(p) ==
  IF p.off + 1 >= Size(p) THEN Stop(p, "unfinished")
  ELSE LET c == At(p, p.off + 1) IN
    IF c \in {"T", "F"} THEN Add([p EXCEPT !.off = @ + 1, !.len = 1], Bool(c = "T"))
    ELSE IF c \notin {"b", "d", "x", "o"} THEN Stop(p, "invalid")
    ELSE IF p.off + 2 >= Size(p) THEN Stop(p, "unfinished")
    ELSE LET q == [p EXCEPT !.off = @ + 2] IN
      IF At(q, q.off) = "-" THEN Goto(q, "minus")
      ELSE IF At(q, q.off) \in Digits THEN Goto(q, "number")
      ELSE Stop(q, "invalid")

SkipWhitespace(p) ==
  LET end == EndOfRun(p, p.off, LAMBDA c : c \in Whitespace)
      q == [p EXCEPT !.off = end]
  IN IF end = Size(p) THEN Stop(q, "success") ELSE Goto(q, "exp")

OpenList(p) ==
  Loop([p EXCEPT !.open = Append(@, [type |-> p.type, l |-> <<>>]), !.type = NoType,
                 !.off = @ + 1], "unfinished")

CloseList(p) ==
  LET n == Len(p.open)
      list == Typed(Lst(p.open[n].l), p.open[n].type)
  IN IF p.type # NoType \/ n = 1 THEN Stop(p, "invalid")
     ELSE Loop([p EXCEPT !.open = [SubSeq(@, 1, n - 1) EXCEPT ![n - 1].l = Append(@, list)],
                         !.off = @ + 1], "success")

\* The table of labels; floating point, quotes, base64 and what the parser
\* denies are beyond what SEXP_sbprintf_t writes.
Dispatch(p) ==
  IF p.off >= Size(p) THEN [p EXCEPT !.next = "stop"]
  ELSE LET c == At(p, p.off) IN
    [p EXCEPT !.ret = "undef",
       !.next = CASE c \in Whitespace -> "whitespace" [] c = "#" -> "hash"
                  [] c = "(" -> "paropen" [] c = ")" -> "parclose" [] c = "[" -> "dtype"
                  [] c = "-" -> "minus" [] c \in Digits -> "number"
                  [] c \in {"]", "}", ","} -> "stop" [] OTHER -> "char"]

Step(p) ==
  CASE p.next = "exp" -> Dispatch(p)
    [] p.next = "char" -> SEXP_parse_ul_string_si(p)
    [] p.next = "char_fixed" -> SEXP_parse_kl_string(p)
    [] p.next = "number" -> StartNumber(p)
    [] p.next = "minus" -> Minus(p)
    [] p.next = "hash" -> Hash(p)
    [] p.next = "whitespace" -> SkipWhitespace(p)
    [] p.next = "paropen" -> OpenList(p)
    [] p.next = "parclose" -> CloseList(p)
    [] p.next = "dtype" -> SEXP_parse_ul_datatype(p)
    [] p.next = "dtype_fixed" -> SEXP_parse_kl_datatype(p)

\* Use(e), with e computed once.
With(e, Use(_)) == CHOOSE r \in {Use(x) : x \in {e}} : TRUE

RECURSIVE RunParser(_)
RunParser(p) == IF p.next = "stop" THEN p ELSE With(Step(p), RunParser)

\* One call: a new piece of text for the state of the calls before, NoState
\* if there were none. The result is a list, a state to go on with, or an
\* error.
SEXP_parse(state, piece) ==
  LET begun == IF state = NoState THEN SEXP_pstate_new(piece)
               ELSE [state EXCEPT !.buf = @ \o piece, !.ret = "undef",
                                  !.next = IF state.len > 0 THEN state.label ELSE "exp"]
      Outcome(p) ==
        IF p.ret = "success" /\ Len(p.open) = 1
        THEN [is |-> "list", list |-> p.open[1].l, state |-> NoState]
        ELSE [is |-> IF p.ret \in {"success", "unfinished"} THEN "unfinished" ELSE "error",
              list |-> <<>>, state |-> p]
  IN With(With(begun, RunParser), Outcome)
=============================================================================
