----------------------------- MODULE SeapPacket -----------------------------
(***************************************************************************)
(* What SEAP exchanges: messages, commands and errors, as S-expressions and *)
(* back (SEAP/seap-packet.c). Absent data is the empty sequence, data that  *)
(* is there a sequence of one.                                              *)
(***************************************************************************)
EXTENDS SexpText

Maybe(list, n) == IF n \in DOMAIN list THEN <<list[n]>> ELSE <<>>
Name(word) == <<":", word>>
NoName == "NULL"

Message(id, attrs, data) == [type |-> "msg", id |-> id, attrs |-> attrs, data |-> data]
Attr(name, value) == [name |-> name, value |-> value]
Command(id, rid, class, sync, code, args) ==
  [type |-> "cmd", id |-> id, rid |-> rid, class |-> class, sync |-> sync, code |-> code,
   args |-> args]
Error(id, type, code, data) == [type |-> "err", id |-> id, etype |-> type, code |-> code, data |-> data]
Invalid == [type |-> "invalid"]
ETypeInt == 0
ETypeUser == 1
EUnknown == 255

-----------------------------------------------------------------------------
(* From a packet to an S-expression                                         *)

RECURSIVE AttrsToSexp(_)
AttrsToSexp(attrs) ==
  IF attrs = <<>> THEN <<>>
  ELSE (IF Head(attrs).value = <<>> THEN <<Str(<<Head(attrs).name>>)>>
        ELSE <<Str(Name(Head(attrs).name)), Head(attrs).value[1]>>)
       \o AttrsToSexp(Tail(attrs))

SEAP_packet_msg2sexp(m) ==
  Lst(<<Str(<<"seap.msg">>), Str(Name("id")), Num(m.id)>> \o AttrsToSexp(m.attrs)
      \o (IF m.data = <<>> THEN <<Lst(<<>>)>> ELSE m.data))

SEAP_packet_cmd2sexp(c) ==
  Lst(<<Str(<<"seap.cmd">>), Str(Name("id")), Num(c.id)>>
      \o (IF c.rid = <<>> THEN <<>> ELSE <<Str(Name("reply_id")), Num(c.rid[1])>>)
      \o <<Str(Name("class")), Str(<<c.class>>), Str(Name("type")),
           Str(<<IF c.sync THEN "sync" ELSE "async">>), Num(c.code)>>
      \o c.args)

SEAP_packet_err2sexp(e) ==
  Lst(<<Str(<<"seap.err">>), Str(Name("orig_id")), Num(e.id), Str(Name("type")), Num(e.etype),
        Num(e.code)>> \o e.data)

SEAP_packet2sexp(p) ==
  CASE p.type = "msg" -> SEAP_packet_msg2sexp(p)
    [] p.type = "cmd" -> SEAP_packet_cmd2sexp(p)
    [] p.type = "err" -> SEAP_packet_err2sexp(p)

-----------------------------------------------------------------------------
(* And back                                                                 *)

IsName(e) == e.kind = "string" /\ e.s # <<>> /\ Head(e.s) = ":"

\* The name of an attribute without a value, one symbol.
SEXP_string_cstr(e) == IF e.kind = "string" /\ e.s # <<>> THEN e.s[1] ELSE NoName

\* From the n-th element to the one before the data: the id and the
\* attributes, those with a colon followed by a value. SEXP_string_subcstr is
\* asked for 0 octets of the name of these and gives none.
RECURSIVE SexpToAttrs(_, _, _)
SexpToAttrs(l, n, m) ==
  IF n >= Len(l) THEN m
  ELSE IF ~IsName(l[n])
  THEN SexpToAttrs(l, n + 1, [m EXCEPT !.attrs = Append(@, Attr(SEXP_string_cstr(l[n]), <<>>))])
  ELSE IF l[n].s = Name("id")
  THEN IF l[n + 1].kind # "number" THEN Invalid ELSE SexpToAttrs(l, n + 2, [m EXCEPT !.id = l[n + 1].n])
  ELSE SexpToAttrs(l, n + 2, [m EXCEPT !.attrs = Append(@, Attr(NoName, <<l[n + 1]>>))])

SEAP_packet_sexp2msg(l) == SexpToAttrs(l, 2, Message(0, <<>>, <<l[Len(l)]>>))

\* Names that are not known are skipped with their values. found says whether
\* there was an id.
RECURSIVE SexpToCmd(_, _, _, _)
SexpToCmd(l, n, c, found) ==
  IF n > Len(l) \/ (~IsName(l[n]) /\ (~found \/ l[n].kind # "number")) THEN Invalid
  ELSE IF ~IsName(l[n]) THEN [c EXCEPT !.code = l[n].n, !.args = Maybe(l, n + 1)]
  ELSE IF n = Len(l) THEN Invalid
  ELSE LET v == l[n + 1]
           id == l[n].s = Name("id") /\ v.kind = "number"
           rid == l[n].s = Name("reply_id") /\ v.kind = "number"
           usr == l[n].s = Name("class") /\ v = Str(<<"usr">>)
           sync == l[n].s = Name("type") /\ v = Str(<<"sync">>)
       IN SexpToCmd(l, n + 2, [c EXCEPT !.id = IF id THEN v.n ELSE @,
                                        !.rid = IF rid THEN <<v.n>> ELSE @,
                                        !.class = IF usr THEN "usr" ELSE @,
                                        !.sync = IF sync THEN TRUE ELSE @],
                    found \/ id)

SEAP_packet_sexp2cmd(l) == SexpToCmd(l, 2, Command(0, <<>>, "int", FALSE, 0, <<>>), FALSE)

RECURSIVE SexpToErr(_, _, _)
SexpToErr(l, n, e) ==
  IF n > Len(l) THEN e
  ELSE IF l[n].kind = "number" THEN [e EXCEPT !.code = l[n].n, !.data = Maybe(l, n + 1)]
  ELSE IF ~IsName(l[n]) \/ n = Len(l) THEN Invalid
  ELSE IF l[n + 1].kind # "number" THEN Invalid
  ELSE IF l[n].s = Name("orig_id") THEN SexpToErr(l, n + 2, [e EXCEPT !.id = l[n + 1].n])
  ELSE IF l[n].s = Name("type") /\ l[n + 1].n \in {ETypeInt, ETypeUser}
  THEN SexpToErr(l, n + 2, [e EXCEPT !.etype = l[n + 1].n])
  ELSE Invalid

SEAP_packet_sexp2err(l) == SexpToErr(l, 2, Error(0, ETypeInt, EUnknown, <<>>))

SexpToPacket(e) ==
  IF e.kind # "list" THEN Invalid
  ELSE IF Len(e.l) < 2 THEN Invalid
  ELSE CASE e.l[1] = Str(<<"seap.msg">>) -> SEAP_packet_sexp2msg(e.l)
         [] e.l[1] = Str(<<"seap.cmd">>) -> SEAP_packet_sexp2cmd(e.l)
         [] e.l[1] = Str(<<"seap.err">>) -> SEAP_packet_sexp2err(e.l)
         [] OTHER -> Invalid

\* What the receiver has of a packet: a message without data has an empty
\* list for data, an attribute with a value no name.
Received(p) ==
  IF p.type # "msg" THEN p
  ELSE [p EXCEPT !.data = IF @ = <<>> THEN <<Lst(<<>>)>> ELSE @,
                 !.attrs = [i \in DOMAIN @ |-> IF @[i].value = <<>> THEN @[i] ELSE Attr(NoName, @[i].value)]]
=============================================================================
