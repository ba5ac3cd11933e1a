---------------------------- MODULE MCSeapStream ----------------------------
(***************************************************************************)
(* SeapStream for TLC: one thread sends the reply to a request, with an     *)
(* empty string, a negative number and a datatype in it, another a command  *)
(* and an error.                                                            *)
(***************************************************************************)
EXTENDS SeapStream, TLC

CONSTANTS w1, w2

Reply == Message(1, <<Attr("x", <<Str(<<>>)>>), Attr("flag", <<>>)>>, <<Typed(Lst(<<Num(-10)>>), <<"t">>)>>)
Failure == Error(3, ETypeUser, 12, <<>>)
Call == Command(2, <<>>, "usr", TRUE, 1, <<Lst(<<>>)>>)
TheWriters == {w1, w2}
TheScript == (w1 :> <<Reply>>) @@ (w2 :> <<Call, Failure>>)

\* Each kind of packet is what it was after it has been an S-expression.
Samples ==
  {Reply, Failure, Message(3, <<>>, <<>>), Error(4, ETypeInt, EUnknown, <<Num(0)>>),
   Call, Command(6, <<5>>, "int", FALSE, 2, <<>>)}
ASSUME PacketsComeBack ==
  \A p \in Samples : SexpToPacket(SEAP_packet2sexp(p)) = Received(p)

\* An attribute with a value cannot be found by its name where it arrives
\* (seap-packet.c:174).
ASSUME NamesAreLost ==
  LET attrs == SexpToPacket(SEAP_packet2sexp(Reply)).attrs
  IN {attrs[i].name : i \in DOMAIN attrs} = {NoName, "flag"}
=============================================================================
