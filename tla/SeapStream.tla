----------------------------- MODULE SeapStream -----------------------------
(***************************************************************************)
(* One direction of a SEAP connection: threads of a probe that send packets *)
(* (SEAP_packet_send), the octets on their way, and the library that takes  *)
(* packets from them (SEAP_packet_recv over sch_pipe). A packet is written  *)
(* in pieces, and what one read returns may end anywhere.                   *)
(*                                                                          *)
(* There is one receiver, so the recursive r_lock never keeps it waiting.   *)
(***************************************************************************)
EXTENDS SeapPacket

CONSTANTS Writers,      \* the threads that send
          Script,       \* the packets that each of them sends
          PipeSize,     \* the octets that fit between write and read
          RecvBufSize,  \* SEAP_RECVBUF_SIZE
          NoWriter

ASSUME StreamAssumption ==
  /\ PipeSize \in Nat \ {0} /\ RecvBufSize \in Nat \ {0} /\ NoWriter \notin Writers

VARIABLES todo,      \* [Writers -> the packets left to send]
          wlock,     \* who holds w_lock
          out,       \* the octets its packet has left to write
          pipe,      \* written and not read
          peer,      \* of the probe: "up", its descriptors are "closed", it is "dead"
          state,     \* the parser's, between two reads of one call
          status,    \* "up", or how SEAP_packet_recv failed
          delivered, \* what SEAP_packet_recv returned
          sent,      \* the packets written to the end
          taken      \* how many packets the parser has finished

vars == <<todo, wlock, out, pipe, peer, state, status, delivered, sent, taken>>
writer == <<todo, wlock, out, sent>>

Init ==
  /\ todo = Script /\ wlock = NoWriter /\ out = <<>> /\ pipe = <<>> /\ peer = "up"
  /\ state = NoState /\ status = "up" /\ delivered = <<>> /\ sent = <<>> /\ taken = 0

-----------------------------------------------------------------------------
(* The probe                                                                *)

\* A variant that does not take w_lock.
Lock_Not(w) ==
  /\ peer = "up" /\ todo[w] # <<>> /\ wlock # w
  /\ wlock' = w
  /\ out' = SEXP_sbprintf_t(SEAP_packet2sexp(Head(todo[w])))
  /\ UNCHANGED <<todo, sent, pipe, peer, state, status, delivered, taken>>

Lock(w) ==
  /\ peer = "up" /\ todo[w] # <<>> /\ wlock = NoWriter
  /\ wlock' = w
  /\ out' = SEXP_sbprintf_t(SEAP_packet2sexp(Head(todo[w])))
  /\ UNCHANGED <<todo, sent, pipe, peer, state, status, delivered, taken>>

Write(k) ==
  /\ peer = "up" /\ k <= Len(out) /\ k <= PipeSize - Len(pipe)
  /\ pipe' = pipe \o SubSeq(out, 1, k)
  /\ out' = SubSeq(out, k + 1, Len(out))
  /\ sent' = IF k = Len(out) THEN Append(sent, Received(Head(todo[wlock]))) ELSE sent
  /\ UNCHANGED <<todo, wlock, peer, state, status, delivered, taken>>

Unlock ==
  /\ peer = "up" /\ wlock # NoWriter /\ out = <<>>
  /\ todo' = [todo EXCEPT ![wlock] = Tail(@)]
  /\ wlock' = NoWriter
  /\ UNCHANGED <<out, sent, pipe, peer, state, status, delivered, taken>>

\* A process that exits closes its descriptors before it can be waited for.
PeerCloses ==
  /\ peer = "up" /\ peer' = "closed"
  /\ UNCHANGED <<writer, pipe, state, status, delivered, taken>>

PeerDies ==
  /\ peer = "closed" /\ peer' = "dead"
  /\ UNCHANGED <<writer, pipe, state, status, delivered, taken>>

-----------------------------------------------------------------------------
(* The library                                                              *)

Deliver(p) == delivered' = Append(delivered, p) /\ UNCHANGED status
FailWith(errno) == status' = errno /\ UNCHANGED delivered

\* A variant that takes the last of the packets that came together.
TakePackets_Last(list) ==
  IF SexpToPacket(list[Len(list)]) = Invalid THEN FailWith("EINVAL") /\ UNCHANGED taken
  ELSE Deliver(SexpToPacket(list[Len(list)])) /\ taken' = taken + Len(list)

\* SEXP_list_pop frees the block that holds the list's elements with the
\* first one. The loop then finds no second packet, or what has taken the
\* place of the block, or it crashes.
TakePackets(list) ==
  IF SexpToPacket(list[1]) = Invalid THEN FailWith("EINVAL") /\ UNCHANGED taken
  ELSE \/ Deliver(SexpToPacket(list[1])) /\ taken' = taken + Len(list)
       \/ /\ Len(list) > 1
          /\ \E errno \in {"EINVAL", "crashed"} : FailWith(errno)
          /\ UNCHANGED taken

Read ==
  /\ status = "up" /\ peer # "dead" /\ pipe # <<>>
  /\ LET n == IF Len(pipe) < RecvBufSize THEN Len(pipe) ELSE RecvBufSize
     IN \E parsed \in {SEXP_parse(state, SubSeq(pipe, 1, n))} :
        /\ pipe' = SubSeq(pipe, n + 1, Len(pipe))
        /\ state' = parsed.state
        /\ CASE parsed.is = "error" -> FailWith("EILSEQ") /\ UNCHANGED taken
             [] parsed.is = "list" /\ parsed.list # <<>> -> TakePackets(parsed.list)
             [] OTHER -> UNCHANGED <<status, delivered, taken>>
  /\ UNCHANGED <<writer, peer>>

\* A variant that does not expect the end within an S-expression.
ReadEOF_OnlyIdle ==
  /\ status = "up" /\ peer = "closed" /\ pipe = <<>> /\ state = NoState
  /\ status' = "ECONNABORTED"
  /\ UNCHANGED <<writer, pipe, peer, state, delivered, taken>>

ReadEOF ==
  /\ status = "up" /\ peer = "closed" /\ pipe = <<>>
  /\ status' = IF state = NoState THEN "ECONNABORTED" ELSE "ENETRESET"
  /\ UNCHANGED <<writer, pipe, peer, state, delivered, taken>>

\* sch_pipe asks for the child's death before it looks at what is left to read.
PeerIsDead ==
  /\ status = "up" /\ peer = "dead"
  /\ status' = "dead"
  /\ UNCHANGED <<writer, pipe, peer, state, delivered, taken>>

\* Only the wait for the rest of an S-expression has a limit, recv_timeout.
RecvTimesOut ==
  /\ status = "up" /\ peer = "up" /\ pipe = <<>> /\ state # NoState
  /\ status' = "ETIMEDOUT"
  /\ UNCHANGED <<writer, pipe, peer, state, delivered, taken>>

Next ==
  \/ \E w \in Writers : Lock(w)
  \/ \E k \in 1 .. PipeSize : Write(k)
  \/ Unlock
  \/ PeerCloses
  \/ PeerDies
  \/ Read
  \/ ReadEOF
  \/ PeerIsDead
  \/ RecvTimesOut

\* The probe's threads run, and the library receives until it gets an answer.
Fairness ==
  /\ WF_vars(\E w \in Writers : Lock(w)) /\ WF_vars(\E k \in 1 .. PipeSize : Write(k))
  /\ WF_vars(Unlock)
  /\ WF_vars(Read) /\ WF_vars(ReadEOF) /\ WF_vars(PeerIsDead)

Spec == Init /\ [][Next]_vars /\ Fairness

-----------------------------------------------------------------------------
(* What holds                                                               *)

\* The parser's place is within the text, each expression it is in has been
\* looked at no further than the text goes, and octets are left to write only
\* while w_lock is held (SEXP_pstate_t, SEAP_packet_send).
TypeOK ==
  /\ wlock \in Writers \cup {NoWriter} /\ (out # <<>> => wlock # NoWriter)
  /\ Len(pipe) <= PipeSize
  /\ peer \in {"up", "closed", "dead"}
  /\ status \in {"up", "EILSEQ", "EINVAL", "crashed", "ECONNABORTED", "ENETRESET", "dead", "ETIMEDOUT"}
  /\ Len(delivered) <= taken /\ taken <= Len(sent)
  /\ state = NoState \/ (state.off <= Size(state) /\ state.open # <<>>)

\* A valid stream is refused as invalid only when a read ended right after the
\* prefix of an empty string (SEXP_parse_kl_string, spb_pick), and a packet only
\* when others came with it (SEAP_packet_recv, SEXP_list_pop).
EmptyString == <<"#", "d", "0", ":">>
EndsWith(text, s) == Len(text) >= Len(s) /\ SubSeq(text, Len(text) - Len(s) + 1, Len(text)) = s
OnlyKnownFailures ==
  /\ status = "EILSEQ" => EndsWith(state.buf, EmptyString)
  /\ status \in {"EINVAL", "crashed"} => Len(sent) >= taken + 2

\* Whatever the pieces, packets arrive whole, once and in the order they were
\* sent in; those lost without a failure came in the same reads as another
\* (SEAP_packet_send, SEAP_packet_recv).
Channel == INSTANCE PacketChannel WITH
  Packets <- {Received(Script[w][i]) : <<w, i>> \in {<<w, i>> \in Writers \X (1 .. 3) : i <= Len(Script[w])}},
  sent <- sent, received <- delivered, next <- taken, up <- (status = "up")
ImplementsChannel == Channel!Spec

\* A packet that was written to its end is taken from the stream, or the
\* receiver is told of a failure, also when the packet waits in the parser for
\* the rest of the next one (SEAP_packet_recv).
PacketsAreTaken ==
  \A k \in 1 .. 3 : Len(sent) >= k ~> (taken >= k \/ status # "up")
=============================================================================
