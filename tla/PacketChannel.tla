---------------------------- MODULE PacketChannel ----------------------------
(***************************************************************************)
(* What the users of SEAP are promised about the packets that other threads *)
(* of the peer send them: they come whole, once and in the order they were  *)
(* sent in. When several come at the same time only the first is sure to    *)
(* arrive. Once the channel has failed nothing arrives any more.            *)
(***************************************************************************)
EXTENDS Naturals, Sequences

CONSTANT Packets

VARIABLES sent, received, next, up
vars == <<sent, received, next, up>>

Init == sent = <<>> /\ received = <<>> /\ next = 0 /\ up = TRUE

Send == /\ \E p \in Packets : sent' = Append(sent, p)
        /\ UNCHANGED <<received, next, up>>

Receive(together) ==
  /\ up /\ next + together <= Len(sent)
  /\ received' = Append(received, sent[next + 1])
  /\ next' = next + together
  /\ UNCHANGED <<sent, up>>

Fail == up /\ up' = FALSE /\ UNCHANGED <<sent, received, next>>

Next == Send \/ Fail \/ \E together \in 1 .. Len(sent) : Receive(together)

Spec == Init /\ [][Next]_vars
=============================================================================
