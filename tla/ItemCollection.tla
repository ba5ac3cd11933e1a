--------------------------- MODULE ItemCollection ---------------------------
(***************************************************************************)
(* What the item cache of a probe promises to the evaluation threads,      *)
(* without queue, locks or hash tree.  Every thread hands over items for   *)
(* its own collected object; each of them shows up there exactly once and  *)
(* in the order it was handed over; items with equal content carry the     *)
(* same unique id in whatever object they appear; and a thread is told     *)
(* that it is synchronised only when nothing it sent is still on the way.  *)
(***************************************************************************)
EXTENDS Naturals, Sequences

CONSTANTS Threads,    \* evaluation threads, one collected object each
          Contents    \* item contents (everything but the item's id)

VARIABLES sent,       \* sent[t]: contents handed over by t, in order
          collected,  \* collected[t]: items in t's object, [content, id]
          known,      \* the items that already have an id
          synced      \* threads that own their object again

vars == <<sent, collected, known, synced>>

Init == /\ sent = [t \in Threads |-> <<>>]
        /\ collected = [t \in Threads |-> <<>>]
        /\ known = {}
        /\ synced = {}

Send(t, c) == /\ t \notin synced
              /\ sent' = [sent EXCEPT ![t] = Append(@, c)]
              /\ UNCHANGED <<collected, known, synced>>

\* The next item of t reaches the object: with the id its content already
\* has, or with an id nothing else has.
Deliver(t) ==
  /\ t \notin synced
  /\ Len(collected[t]) < Len(sent[t])
  /\ \E item \in known' :
        /\ item.content = sent[t][Len(collected[t]) + 1]
        /\ collected' = [collected EXCEPT ![t] = Append(@, item)]
        /\ \/ item \in known /\ known' = known
           \/ /\ \A k \in known : k.content # item.content /\ k.id # item.id
              /\ known' = known \cup {item}
  /\ UNCHANGED <<sent, synced>>

Delivered(t) == /\ Len(collected[t]) = Len(sent[t])
                /\ \A n \in DOMAIN sent[t] :
                      collected[t][n].content = sent[t][n]

Sync(t) == /\ t \notin synced
           /\ Delivered(t)
           /\ synced' = synced \cup {t}
           /\ UNCHANGED <<sent, collected, known>>

\* A thread that synchronised because memory ran low goes on collecting.
Continue(t) == /\ t \in synced
               /\ synced' = synced \ {t}
               /\ UNCHANGED <<sent, collected, known>>

Next == \E t \in Threads : \/ \E c \in Contents : Send(t, c)
                           \/ Deliver(t)
                           \/ Sync(t)
                           \/ Continue(t)

Spec == Init /\ [][Next]_vars
=============================================================================
