---------------------------- MODULE ProbeProofs ----------------------------
(***************************************************************************)
(* Proofs about Probe.  Library, pipe, input thread and workers pass one   *)
(* turn around: the inductive invariant IInv says who has it, about which  *)
(* call, and what that leaves of every worker, of the tree and of the      *)
(* shutdown.  The invariants of Probe and its refinement of ProbeService   *)
(* follow from it.                                                         *)
(***************************************************************************)
EXTENDS Probe, TLAPS, SequenceTheorems

\* A worker that works on its request, one that waits for the reply to its
\* command, and one that was cancelled before its answer.
Busy == {"start", "send", "write", "woken", "main", "put", "sync", "done",
         "cache", "reply", "rwrite"}
Waiting == {"sent", "wait"}
Stopped == {"dead", "joined"}

LibraryTurn == calls = <<>> \/ serving
InputTurn == input \in {"wake", "handle", "spawn", "answer"}

Asked(r) == \E k \in DOMAIN calls : calls[k] = r

\* At most one of the library, the two directions of the pipe, the input
\* thread and the workers has the turn, and the pipe holds one message.
OneTurn ==
    /\ Len(down) <= 1 /\ Len(up) <= 1
    /\ LibraryTurn => down = <<>> /\ up = <<>> /\ ~InputTurn
    /\ down # <<>> => up = <<>> /\ ~InputTurn
    /\ up # <<>> => ~InputTurn
    /\ \A r \in Requests : pc[r] \in Busy =>
           ~LibraryTurn /\ down = <<>> /\ up = <<>> /\ ~InputTurn

\* Who has the turn has it for the last open call.
TurnOfTop ==
    /\ down # <<>> => down[1].r = Top
    /\ up # <<>> => up[1].r = Top
    /\ InputTurn => msg = Top
    /\ \A r \in Requests : pc[r] \in Busy => Top = r

\* A request nobody has worked on, one whose worker stands still.
Fresh(r) ==
    r \in Requests /\ rec[r] = "none" /\ pc[r] = "none" /\ answers[r] = 0
Parked(r) ==
    r \in Requests /\ pc[r] \in Waiting \union Stopped /\ answers[r] = 0

DownInv ==
    down # <<>> => \/ down[1].t = "msg" /\ Fresh(down[1].r)
                   \/ down[1].t = "reply" /\ Parked(down[1].r)
                   \/ down[1].t = "reset" /\ down[1].r = "none"

UpInv ==
    up # <<>> => \/ /\ up[1].t = "answer" /\ up[1].r \in Requests
                    /\ answers[up[1].r] = 1
                 \/ up[1].t = "cmd" /\ Parked(up[1].r)
                 \/ up[1].t = "done" /\ up[1].r = "none"

InputInv ==
    /\ input = "wake" => Parked(msg)
    /\ input = "handle" => Fresh(msg)
    /\ input \in {"spawn", "answer"} =>
           msg \in Requests /\ pc[msg] = "none" /\ answers[msg] = 0
    /\ input = "spawn" => rec[msg] = "live" /\ ObjectOf[msg] \notin known

\* The open calls are about different objects; all but the last, and the last
\* while a command of it is served, are of workers that wait.
CallsInv ==
    /\ serving => calls # <<>> /\ Parked(Top)
    /\ \A k \in DOMAIN calls :
           /\ k < Len(calls) => Parked(calls[k])
           /\ calls[k] = "none" => Len(calls) = 1 /\ resets > 0
    /\ \A j, k \in DOMAIN calls :
           j # k => ObjectOf[calls[j]] # ObjectOf[calls[k]]

\* A worker works for an open call, on an object that has no result yet.
WorkerInv ==
    \A r \in Requests :
        /\ UsesCaches(r) => Asked(r) /\ answers[r] = 0
        /\ UsesCaches(r) /\ pc[r] \notin {"reply", "rwrite"} =>
               ObjectOf[r] \notin known
        /\ pc[r] = "free" /\ Running => answers[r] = 1
        /\ pc[r] # "none" => rec[r] # "none"
        /\ answers[r] <= 1

TreeInv ==
    /\ \A r \in tree :
           /\ rec[r] # "none"
           /\ rec[r] = "live" \/ pc[r] = "joined"
           /\ \/ pc[r] \in Waiting \union Stopped
              \/ pc[r] \in Busy \ {"cache", "reply", "rwrite"}
              \/ pc[r] = "none" /\ input = "spawn" /\ msg = r
    /\ handler \in {"wait", "walk"} =>
           \A r \in Requests : pc[r] # "joined"

\* What holds until a signal arrives, and of what its handler collects.
SignalInv ==
    /\ handler = "wait" =>
           walk = {} /\ coll = <<>> /\ cancelled = {} /\ ~orphan
    /\ handler = "wait" \/ inputCancel
    /\ ~pending => handler = "wait"
    /\ alive # "open" => pending
    /\ \A r \in cancelled : pc[r] # "none"
    /\ \A r \in Requests : pc[r] = "dead" => r \in cancelled
    /\ bad \subseteq Tolerated =>
           \A k \in DOMAIN coll : pc[coll[k]] # "none"
    /\ ncache = "dangling" => resets > 0

\* A close between two queries finds no worker.
CloseInv ==
    alive = "closing" =>
        /\ calls = <<>> /\ tree = {} /\ cancelled = {} /\ ~orphan
        /\ walk = {} /\ coll = <<>>

IInv == /\ TypeOK /\ OneTurn /\ TurnOfTop /\ DownInv /\ UpInv /\ InputInv
        /\ CallsInv /\ WorkerInv /\ TreeInv /\ SignalInv /\ CloseInv
        /\ RegisteredHelperLives /\ SafeInService /\ CleanClose

-----------------------------------------------------------------------------
(* Types                                                                   *)

USE ProbeAssumption

\* The initial state has the types.
LEMMA TypeInit == Init => TypeOK
<1> SUFFICES ASSUME Init PROVE TypeOK
  OBVIOUS
<1>1. /\ calls = <<>> /\ down = <<>> /\ up = <<>> /\ coll = <<>>
      /\ msg \in Senders /\ wlock \in Senders
      /\ pc \in [Requests -> Places]
  BY DEF Init, Senders, Places
<1>2. /\ calls \in Seq(Senders) /\ coll \in Seq(Requests)
      /\ down \in Seq(Requested) /\ up \in Seq(Answered)
  BY <1>1, EmptySeq
<1>3. /\ rec \in [Requests -> {"none", "live", "freed"}]
      /\ hmtx \in [Requests -> {"none", "worker"}]
      /\ answers \in [Requests -> Nat]
  BY DEF Init
<1>4. QED
  BY <1>1, <1>2, <1>3 DEF Init, TypeOK

\* The first message of a pipe and the last call have the types of the rest.
LEMMA HeadTypes ==
  ASSUME TypeOK
  PROVE  /\ down # <<>> => /\ Head(down) = down[1] /\ down[1] \in Requested
                           /\ Tail(down) \in Seq(Requested)
                           /\ Len(Tail(down)) = Len(down) - 1
         /\ up # <<>> => /\ Head(up) = up[1] /\ up[1] \in Answered
                         /\ Tail(up) \in Seq(Answered)
                         /\ Len(Tail(up)) = Len(up) - 1
         /\ calls # <<>> => Len(calls) \in DOMAIN calls /\ Top \in Senders
         /\ Len(calls) \in Nat /\ DOMAIN calls = 1 .. Len(calls)
         /\ \A k \in DOMAIN calls : calls[k] \in Senders
<1>1. /\ calls \in Seq(Senders)
      /\ down \in Seq(Requested) /\ up \in Seq(Answered)
  BY DEF TypeOK
<1>2. QED
  BY <1>1, HeadTailProperties, LenProperties, EmptySeq, ElementOfSeq
     DEF Top

\* What the library and the probe push on the stack and into the pipe has the
\* right type, and so has the stack after a return.
LEMMA PushTypes ==
  ASSUME TypeOK
  PROVE  /\ "none" \in Senders /\ Requests \subseteq Senders
         /\ \A r \in Senders :
              /\ Append(calls, r) \in Seq(Senders) /\ <<r>> \in Seq(Senders)
              /\ \A t \in {"msg", "reset", "reply"} :
                    Append(down, [t |-> t, r |-> r]) \in Seq(Requested)
              /\ \A t \in {"answer", "done", "cmd"} :
                    Append(up, [t |-> t, r |-> r]) \in Seq(Answered)
<1>1. "none" \in Senders /\ Requests \subseteq Senders
  BY DEF Senders
<1>2. \A r \in Senders : \A t \in {"msg", "reset", "reply"} :
          [t |-> t, r |-> r] \in Requested
  BY DEF Requested
<1>3. \A r \in Senders : \A t \in {"answer", "done", "cmd"} :
          [t |-> t, r |-> r] \in Answered
  BY DEF Answered
<1>4. /\ calls \in Seq(Senders)
      /\ down \in Seq(Requested) /\ up \in Seq(Answered)
  BY DEF TypeOK
<1>5. \A r \in Senders : <<r>> \in Seq(Senders)
  OBVIOUS
<1>6. QED
  BY <1>1, <1>2, <1>3, <1>4, <1>5, AppendProperties

\* The stack of calls after a return.
LEMMA PopTypes ==
  ASSUME TypeOK, calls # <<>>
  PROVE  /\ SubSeq(calls, 1, Len(calls) - 1) \in Seq(Senders)
         /\ Len(SubSeq(calls, 1, Len(calls) - 1)) = Len(calls) - 1
         /\ \A k \in 1 .. Len(calls) - 1 :
                SubSeq(calls, 1, Len(calls) - 1)[k] = calls[k]
<1>1. calls \in Seq(Senders)
  BY DEF TypeOK
<1>2. Len(calls) \in Nat \ {0}
  BY <1>1, EmptySeq
<1>3. \A k \in 1 .. Len(calls) - 1 : calls[k] \in Senders
  BY <1>1, <1>2, ElementOfSeq
<1>4. Len(calls) - 1 \in Int /\ Len(calls) - 1 - 1 + 1 = Len(calls) - 1
  BY <1>2
<1>5. QED
  BY <1>2, <1>3, <1>4, SubSeqProperties

\* The library keeps the types.
LEMMA TypeLibrary ==
  ASSUME TypeOK, CallsInv, Library
  PROVE  TypeOK'
<1> USE HeadTypes DEF SignalRest, sigVars, inpVars, LibVarsRest, memVars
<1>1. ASSUME NEW r \in Requests, LibAsk(r) PROVE TypeOK'
  <2>1. /\ calls' \in Seq(Senders) /\ serving' \in BOOLEAN
        /\ down' \in Seq(Requested)
    BY <1>1, PushTypes DEF LibAsk
  <2>2. QED
    BY <1>1, <2>1 DEF LibAsk, TypeOK
<1>2. CASE LibReset
  <2>1. calls' \in Seq(Senders) /\ down' \in Seq(Requested)
    BY <1>2, PushTypes DEF LibReset
  <2>2. QED
    BY <1>2, <2>1 DEF LibReset, TypeOK
<1>3. CASE LibRead
  <2>1. calls' \in Seq(Senders)
    BY <1>3, PopTypes DEF LibRead, TypeOK
  <2>2. up' \in Seq(Answered)
    BY <1>3 DEF LibRead
  <2>3. serving' \in BOOLEAN
    <3>1. (Len(calls) > 1) \in BOOLEAN
      OBVIOUS
    <3>2. QED
      BY <1>3, <3>1 DEF LibRead
  <2>4. QED
    BY <1>3, <2>1, <2>2, <2>3 DEF LibRead, TypeOK
<1>4. CASE LibReply
  <2>1. serving' \in BOOLEAN /\ down' \in Seq(Requested)
    BY <1>4, PushTypes DEF LibReply, CallsInv
  <2>2. QED
    BY <1>4, <2>1 DEF LibReply, TypeOK
<1>5. CASE LibClose
  BY <1>5 DEF LibClose, TypeOK
<1>6. CASE LibDies
  BY <1>6 DEF LibDies, TypeOK
<1>7. CASE Abort
  BY <1>7 DEF Abort, TypeOK
<1>8. QED
  BY <1>1, <1>2, <1>3, <1>4, <1>5, <1>6, <1>7 DEF Library

\* The input thread keeps the types.
LEMMA TypeInput ==
  ASSUME TypeOK, InputInv, InputThread \/ InputSpawnFails
  PROVE  TypeOK'
<1> USE DEF libVars, inpVars, sigVars, memVars, ghosts
<1>1. CASE InputRecv
  <2>1. /\ input' \in {"recv", "wake", "unregister", "handle", "spawn",
                     "answer", "over"}
        /\ msg' \in Senders /\ down' \in Seq(Requested)
    BY <1>1, HeadTypes DEF InputRecv, TypeOK, Requested
  <2>2. QED
    BY <1>1, <2>1 DEF InputRecv, TypeOK
<1>2. CASE InputReset
  <2>1. down' \in Seq(Requested) /\ up' \in Seq(Answered)
    BY <1>2, HeadTypes, PushTypes DEF InputReset
  <2>2. QED
    BY <1>2, <2>1 DEF InputReset, TypeOK
<1>3. CASE InputWake
  <2>1. /\ pc' \in [Requests -> Places]
        /\ bad' \subseteq {"caches", "helper", "tree", "message", "names",
                          "tid", "record"}
    BY <1>3 DEF InputWake, TypeOK, Places
  <2>2. QED
    BY <1>3, <2>1 DEF InputWake, TypeOK
<1>4. CASE InputHandle
  <2>1. msg \in Requests
    BY <1>4 DEF InputHandle, InputInv, Fresh
  <2>2. known' \subseteq Objects
    <3>1. ObjectOf[msg] \in Objects
      BY <2>1
    <3>2. QED
      BY <1>4, <3>1 DEF InputHandle, TypeOK
  <2>3. /\ tree' \subseteq Requests
        /\ rec' \in [Requests -> {"none", "live", "freed"}]
        /\ input' \in {"answer", "spawn"}
        /\ bad' \subseteq bad \union {"tree"}
    BY <1>4, <2>1 DEF InputHandle, WalkRace, TypeOK
  <2>4. QED
    BY <1>4, <2>2, <2>3 DEF InputHandle, TypeOK
<1>5. CASE InputSpawn
  <2>1. pc' \in [Requests -> Places] /\ msg' \in Senders
    BY <1>5 DEF InputSpawn, TypeOK, Places, Senders
  <2>2. QED
    BY <1>5, <2>1 DEF InputSpawn, TypeOK
<1>6. CASE InputAnswer
  <2>1. msg \in Senders /\ up \in Seq(Answered)
    BY DEF TypeOK
  <2>2. msg' \in Senders /\ up' \in Seq(Answered)
    BY <1>6, <2>1, PushTypes DEF InputAnswer
  <2>3. answers' \in [Requests -> Nat]
    BY <1>6 DEF InputAnswer, TypeOK
  <2>4. QED
    BY <1>6, <2>2, <2>3 DEF InputAnswer, TypeOK
<1>7. CASE InputEnds
  BY <1>7 DEF InputEnds, TypeOK
<1>8. CASE InputSpawnFails
  <2>1. /\ tree' \subseteq Requests
        /\ rec' \in [Requests -> {"none", "live", "freed"}]
    BY <1>8 DEF InputSpawnFails, TypeOK
  <2>2. QED
    BY <1>8, <2>1 DEF InputSpawnFails, WalkRace, TypeOK
<1>9. CASE InputUnregister
  BY <1>9 DEF InputUnregister, TypeOK
<1>10. QED
  BY <1>1, <1>2, <1>3, <1>4, <1>5, <1>6, <1>7, <1>8, <1>9 DEF InputThread

\* A worker keeps the types.
LEMMA TypeWorker ==
  ASSUME TypeOK, NEW r \in Requests, Worker(r)
  PROVE  TypeOK'
<1> USE DEF InputRest, inpVars, sigVars, ghosts, memVars, Step
<1>1. CASE Start(r)
  <2>1. pc' \in [Requests -> Places]
    BY <1>1 DEF Start, TypeOK, Places
  <2>2. /\ waitq' \subseteq Requests
        /\ hmtx' \in [Requests -> {"none", "worker"}]
    BY <1>1 DEF Start, TypeOK
  <2>3. QED
    BY <1>1, <2>1, <2>2 DEF Start, TypeOK
<1>2. CASE Lock(r)
  <2>1. /\ pc \in [Requests -> Places]
        /\ \/ pc' = [pc EXCEPT ![r] = "write"]
           \/ pc' = [pc EXCEPT ![r] = "rwrite"]
    BY <1>2 DEF Lock, TypeOK
  <2>2. pc' \in [Requests -> Places]
    BY ONLY <2>1, r \in Requests DEF Places
  <2>3. QED
    BY <1>2, <2>2 DEF Lock, TypeOK, Senders
<1>3. CASE SendCmd(r)
  <2>1. pc' \in [Requests -> Places]
    BY <1>3 DEF SendCmd, TypeOK, Places
  <2>2. up \in Seq(Answered)
    BY DEF TypeOK
  <2>3. wlock' \in Senders /\ up' \in Seq(Answered)
    BY <1>3, <2>2, PushTypes DEF SendCmd
  <2>4. waitq' \subseteq Requests
    BY <1>3 DEF SendCmd, TypeOK
  <2>5. QED
    BY <1>3, <2>1, <2>3, <2>4 DEF SendCmd, TypeOK
<1>4. CASE Wait(r)
  <2>1. pc' \in [Requests -> Places]
    BY <1>4 DEF Wait, TypeOK, Places
  <2>2. QED
    BY <1>4, <2>1 DEF Wait, TypeOK
<1>5. CASE Woken(r)
  <2>1. pc' \in [Requests -> Places]
    BY <1>5 DEF Woken, TypeOK, Places
  <2>2. QED
    BY <1>5, <2>1 DEF Woken, TypeOK
<1>6. CASE MakeItem(r)
  <2>1. pc' \in [Requests -> Places]
    BY <1>6 DEF MakeItem, TypeOK, Places
  <2>2. QED
    BY <1>6, <2>1 DEF MakeItem, TypeOK
<1>7. CASE PutItem(r)
  <2>1. pc' \in [Requests -> Places]
    BY <1>7 DEF PutItem, TypeOK, Places
  <2>2. QED
    BY <1>7, <2>1 DEF PutItem, TypeOK
<1>8. CASE Synced(r)
  <2>1. pc' \in [Requests -> Places]
    BY <1>8 DEF Synced, TypeOK, Places
  <2>2. QED
    BY <1>8, <2>1 DEF Synced, TypeOK
<1>9. CASE LeaveTree(r)
  <2>1. pc' \in [Requests -> Places]
    BY <1>9 DEF LeaveTree, TypeOK, Places
  <2>2. QED
    BY <1>9, <2>1 DEF LeaveTree, WalkRace, TypeOK
<1>10. CASE CacheResult(r)
  <2>1. pc' \in [Requests -> Places]
    BY <1>10 DEF CacheResult, TypeOK, Places
  <2>2. QED
    BY <1>10, <2>1 DEF CacheResult, TypeOK
<1>11. CASE Reply(r)
  <2>1. pc' \in [Requests -> Places]
    BY <1>11 DEF Reply, TypeOK, Places
  <2>2. up \in Seq(Answered)
    BY DEF TypeOK
  <2>3. /\ wlock' \in Senders /\ up' \in Seq(Answered)
        /\ exit' \in {exit, "error"}
    BY <1>11, <2>2, PushTypes DEF Reply
  <2>4. answers' \in [Requests -> Nat]
    BY <1>11 DEF Reply, TypeOK
  <2>5. QED
    BY <1>11, <2>1, <2>3, <2>4 DEF Reply, TypeOK
<1>12. CASE FreeRecord(r)
  <2>1. pc' \in [Requests -> Places]
    BY <1>12 DEF FreeRecord, TypeOK, Places
  <2>2. QED
    BY <1>12, <2>1 DEF FreeRecord, TypeOK
<1>13. CASE Die(r)
  <2>1. /\ pc' \in [Requests -> Places]
        /\ hmtx' \in [Requests -> {"none", "worker"}]
    BY <1>13 DEF Die, TypeOK, Places
  <2>2. QED
    BY <1>13, <2>1 DEF Die, TypeOK
<1>14. QED
  BY <1>1, <1>2, <1>3, <1>4, <1>5, <1>6, <1>7, <1>8, <1>9, <1>10, <1>11,
     <1>12, <1>13 DEF Worker

\* The shutdown keeps the types.
LEMMA TypeShutdown ==
  ASSUME TypeOK, Shutdown
  PROVE  TypeOK'
<1> USE DEF WorkRest, inpVars, libVars, memVars, ghosts
<1>1. CASE Signal
  BY <1>1 DEF Signal, TypeOK
<1>2. ASSUME NEW r \in Requests, Visit(r) PROVE TypeOK'
  BY <1>2 DEF Visit, TypeOK
<1>3. CASE WalkEnds
  BY <1>3 DEF WalkEnds, TypeOK
<1>4. CASE Join
  <2>1. /\ pc' \in [Requests -> Places]
        /\ rec' \in [Requests -> {"none", "live", "freed"}]
    BY <1>4 DEF Join, TypeOK, Places
  <2>2. QED
    BY <1>4, <2>1 DEF Join, Dropped, LastCollected, TypeOK
<1>5. CASE JoinTimesOut
  BY <1>5 DEF JoinTimesOut, Dropped, TypeOK
<1>6. CASE SignalHandlerEnds
  BY <1>6 DEF SignalHandlerEnds, TypeOK
<1>7. CASE CleanUp
  BY <1>7 DEF CleanUp, TypeOK
<1>8. CASE InputTimesOut
  BY <1>8 DEF InputTimesOut, TypeOK
<1>9. QED
  BY <1>1, <1>2, <1>3, <1>4, <1>5, <1>6, <1>7, <1>8 DEF Shutdown

-----------------------------------------------------------------------------
(* The invariant, a worker's steps                                         *)

\* What TypeOK says of the variables the invariant speaks of.
LEMMA Shapes ==
  ASSUME IInv
  PROVE  /\ pc \in [Requests -> Places] /\ answers \in [Requests -> Nat]
         /\ rec \in [Requests -> {"none", "live", "freed"}]
         /\ up \in Seq(Answered) /\ down \in Seq(Requested)
         /\ Len(up) \in Nat /\ Len(down) \in Nat /\ Len(calls) \in Nat
         /\ waitq \subseteq Requests /\ tree \subseteq Requests
         /\ ncache \in {"live", "dangling"}
  BY DEF IInv, TypeOK

\* The same for the shutdown's variables.
LEMMA SignalShapes ==
  ASSUME IInv
  PROVE  /\ cancelled \subseteq Requests /\ coll \in Seq(Requests)
         /\ DOMAIN coll = 1 .. Len(coll) /\ Len(coll) \in Nat
         /\ \A k \in DOMAIN coll : coll[k] \in Requests
         /\ walk \subseteq Requests
         /\ resets \in Nat /\ spawnFailed \in BOOLEAN
  BY DEF IInv, TypeOK

\* The stack of open calls as a sequence.
LEMMA CallsShape ==
  ASSUME IInv
  PROVE  /\ DOMAIN calls = 1 .. Len(calls) /\ Len(calls) \in Nat
         /\ calls # <<>> => Len(calls) \in DOMAIN calls
         /\ \A k \in DOMAIN calls : calls[k] \in Senders
  BY HeadTypes DEF IInv

\* A worker that works is alone: nobody else has the turn.
LEMMA BusyIsAlone ==
  ASSUME IInv, NEW r \in Requests, pc[r] \in Busy
  PROVE  /\ ~LibraryTurn /\ down = <<>> /\ up = <<>> /\ ~InputTurn
         /\ Top = r /\ \A s \in Requests : s # r => pc[s] \notin Busy
  BY DEF IInv, OneTurn, TurnOfTop

\* So is the input thread while it has a request in hand.
LEMMA InputIsAlone ==
  ASSUME IInv, InputTurn
  PROVE  /\ calls # <<>> /\ ~serving /\ down = <<>> /\ up = <<>>
         /\ msg = Top /\ \A s \in Requests : pc[s] \notin Busy
  BY DEF IInv, OneTurn, TurnOfTop, LibraryTurn

\* The last open call is not among the ones below it.
LEMMA TopIsNotBelow ==
  ASSUME IInv, NEW k \in DOMAIN calls, k < Len(calls)
  PROVE  calls[k] # Top /\ ObjectOf[calls[k]] # ObjectOf[Top]
  BY CallsShape DEF IInv, CallsInv, Top

\* probe_worker begins: at once, or with a command to the library.
LEMMA StartStep ==
  ASSUME IInv, Defined, NEW r \in Requests, Start(r)
  PROVE  IInv'
<1> USE DEF IInv, Defined, Running
<1>1. /\ pc[r] = "start" /\ pc'[r] \in {"send", "main"}
      /\ \A s \in Requests : s # r => pc'[s] = pc[s]
      /\ waitq' \subseteq waitq \union {r}
      /\ waitq' = waitq \/ pc'[r] = "send"
  BY Shapes DEF Start
<1>2. UNCHANGED <<calls, serving, alive, down, input, msg, pending, inputCancel, handler,
                   walk, coll, rec, cancelled, known, ncache, orphan, resets,
                   spawnFailed, bad, tree, up, exit, answers>>
  BY DEF Start, InputRest, inpVars, sigVars, ghosts, memVars
<1>3. OneTurn' /\ TurnOfTop'
  BY <1>1, <1>2, Shapes DEF OneTurn, InputTurn, LibraryTurn, Busy, TurnOfTop,
     Top
<1>4. DownInv' /\ UpInv' /\ InputInv'
  BY <1>1, <1>2, Shapes DEF OneTurn, TurnOfTop, DownInv, Fresh, Parked, Busy,
     Waiting, Stopped, UpInv, InputTurn, InputInv, LibraryTurn, Top
<1>5. CallsInv'
  BY <1>1, <1>2, Shapes DEF CallsInv, OneTurn, TurnOfTop, LibraryTurn, Top,
     Parked, Busy, Waiting, Stopped
<1>6. WorkerInv'
  <2> SUFFICES ASSUME NEW s \in Requests
               PROVE  /\ UsesCaches(s)' => Asked(s)' /\ answers'[s] = 0
                      /\ UsesCaches(s)' /\ pc'[s] \notin {"reply", "rwrite"} =>
                             ObjectOf[s] \notin known'
                      /\ pc'[s] = "free" /\ Running' => answers'[s] = 1
                      /\ pc'[s] # "none" => rec'[s] # "none"
                      /\ answers'[s] <= 1
    BY DEF WorkerInv
  <2>1. CASE s = r
    BY <1>1, <1>2, Shapes, <2>1
       DEF WorkerInv, UsesCaches, Working, Finished, Asked
  <2>2. CASE s # r
    BY <1>1, <1>2, Shapes, <2>2
       DEF WorkerInv, UsesCaches, Working, Finished, Asked
  <2>3. QED
    BY <2>1, <2>2
<1>7. TreeInv'
  <2>1. ASSUME NEW s \in Requests, s \in tree
        PROVE  /\ rec[s] # "none"
               /\ rec[s] = "live" \/ pc'[s] = "joined"
               /\ \/ pc'[s] \in Waiting \union Stopped
                  \/ pc'[s] \in Busy \ {"cache", "reply", "rwrite"}
                  \/ pc'[s] = "none" /\ input = "spawn" /\ msg = s
    <3>1. CASE s = r
      BY <1>1, <2>1, <3>1 DEF TreeInv, Busy
    <3>2. CASE s # r
      BY <1>1, <2>1, <3>2 DEF TreeInv
    <3>3. QED
      BY <3>1, <3>2
  <2>2. ASSUME NEW s \in Requests, handler \in {"wait", "walk"}
        PROVE  pc'[s] # "joined"
    BY <1>1, <2>2 DEF TreeInv
  <2>3. tree \subseteq Requests
    BY Shapes
  <2>4. QED
    BY <1>2, <2>1, <2>2, <2>3 DEF TreeInv
<1>8. SignalInv' /\ CloseInv'
  BY <1>1, <1>2, Shapes, SignalShapes DEF SignalInv, Tolerated, Busy, Waiting,
     CloseInv, OneTurn, LibraryTurn
<1>9. RegisteredHelperLives'
  BY <1>1, <1>2, Shapes DEF RegisteredHelperLives, SignalInv
<1>10. SafeInService' /\ CleanClose'
  BY <1>1, <1>2, Shapes DEF SafeInService, CleanClose, Tolerated, SignalInv,
     CloseInv, OneTurn, LibraryTurn, TurnOfTop, WorkerInv, UsesCaches, Working,
     Finished, Busy, WalkRace
<1>11. TypeOK'
  BY TypeWorker DEF Worker
<1>12. QED
  BY <1>3, <1>4, <1>5, <1>6, <1>7, <1>8, <1>9, <1>10, <1>11

\* A worker takes the write lock for its command or its reply.
LEMMA LockStep ==
  ASSUME IInv, Defined, NEW r \in Requests, Lock(r)
  PROVE  IInv'
<1> USE DEF IInv, Defined, Running
<1>1. /\ \/ pc[r] = "send" /\ pc'[r] = "write"
         \/ pc[r] = "reply" /\ pc'[r] = "rwrite"
      /\ \A s \in Requests : s # r => pc'[s] = pc[s]
  BY Shapes DEF Lock, Step
<1>2. UNCHANGED <<calls, serving, alive, down, input, msg, pending, inputCancel, handler,
                   walk, coll, rec, cancelled, known, ncache, orphan, resets,
                   spawnFailed, bad, tree, up, exit, answers,
                   waitq>>
  BY DEF Lock, InputRest, inpVars, sigVars, ghosts, memVars
<1>3. OneTurn' /\ TurnOfTop'
  BY <1>1, <1>2, Shapes DEF OneTurn, InputTurn, LibraryTurn, Busy, TurnOfTop,
     Top
<1>4. DownInv' /\ UpInv' /\ InputInv'
  BY <1>1, <1>2, Shapes DEF OneTurn, TurnOfTop, DownInv, Fresh, Parked, Busy,
     Waiting, Stopped, UpInv, InputTurn, InputInv, LibraryTurn, Top
<1>5. CallsInv'
  BY <1>1, <1>2, Shapes DEF CallsInv, OneTurn, TurnOfTop, LibraryTurn, Top,
     Parked, Busy, Waiting, Stopped
<1>6. WorkerInv'
  <2> SUFFICES ASSUME NEW s \in Requests
               PROVE  /\ UsesCaches(s)' => Asked(s)' /\ answers'[s] = 0
                      /\ UsesCaches(s)' /\ pc'[s] \notin {"reply", "rwrite"} =>
                             ObjectOf[s] \notin known'
                      /\ pc'[s] = "free" /\ Running' => answers'[s] = 1
                      /\ pc'[s] # "none" => rec'[s] # "none"
                      /\ answers'[s] <= 1
    BY DEF WorkerInv
  <2>1. CASE s = r
    BY <1>1, <1>2, Shapes, <2>1
       DEF WorkerInv, UsesCaches, Working, Finished, Asked
  <2>2. CASE s # r
    BY <1>1, <1>2, Shapes, <2>2
       DEF WorkerInv, UsesCaches, Working, Finished, Asked
  <2>3. QED
    BY <2>1, <2>2
<1>7. TreeInv'
  <2> SUFFICES ASSUME NEW s \in Requests, s \in tree'
               PROVE  /\ rec[s] = "live" \/ pc'[s] = "joined"
                      /\ rec[s] # "none"
                      /\ \/ pc'[s] \in Waiting \union Stopped
                         \/ pc'[s] \in Busy \ {"cache", "reply", "rwrite"}
                         \/ pc'[s] = "none" /\ input = "spawn" /\ msg = s
    BY <1>1, <1>2, Shapes DEF TreeInv
  <2>1. CASE s = r
    BY <1>1, <1>2, Shapes, <2>1 DEF TreeInv, Busy, Waiting, Stopped
  <2>2. CASE s # r
    BY <1>1, <1>2, Shapes, <2>2 DEF TreeInv
  <2>3. QED
    BY <2>1, <2>2
<1>8. SignalInv' /\ CloseInv'
  BY <1>1, <1>2, Shapes, SignalShapes DEF SignalInv, Tolerated, Busy, Waiting,
     CloseInv, OneTurn, LibraryTurn
<1>9. RegisteredHelperLives'
  BY <1>1, <1>2, Shapes DEF RegisteredHelperLives, SignalInv
<1>10. SafeInService' /\ CleanClose'
  BY <1>1, <1>2, Shapes DEF SafeInService, CleanClose, Tolerated, SignalInv,
     CloseInv, OneTurn, LibraryTurn, TurnOfTop, WorkerInv, UsesCaches, Working,
     Finished, Busy, WalkRace
<1>11. TypeOK'
  BY TypeWorker DEF Worker
<1>12. QED
  BY <1>3, <1>4, <1>5, <1>6, <1>7, <1>8, <1>9, <1>10, <1>11

\* The command goes out and the turn with it, or it cannot be sent.
LEMMA SendCmdStep ==
  ASSUME IInv, Defined, NEW r \in Requests, SendCmd(r)
  PROVE  IInv'
<1> USE DEF IInv, Defined, Running
<1>1. /\ pc[r] = "write"
      /\ \A s \in Requests : s # r => pc'[s] = pc[s]
  BY Shapes DEF SendCmd, Step
<1>2. /\ ~LibraryTurn /\ down = <<>> /\ up = <<>> /\ ~InputTurn
      /\ Top = r /\ \A s \in Requests : s # r => pc[s] \notin Busy
  BY <1>1, BusyIsAlone DEF Busy
<1>3. LET u == Append(<<>>, [t |-> "cmd", r |-> r]) IN
        u # <<>> /\ Len(u) <= 1 /\ u[1].t = "cmd" /\ u[1].r = r
  OBVIOUS
<1>4. \/ /\ pc'[r] = "sent" /\ waitq' = waitq
         /\ up' # <<>> /\ Len(up') <= 1 /\ up'[1].t = "cmd" /\ up'[1].r = r
      \/ pc'[r] \in {"done", "main"} /\ up' = <<>> /\ waitq' = waitq \ {r}
  BY <1>2, <1>3, Shapes DEF SendCmd, Step
<1>5. UNCHANGED <<calls, serving, alive, down, input, msg, pending, inputCancel, handler,
                   walk, coll, rec, cancelled, known, ncache, orphan, resets,
                   spawnFailed, bad, tree, exit, answers>>
  BY DEF SendCmd, InputRest, inpVars, sigVars, ghosts, memVars
<1>6. OneTurn' /\ TurnOfTop'
  <2>1. down' = <<>> /\ ~LibraryTurn' /\ ~InputTurn' /\ Top' = Top
    BY <1>1, <1>2, <1>5 DEF LibraryTurn, InputTurn, Top
  <2>2. \A s \in Requests : s # r => pc'[s] \notin Busy
    BY <1>1, <1>2, <1>5
  <2>3. up' # <<>> => up'[1].r = r /\ Len(up') <= 1 /\ pc'[r] \notin Busy
    BY <1>1, <1>2, <1>5, <1>4 DEF Busy
  <2>4. Len(down') <= 1 /\ (up' = <<>> => Len(up') <= 1)
    BY <2>1
  <2>5. OneTurn'
    BY <2>1, <2>2, <2>3, <2>4 DEF OneTurn
  <2>6. TurnOfTop'
    BY <1>2, <2>1, <2>2, <2>3 DEF TurnOfTop
  <2>7. QED
    BY <2>5, <2>6
<1>7. DownInv' /\ UpInv' /\ InputInv'
  <2>1. DownInv' /\ InputInv'
    BY <1>1, <1>2, <1>4, <1>5 DEF DownInv, InputInv, InputTurn
  <2>2. answers[r] = 0
    BY <1>1 DEF WorkerInv, UsesCaches, Working, Finished
  <2>3. UpInv'
    BY <1>1, <1>2, <1>4, <1>5, <2>2 DEF UpInv, Parked, Waiting
  <2>4. QED
    BY <2>1, <2>3
<1>8. CallsInv'
  BY <1>1, <1>2, <1>4, <1>5, Shapes DEF CallsInv, OneTurn, TurnOfTop,
     LibraryTurn, Top, Parked, Busy, Waiting, Stopped
<1>9. WorkerInv'
  <2> SUFFICES ASSUME NEW s \in Requests
               PROVE  /\ UsesCaches(s)' => Asked(s)' /\ answers'[s] = 0
                      /\ UsesCaches(s)' /\ pc'[s] \notin {"reply", "rwrite"} =>
                             ObjectOf[s] \notin known'
                      /\ pc'[s] = "free" /\ Running' => answers'[s] = 1
                      /\ pc'[s] # "none" => rec'[s] # "none"
                      /\ answers'[s] <= 1
    BY DEF WorkerInv
  <2>1. CASE s = r
    BY <1>1, <1>4, <1>5, Shapes, <2>1
       DEF WorkerInv, UsesCaches, Working, Finished, Asked
  <2>2. CASE s # r
    BY <1>1, <1>4, <1>5, Shapes, <2>2
       DEF WorkerInv, UsesCaches, Working, Finished, Asked
  <2>3. QED
    BY <2>1, <2>2
<1>10. TreeInv'
  <2> SUFFICES ASSUME NEW s \in Requests, s \in tree'
               PROVE  /\ rec[s] = "live" \/ pc'[s] = "joined"
                      /\ rec[s] # "none"
                      /\ \/ pc'[s] \in Waiting \union Stopped
                         \/ pc'[s] \in Busy \ {"cache", "reply", "rwrite"}
                         \/ pc'[s] = "none" /\ input = "spawn" /\ msg = s
    BY <1>1, <1>4, <1>5, Shapes DEF TreeInv
  <2>1. CASE s = r
    BY <1>1, <1>4, <1>5, Shapes, <2>1 DEF TreeInv, Busy, Waiting, Stopped
  <2>2. CASE s # r
    BY <1>1, <1>4, <1>5, Shapes, <2>2 DEF TreeInv
  <2>3. QED
    BY <2>1, <2>2
<1>11. SignalInv' /\ CloseInv'
  BY <1>1, <1>2, <1>4, <1>5, Shapes, SignalShapes DEF SignalInv, Tolerated,
     Busy, Waiting, CloseInv, OneTurn, LibraryTurn
<1>12. RegisteredHelperLives'
  BY <1>1, <1>2, <1>4, <1>5, Shapes DEF RegisteredHelperLives, SignalInv
<1>13. SafeInService' /\ CleanClose'
  BY <1>1, <1>2, <1>4, <1>5, Shapes DEF SafeInService, CleanClose, Tolerated,
     SignalInv, CloseInv, OneTurn, LibraryTurn, TurnOfTop, WorkerInv,
     UsesCaches, Working, Finished, Busy, WalkRace
<1>14. TypeOK'
  BY TypeWorker DEF Worker
<1>15. QED
  BY <1>6, <1>7, <1>8, <1>9, <1>10, <1>11, <1>12, <1>13, <1>14

\* The reply goes out and the turn with it, or the process exits.
LEMMA ReplyStep ==
  ASSUME IInv, Defined, NEW r \in Requests, Reply(r)
  PROVE  IInv'
<1> USE DEF IInv, Defined, Running
<1>1. /\ pc[r] = "rwrite" /\ pc'[r] = "free"
      /\ \A s \in Requests :
            s # r => pc'[s] = pc[s] /\ answers'[s] = answers[s]
  BY Shapes DEF Reply, Step
<1>2. /\ ~LibraryTurn /\ down = <<>> /\ up = <<>> /\ ~InputTurn
      /\ Top = r /\ \A s \in Requests : s # r => pc[s] \notin Busy
  BY <1>1, BusyIsAlone DEF Busy
<1>3. LET u == Append(<<>>, [t |-> "answer", r |-> r]) IN
        u # <<>> /\ Len(u) <= 1 /\ u[1].t = "answer" /\ u[1].r = r
  OBVIOUS
<1>4. answers[r] = 0
  BY <1>1 DEF WorkerInv, UsesCaches, Working, Finished
<1>5. \/ /\ exit' = "no" /\ answers'[r] = 1
         /\ up' # <<>> /\ Len(up') <= 1 /\ up'[1].t = "answer" /\ up'[1].r = r
      \/ exit' = "error" /\ answers'[r] = 0 /\ alive = "gone" /\ up' = <<>>
  <2>1. CASE alive = "gone"
    BY <1>2, <1>4, <2>1 DEF Reply, Step
  <2>2. CASE alive # "gone"
    <3>1. up' = Append(<<>>, [t |-> "answer", r |-> r]) /\ exit' = "no"
      BY <1>2, <2>2 DEF Reply, Step
    <3>2. answers'[r] = 1
      BY <1>4, <2>2, Shapes DEF Reply, Step
    <3>3. QED
      BY <1>3, <3>1, <3>2
  <2>3. QED
    BY <2>1, <2>2
<1>6. UNCHANGED <<calls, serving, alive, down, input, msg, pending, inputCancel, handler,
                   walk, coll, rec, cancelled, known, ncache, orphan, resets,
                   spawnFailed, bad, tree, waitq>>
  BY DEF Reply, InputRest, inpVars, sigVars, ghosts, memVars
<1>7. OneTurn' /\ TurnOfTop'
  <2>1. down' = <<>> /\ ~LibraryTurn' /\ ~InputTurn' /\ Top' = Top
    BY <1>1, <1>2, <1>6 DEF LibraryTurn, InputTurn, Top
  <2>2. \A s \in Requests : s # r => pc'[s] \notin Busy
    BY <1>1, <1>2, <1>6
  <2>3. up' # <<>> => up'[1].r = r /\ Len(up') <= 1 /\ pc'[r] \notin Busy
    BY <1>1, <1>2, <1>6, <1>5 DEF Busy
  <2>4. Len(down') <= 1 /\ (up' = <<>> => Len(up') <= 1)
    BY <2>1
  <2>5. OneTurn'
    BY <2>1, <2>2, <2>3, <2>4 DEF OneTurn
  <2>6. TurnOfTop'
    BY <1>2, <2>1, <2>2, <2>3 DEF TurnOfTop
  <2>7. QED
    BY <2>5, <2>6
<1>8. DownInv' /\ UpInv' /\ InputInv'
  BY <1>1, <1>2, <1>5, <1>6, Shapes DEF OneTurn, TurnOfTop, DownInv, Fresh,
     Parked, Busy, Waiting, Stopped, UpInv, InputTurn, InputInv, LibraryTurn,
     Top
<1>9. CallsInv'
  BY <1>1, <1>2, <1>5, <1>6, Shapes DEF CallsInv, OneTurn, TurnOfTop,
     LibraryTurn, Top, Parked, Busy, Waiting, Stopped
<1>10. WorkerInv'
  <2> SUFFICES ASSUME NEW s \in Requests
               PROVE  /\ UsesCaches(s)' => Asked(s)' /\ answers'[s] = 0
                      /\ UsesCaches(s)' /\ pc'[s] \notin {"reply", "rwrite"} =>
                             ObjectOf[s] \notin known'
                      /\ pc'[s] = "free" /\ Running' => answers'[s] = 1
                      /\ pc'[s] # "none" => rec'[s] # "none"
                      /\ answers'[s] <= 1
    BY DEF WorkerInv
  <2>1. CASE s = r
    BY <1>1, <1>5, <1>6, Shapes, <2>1
       DEF WorkerInv, UsesCaches, Working, Finished, Asked
  <2>2. CASE s # r
    BY <1>1, <1>5, <1>6, Shapes, <2>2
       DEF WorkerInv, UsesCaches, Working, Finished, Asked
  <2>3. QED
    BY <2>1, <2>2
<1>11. TreeInv'
  <2> SUFFICES ASSUME NEW s \in Requests, s \in tree'
               PROVE  /\ rec[s] = "live" \/ pc'[s] = "joined"
                      /\ rec[s] # "none"
                      /\ \/ pc'[s] \in Waiting \union Stopped
                         \/ pc'[s] \in Busy \ {"cache", "reply", "rwrite"}
                         \/ pc'[s] = "none" /\ input = "spawn" /\ msg = s
    BY <1>1, <1>6, Shapes DEF TreeInv
  <2>1. CASE s = r
    BY <1>1, <1>6, Shapes, <2>1 DEF TreeInv, Busy, Waiting, Stopped
  <2>2. CASE s # r
    BY <1>1, <1>6, Shapes, <2>2 DEF TreeInv
  <2>3. QED
    BY <2>1, <2>2
<1>12. SignalInv' /\ CloseInv'
  BY <1>1, <1>2, <1>5, <1>6, Shapes, SignalShapes DEF SignalInv, Tolerated,
     Busy, Waiting, CloseInv, OneTurn, LibraryTurn
<1>13. RegisteredHelperLives'
  BY <1>1, <1>2, <1>5, <1>6, Shapes DEF RegisteredHelperLives, SignalInv
<1>14. SafeInService' /\ CleanClose'
  BY <1>1, <1>2, <1>5, <1>6, Shapes DEF SafeInService, CleanClose, Tolerated,
     SignalInv, CloseInv, OneTurn, LibraryTurn, TurnOfTop, WorkerInv,
     UsesCaches, Working, Finished, Busy, WalkRace
<1>15. TypeOK'
  BY TypeWorker DEF Worker
<1>16. QED
  BY <1>7, <1>8, <1>9, <1>10, <1>11, <1>12, <1>13, <1>14, <1>15

\* The worker waits for the reply to its command.
LEMMA WaitStep ==
  ASSUME IInv, Defined, NEW r \in Requests, Wait(r)
  PROVE  IInv'
<1> USE DEF IInv, Defined, Running, Wait, InputRest, inpVars, sigVars, ghosts,
   memVars, Step
<1>1. OneTurn' /\ TurnOfTop'
  BY Shapes DEF OneTurn, InputTurn, LibraryTurn, Busy, TurnOfTop, Top
<1>2. DownInv' /\ UpInv' /\ InputInv'
  BY Shapes DEF OneTurn, TurnOfTop, DownInv, Fresh, Parked, Busy, Waiting,
     Stopped, UpInv, InputTurn, InputInv, LibraryTurn, Top
<1>3. CallsInv'
  BY Shapes DEF CallsInv, OneTurn, TurnOfTop, LibraryTurn, Top, Parked, Busy,
     Waiting, Stopped
<1>4. WorkerInv'
  BY Shapes DEF WorkerInv, UsesCaches, Working, Finished, Asked, TurnOfTop,
     CallsInv, Top, Busy, Waiting
<1>5. TreeInv'
  BY Shapes DEF TreeInv, Busy, Waiting, Stopped
<1>6. SignalInv' /\ CloseInv'
  BY Shapes, SignalShapes DEF SignalInv, Tolerated, Busy, Waiting, CloseInv,
     OneTurn, LibraryTurn
<1>7. RegisteredHelperLives'
  BY Shapes DEF RegisteredHelperLives, SignalInv
<1>8. SafeInService' /\ CleanClose'
  BY Shapes DEF SafeInService, CleanClose, Tolerated, SignalInv, CloseInv,
     OneTurn, LibraryTurn, TurnOfTop, WorkerInv, UsesCaches, Working, Finished,
     Busy, WalkRace
<1>9. TypeOK'
  BY TypeWorker DEF Worker
<1>10. QED
  BY <1>1, <1>2, <1>3, <1>4, <1>5, <1>6, <1>7, <1>8, <1>9

\* The worker goes on with the reply.
LEMMA WokenStep ==
  ASSUME IInv, Defined, NEW r \in Requests, Woken(r)
  PROVE  IInv'
<1> USE DEF IInv, Defined, Running, Woken, InputRest, inpVars, sigVars, ghosts,
   memVars, Step
<1>1. OneTurn' /\ TurnOfTop'
  BY Shapes DEF OneTurn, InputTurn, LibraryTurn, Busy, TurnOfTop, Top
<1>2. DownInv' /\ UpInv' /\ InputInv'
  BY Shapes DEF OneTurn, TurnOfTop, DownInv, Fresh, Parked, Busy, Waiting,
     Stopped, UpInv, InputTurn, InputInv, LibraryTurn, Top
<1>3. CallsInv'
  BY Shapes DEF CallsInv, OneTurn, TurnOfTop, LibraryTurn, Top, Parked, Busy,
     Waiting, Stopped
<1>4. WorkerInv'
  BY Shapes DEF WorkerInv, UsesCaches, Working, Finished, Asked, TurnOfTop,
     CallsInv, Top, Busy, Waiting
<1>5. TreeInv'
  BY Shapes DEF TreeInv, Busy, Waiting, Stopped
<1>6. SignalInv' /\ CloseInv'
  BY Shapes, SignalShapes DEF SignalInv, Tolerated, Busy, Waiting, CloseInv,
     OneTurn, LibraryTurn
<1>7. RegisteredHelperLives'
  BY Shapes DEF RegisteredHelperLives, SignalInv
<1>8. SafeInService' /\ CleanClose'
  BY Shapes DEF SafeInService, CleanClose, Tolerated, SignalInv, CloseInv,
     OneTurn, LibraryTurn, TurnOfTop, WorkerInv, UsesCaches, Working, Finished,
     Busy, WalkRace
<1>9. TypeOK'
  BY TypeWorker DEF Worker
<1>10. QED
  BY <1>1, <1>2, <1>3, <1>4, <1>5, <1>6, <1>7, <1>8, <1>9

\* probe_main makes an item.
LEMMA MakeItemStep ==
  ASSUME IInv, Defined, NEW r \in Requests, MakeItem(r)
  PROVE  IInv'
<1> USE DEF IInv, Defined, Running, MakeItem, InputRest, inpVars, sigVars,
   ghosts, memVars, Step
<1>1. OneTurn' /\ TurnOfTop'
  BY Shapes DEF OneTurn, InputTurn, LibraryTurn, Busy, TurnOfTop, Top
<1>2. DownInv' /\ UpInv' /\ InputInv'
  BY Shapes DEF OneTurn, TurnOfTop, DownInv, Fresh, Parked, Busy, Waiting,
     Stopped, UpInv, InputTurn, InputInv, LibraryTurn, Top
<1>3. CallsInv'
  BY Shapes DEF CallsInv, OneTurn, TurnOfTop, LibraryTurn, Top, Parked, Busy,
     Waiting, Stopped
<1>4. WorkerInv'
  BY Shapes DEF WorkerInv, UsesCaches, Working, Finished, Asked, TurnOfTop,
     CallsInv, Top, Busy, Waiting
<1>5. TreeInv'
  BY Shapes DEF TreeInv, Busy, Waiting, Stopped
<1>6. SignalInv' /\ CloseInv'
  BY Shapes, SignalShapes DEF SignalInv, Tolerated, Busy, Waiting, CloseInv,
     OneTurn, LibraryTurn
<1>7. RegisteredHelperLives'
  BY Shapes DEF RegisteredHelperLives, SignalInv
<1>8. SafeInService' /\ CleanClose'
  BY Shapes DEF SafeInService, CleanClose, Tolerated, SignalInv, CloseInv,
     OneTurn, LibraryTurn, TurnOfTop, WorkerInv, UsesCaches, Working, Finished,
     Busy, WalkRace
<1>9. TypeOK'
  BY TypeWorker DEF Worker
<1>10. QED
  BY <1>1, <1>2, <1>3, <1>4, <1>5, <1>6, <1>7, <1>8, <1>9

\* The item is in the item cache's queue.
LEMMA PutItemStep ==
  ASSUME IInv, Defined, NEW r \in Requests, PutItem(r)
  PROVE  IInv'
<1> USE DEF IInv, Defined, Running, PutItem, InputRest, inpVars, sigVars,
   ghosts, memVars, Step
<1>1. OneTurn' /\ TurnOfTop'
  BY Shapes DEF OneTurn, InputTurn, LibraryTurn, Busy, TurnOfTop, Top
<1>2. DownInv' /\ UpInv' /\ InputInv'
  BY Shapes DEF OneTurn, TurnOfTop, DownInv, Fresh, Parked, Busy, Waiting,
     Stopped, UpInv, InputTurn, InputInv, LibraryTurn, Top
<1>3. CallsInv'
  BY Shapes DEF CallsInv, OneTurn, TurnOfTop, LibraryTurn, Top, Parked, Busy,
     Waiting, Stopped
<1>4. WorkerInv'
  BY Shapes DEF WorkerInv, UsesCaches, Working, Finished, Asked, TurnOfTop,
     CallsInv, Top, Busy, Waiting
<1>5. TreeInv'
  BY Shapes DEF TreeInv, Busy, Waiting, Stopped
<1>6. SignalInv' /\ CloseInv'
  BY Shapes, SignalShapes DEF SignalInv, Tolerated, Busy, Waiting, CloseInv,
     OneTurn, LibraryTurn
<1>7. RegisteredHelperLives'
  BY Shapes DEF RegisteredHelperLives, SignalInv
<1>8. SafeInService' /\ CleanClose'
  BY Shapes DEF SafeInService, CleanClose, Tolerated, SignalInv, CloseInv,
     OneTurn, LibraryTurn, TurnOfTop, WorkerInv, UsesCaches, Working, Finished,
     Busy, WalkRace
<1>9. TypeOK'
  BY TypeWorker DEF Worker
<1>10. QED
  BY <1>1, <1>2, <1>3, <1>4, <1>5, <1>6, <1>7, <1>8, <1>9

\* The item cache has handled the worker's NOP.
LEMMA SyncedStep ==
  ASSUME IInv, Defined, NEW r \in Requests, Synced(r)
  PROVE  IInv'
<1> USE DEF IInv, Defined, Running, Synced, InputRest, inpVars, sigVars,
   ghosts, memVars, Step
<1>1. OneTurn' /\ TurnOfTop'
  BY Shapes DEF OneTurn, InputTurn, LibraryTurn, Busy, TurnOfTop, Top
<1>2. DownInv' /\ UpInv' /\ InputInv'
  BY Shapes DEF OneTurn, TurnOfTop, DownInv, Fresh, Parked, Busy, Waiting,
     Stopped, UpInv, InputTurn, InputInv, LibraryTurn, Top
<1>3. CallsInv'
  BY Shapes DEF CallsInv, OneTurn, TurnOfTop, LibraryTurn, Top, Parked, Busy,
     Waiting, Stopped
<1>4. WorkerInv'
  BY Shapes DEF WorkerInv, UsesCaches, Working, Finished, Asked, TurnOfTop,
     CallsInv, Top, Busy, Waiting
<1>5. TreeInv'
  BY Shapes DEF TreeInv, Busy, Waiting, Stopped
<1>6. SignalInv' /\ CloseInv'
  BY Shapes, SignalShapes DEF SignalInv, Tolerated, Busy, Waiting, CloseInv,
     OneTurn, LibraryTurn
<1>7. RegisteredHelperLives'
  BY Shapes DEF RegisteredHelperLives, SignalInv
<1>8. SafeInService' /\ CleanClose'
  BY Shapes DEF SafeInService, CleanClose, Tolerated, SignalInv, CloseInv,
     OneTurn, LibraryTurn, TurnOfTop, WorkerInv, UsesCaches, Working, Finished,
     Busy, WalkRace
<1>9. TypeOK'
  BY TypeWorker DEF Worker
<1>10. QED
  BY <1>1, <1>2, <1>3, <1>4, <1>5, <1>6, <1>7, <1>8, <1>9

\* rbt_i32_del of the worker's entry.
LEMMA LeaveTreeStep ==
  ASSUME IInv, Defined, NEW r \in Requests, LeaveTree(r)
  PROVE  IInv'
<1> USE DEF IInv, Defined, Running, LeaveTree, InputRest, inpVars, sigVars,
   ghosts, memVars, Step
<1>1. OneTurn' /\ TurnOfTop'
  BY Shapes DEF OneTurn, InputTurn, LibraryTurn, Busy, TurnOfTop, Top
<1>2. DownInv' /\ UpInv' /\ InputInv'
  BY Shapes DEF OneTurn, TurnOfTop, DownInv, Fresh, Parked, Busy, Waiting,
     Stopped, UpInv, InputTurn, InputInv, LibraryTurn, Top
<1>3. CallsInv'
  BY Shapes DEF CallsInv, OneTurn, TurnOfTop, LibraryTurn, Top, Parked, Busy,
     Waiting, Stopped
<1>4. WorkerInv'
  BY Shapes DEF WorkerInv, UsesCaches, Working, Finished, Asked, TurnOfTop,
     CallsInv, Top, Busy, Waiting
<1>5. TreeInv'
  BY Shapes DEF TreeInv, Busy, Waiting, Stopped
<1>6. SignalInv' /\ CloseInv'
  BY Shapes, SignalShapes DEF SignalInv, Tolerated, Busy, Waiting, CloseInv,
     OneTurn, LibraryTurn
<1>7. RegisteredHelperLives'
  BY Shapes DEF RegisteredHelperLives, SignalInv
<1>8. SafeInService' /\ CleanClose'
  BY Shapes DEF SafeInService, CleanClose, Tolerated, SignalInv, CloseInv,
     OneTurn, LibraryTurn, TurnOfTop, WorkerInv, UsesCaches, Working, Finished,
     Busy, WalkRace
<1>9. TypeOK'
  BY TypeWorker DEF Worker
<1>10. QED
  BY <1>1, <1>2, <1>3, <1>4, <1>5, <1>6, <1>7, <1>8, <1>9

\* The result is cached: no other open call is about its object.
LEMMA CacheResultStep ==
  ASSUME IInv, Defined, NEW r \in Requests, CacheResult(r)
  PROVE  IInv'
<1> USE DEF IInv, Defined, Running, CacheResult, InputRest, inpVars, sigVars,
   ghosts, memVars, Step
<1>1. OneTurn' /\ TurnOfTop'
  BY Shapes DEF OneTurn, InputTurn, LibraryTurn, Busy, TurnOfTop, Top
<1>2. DownInv' /\ UpInv' /\ InputInv'
  BY Shapes DEF OneTurn, TurnOfTop, DownInv, Fresh, Parked, Busy, Waiting,
     Stopped, UpInv, InputTurn, InputInv, LibraryTurn, Top
<1>3. CallsInv'
  BY Shapes DEF CallsInv, OneTurn, TurnOfTop, LibraryTurn, Top, Parked, Busy,
     Waiting, Stopped
<1>4. WorkerInv'
  <2>1. Top = r
    BY BusyIsAlone DEF Busy
  <2>2. \A s \in Requests : UsesCaches(s)' => UsesCaches(s) /\ Asked(s)
    BY Shapes DEF WorkerInv, UsesCaches, Working, Finished
  <2>3. \A s \in Requests :
            UsesCaches(s)' /\ s # r => ObjectOf[s] # ObjectOf[r]
    BY <2>1, <2>2, CallsShape DEF Asked, CallsInv, Top
  <2>4. \A s \in Requests : s # r => pc'[s] = pc[s]
    BY Shapes
  <2>5. QED
    BY <2>2, <2>3, <2>4, Shapes
       DEF WorkerInv, Asked, UsesCaches, Working, Finished
<1>5. TreeInv'
  BY Shapes DEF TreeInv, Busy, Waiting, Stopped
<1>6. SignalInv' /\ CloseInv'
  BY Shapes, SignalShapes DEF SignalInv, Tolerated, Busy, Waiting, CloseInv,
     OneTurn, LibraryTurn
<1>7. RegisteredHelperLives'
  BY Shapes DEF RegisteredHelperLives, SignalInv
<1>8. SafeInService' /\ CleanClose'
  BY Shapes DEF SafeInService, CleanClose, Tolerated, SignalInv, CloseInv,
     OneTurn, LibraryTurn, TurnOfTop, WorkerInv, UsesCaches, Working, Finished,
     Busy, WalkRace
<1>9. TypeOK'
  BY TypeWorker DEF Worker
<1>10. QED
  BY <1>1, <1>2, <1>3, <1>4, <1>5, <1>6, <1>7, <1>8, <1>9

\* The worker frees its record and ends.
LEMMA FreeRecordStep ==
  ASSUME IInv, Defined, NEW r \in Requests, FreeRecord(r)
  PROVE  IInv'
<1> USE DEF IInv, Defined, Running, FreeRecord, InputRest, inpVars, sigVars,
   ghosts, memVars, Step
<1>1. OneTurn' /\ TurnOfTop'
  BY Shapes DEF OneTurn, InputTurn, LibraryTurn, Busy, TurnOfTop, Top
<1>2. DownInv' /\ UpInv' /\ InputInv'
  BY Shapes DEF OneTurn, TurnOfTop, DownInv, Fresh, Parked, Busy, Waiting,
     Stopped, UpInv, InputTurn, InputInv, LibraryTurn, Top
<1>3. CallsInv'
  BY Shapes DEF CallsInv, OneTurn, TurnOfTop, LibraryTurn, Top, Parked, Busy,
     Waiting, Stopped
<1>4. WorkerInv'
  BY Shapes DEF WorkerInv, UsesCaches, Working, Finished, Asked, TurnOfTop,
     CallsInv, Top, Busy, Waiting
<1>5. TreeInv'
  BY Shapes DEF TreeInv, Busy, Waiting, Stopped
<1>6. SignalInv' /\ CloseInv'
  BY Shapes, SignalShapes DEF SignalInv, Tolerated, Busy, Waiting, CloseInv,
     OneTurn, LibraryTurn
<1>7. RegisteredHelperLives'
  BY Shapes DEF RegisteredHelperLives, SignalInv
<1>8. SafeInService' /\ CleanClose'
  BY Shapes DEF SafeInService, CleanClose, Tolerated, SignalInv, CloseInv,
     OneTurn, LibraryTurn, TurnOfTop, WorkerInv, UsesCaches, Working, Finished,
     Busy, WalkRace
<1>9. TypeOK'
  BY TypeWorker DEF Worker
<1>10. QED
  BY <1>1, <1>2, <1>3, <1>4, <1>5, <1>6, <1>7, <1>8, <1>9

\* A cancelled worker ends.
LEMMA DieStep ==
  ASSUME IInv, Defined, NEW r \in Requests, Die(r)
  PROVE  IInv'
<1> USE DEF IInv, Defined, Running, Die, InputRest, inpVars, sigVars, ghosts,
   memVars, Step
<1>1. OneTurn' /\ TurnOfTop'
  BY Shapes DEF OneTurn, InputTurn, LibraryTurn, Busy, TurnOfTop, Top
<1>2. DownInv' /\ UpInv' /\ InputInv'
  BY Shapes DEF OneTurn, TurnOfTop, DownInv, Fresh, Parked, Busy, Waiting,
     Stopped, UpInv, InputTurn, InputInv, LibraryTurn, Top
<1>3. CallsInv'
  BY Shapes DEF CallsInv, OneTurn, TurnOfTop, LibraryTurn, Top, Parked, Busy,
     Waiting, Stopped
<1>4. WorkerInv'
  BY Shapes DEF WorkerInv, UsesCaches, Working, Finished, Asked, TurnOfTop,
     CallsInv, Top, Busy, Waiting
<1>5. TreeInv'
  BY Shapes DEF TreeInv, Busy, Waiting, Stopped
<1>6. SignalInv' /\ CloseInv'
  BY Shapes, SignalShapes DEF SignalInv, Tolerated, Busy, Waiting, CloseInv,
     OneTurn, LibraryTurn
<1>7. RegisteredHelperLives'
  BY Shapes DEF RegisteredHelperLives, SignalInv
<1>8. SafeInService' /\ CleanClose'
  BY Shapes DEF SafeInService, CleanClose, Tolerated, SignalInv, CloseInv,
     OneTurn, LibraryTurn, TurnOfTop, WorkerInv, UsesCaches, Working, Finished,
     Busy, WalkRace
<1>9. TypeOK'
  BY TypeWorker DEF Worker
<1>10. QED
  BY <1>1, <1>2, <1>3, <1>4, <1>5, <1>6, <1>7, <1>8, <1>9

\* Every step of a worker preserves the invariant.
LEMMA WorkerStep ==
  ASSUME IInv, Defined, NEW r \in Requests, Worker(r)
  PROVE  IInv'
  BY StartStep, LockStep, SendCmdStep, WaitStep, WokenStep, MakeItemStep,
     PutItemStep, SyncedStep, LeaveTreeStep, CacheResultStep, ReplyStep,
     FreeRecordStep, DieStep DEF Worker

-----------------------------------------------------------------------------
(* The invariant, the shutdown and a crash                                 *)

\* The handler takes the signal.
LEMMA SignalStep ==
  ASSUME IInv, Defined, Signal
  PROVE  IInv'
<1> USE DEF IInv, Defined, Running, Signal, WorkRest, libVars, inpVars, ghosts,
   memVars
<1>1. OneTurn' /\ TurnOfTop'
  BY Shapes DEF OneTurn, InputTurn, LibraryTurn, Busy, TurnOfTop, Top
<1>2. DownInv' /\ UpInv' /\ InputInv'
  BY Shapes DEF OneTurn, TurnOfTop, DownInv, Fresh, Parked, Busy, Waiting,
     Stopped, UpInv, InputTurn, InputInv, LibraryTurn, Top
<1>3. CallsInv'
  BY Shapes DEF CallsInv, OneTurn, TurnOfTop, LibraryTurn, Top, Parked, Busy,
     Waiting, Stopped
<1>4. WorkerInv'
  BY Shapes DEF WorkerInv, UsesCaches, Working, Finished, Asked, TurnOfTop,
     CallsInv, Top, Busy, Waiting
<1>5. TreeInv'
  BY Shapes DEF TreeInv, Busy, Waiting, Stopped
<1>6. SignalInv' /\ CloseInv'
  BY Shapes, SignalShapes DEF SignalInv, Tolerated, Busy, Waiting, Working,
     Finished, CloseInv, OneTurn, LibraryTurn
<1>7. RegisteredHelperLives'
  BY Shapes DEF RegisteredHelperLives, SignalInv
<1>8. SafeInService' /\ CleanClose'
  BY Shapes, SignalShapes DEF SafeInService, CleanClose, Tolerated, SignalInv,
     CloseInv, OneTurn, LibraryTurn, TurnOfTop, WorkerInv, UsesCaches, Working,
     Finished, Busy, WalkRace, Asked, InputTurn
<1>9. TypeOK'
  BY TypeShutdown DEF Shutdown
<1>10. QED
  BY <1>1, <1>2, <1>3, <1>4, <1>5, <1>6, <1>7, <1>8, <1>9

\* __abort_cb on a node of the tree.
LEMMA VisitStep ==
  ASSUME IInv, Defined, NEW r \in Requests, Visit(r)
  PROVE  IInv'
<1> USE DEF IInv, Defined, Running, Visit, WorkRest, libVars, inpVars, ghosts,
   memVars
<1>1. OneTurn' /\ TurnOfTop'
  BY Shapes DEF OneTurn, InputTurn, LibraryTurn, Busy, TurnOfTop, Top
<1>2. DownInv' /\ UpInv' /\ InputInv'
  BY Shapes DEF OneTurn, TurnOfTop, DownInv, Fresh, Parked, Busy, Waiting,
     Stopped, UpInv, InputTurn, InputInv, LibraryTurn, Top
<1>3. CallsInv'
  BY Shapes DEF CallsInv, OneTurn, TurnOfTop, LibraryTurn, Top, Parked, Busy,
     Waiting, Stopped
<1>4. WorkerInv'
  BY Shapes DEF WorkerInv, UsesCaches, Working, Finished, Asked, TurnOfTop,
     CallsInv, Top, Busy, Waiting
<1>5. TreeInv'
  BY Shapes DEF TreeInv, Busy, Waiting, Stopped
<1>6. SignalInv' /\ CloseInv'
  <2>1. \A k \in DOMAIN coll' :
            coll'[k] = r \/ (k \in DOMAIN coll /\ coll'[k] = coll[k])
    <3>1. /\ coll' \in Seq(Requests) /\ Len(coll') = Len(coll) + 1
          /\ \A k \in 1 .. Len(coll) : coll'[k] = coll[k]
          /\ coll'[Len(coll) + 1] = r
      BY SignalShapes, AppendProperties
    <3>2. DOMAIN coll' = 1 .. Len(coll) + 1
      BY <3>1, LenProperties
    <3>3. QED
      BY <3>1, <3>2, SignalShapes
  <2>2. (bad \subseteq Tolerated)' => bad \subseteq Tolerated /\ pc[r] # "none"
    BY DEF Tolerated
  <2>3. (bad \subseteq Tolerated)' =>
            \A k \in DOMAIN coll' : pc'[coll'[k]] # "none"
    BY <2>1, <2>2 DEF SignalInv
  <2>4. /\ handler # "wait" /\ handler' = handler
        /\ \A s \in cancelled' : s \in cancelled \/ pc[s] # "none"
        /\ cancelled \subseteq cancelled'
    BY DEF Working, Finished, SignalInv
  <2>5. SignalInv'
    BY <2>3, <2>4, Shapes DEF SignalInv
  <2>6. CloseInv'
    BY DEF CloseInv
  <2>7. QED
    BY <2>5, <2>6
<1>7. RegisteredHelperLives'
  BY Shapes DEF RegisteredHelperLives, SignalInv
<1>8. SafeInService' /\ CleanClose'
  BY Shapes, SignalShapes DEF SafeInService, CleanClose, Tolerated, SignalInv,
     CloseInv, OneTurn, LibraryTurn, TurnOfTop, WorkerInv, UsesCaches, Working,
     Finished, Busy, WalkRace, Asked, InputTurn
<1>9. TypeOK'
  BY TypeShutdown DEF Shutdown
<1>10. QED
  BY <1>1, <1>2, <1>3, <1>4, <1>5, <1>6, <1>7, <1>8, <1>9

\* The walk over the tree ends.
LEMMA WalkEndsStep ==
  ASSUME IInv, Defined, WalkEnds
  PROVE  IInv'
<1> USE DEF IInv, Defined, Running, WalkEnds, WorkRest, libVars, inpVars,
   ghosts, memVars
<1>1. OneTurn' /\ TurnOfTop'
  BY Shapes DEF OneTurn, InputTurn, LibraryTurn, Busy, TurnOfTop, Top
<1>2. DownInv' /\ UpInv' /\ InputInv'
  BY Shapes DEF OneTurn, TurnOfTop, DownInv, Fresh, Parked, Busy, Waiting,
     Stopped, UpInv, InputTurn, InputInv, LibraryTurn, Top
<1>3. CallsInv'
  BY Shapes DEF CallsInv, OneTurn, TurnOfTop, LibraryTurn, Top, Parked, Busy,
     Waiting, Stopped
<1>4. WorkerInv'
  BY Shapes DEF WorkerInv, UsesCaches, Working, Finished, Asked, TurnOfTop,
     CallsInv, Top, Busy, Waiting
<1>5. TreeInv'
  BY Shapes DEF TreeInv, Busy, Waiting, Stopped
<1>6. SignalInv' /\ CloseInv'
  BY Shapes, SignalShapes DEF SignalInv, Tolerated, Busy, Waiting, Working,
     Finished, CloseInv, OneTurn, LibraryTurn
<1>7. RegisteredHelperLives'
  BY Shapes DEF RegisteredHelperLives, SignalInv
<1>8. SafeInService' /\ CleanClose'
  BY Shapes, SignalShapes DEF SafeInService, CleanClose, Tolerated, SignalInv,
     CloseInv, OneTurn, LibraryTurn, TurnOfTop, WorkerInv, UsesCaches, Working,
     Finished, Busy, WalkRace, Asked, InputTurn
<1>9. TypeOK'
  BY TypeShutdown DEF Shutdown
<1>10. QED
  BY <1>1, <1>2, <1>3, <1>4, <1>5, <1>6, <1>7, <1>8, <1>9

\* A collected thread has ended: its record is freed.
LEMMA JoinStep ==
  ASSUME IInv, Defined, Join
  PROVE  IInv'
<1> USE DEF IInv, Defined, Running, Join, WorkRest, libVars, inpVars, ghosts,
   memVars, LastCollected, Dropped, Working, Finished
<1>1. OneTurn' /\ TurnOfTop'
  BY Shapes DEF OneTurn, InputTurn, LibraryTurn, Busy, TurnOfTop, Top
<1>2. DownInv' /\ UpInv' /\ InputInv'
  <2>1. LastCollected \in Requests /\ pc[LastCollected] # "none"
    BY SignalShapes, EmptySeq DEF SignalInv
  <2>2. \A s \in Requests :
            /\ pc[s] = "none" => pc'[s] = "none" /\ rec'[s] = rec[s]
            /\ pc[s] \in Waiting \union Stopped =>
                   pc'[s] \in Waiting \union Stopped
    BY <2>1, Shapes DEF Waiting, Stopped
  <2>3. DownInv' /\ UpInv'
    BY <2>2 DEF DownInv, UpInv, Fresh, Parked
  <2>4. InputInv'
    BY <2>2 DEF InputInv, Fresh, Parked
  <2>5. QED
    BY <2>3, <2>4
<1>3. CallsInv'
  BY Shapes DEF CallsInv, OneTurn, TurnOfTop, LibraryTurn, Top, Parked, Busy,
     Waiting, Stopped
<1>4. WorkerInv'
  BY Shapes DEF WorkerInv, UsesCaches, Working, Finished, Asked, TurnOfTop,
     CallsInv, Top, Busy, Waiting
<1>5. TreeInv'
  BY Shapes DEF TreeInv, Busy, Waiting, Stopped
<1>6. SignalInv' /\ CloseInv'
  BY Shapes, SignalShapes DEF SignalInv, Tolerated, Busy, Waiting, Working,
     Finished, CloseInv, OneTurn, LibraryTurn
<1>7. RegisteredHelperLives'
  BY Shapes DEF RegisteredHelperLives, SignalInv
<1>8. SafeInService' /\ CleanClose'
  BY Shapes, SignalShapes DEF SafeInService, CleanClose, Tolerated, SignalInv,
     CloseInv, OneTurn, LibraryTurn, TurnOfTop, WorkerInv, UsesCaches, Working,
     Finished, Busy, WalkRace, Asked, InputTurn
<1>9. TypeOK'
  BY TypeShutdown DEF Shutdown
<1>10. QED
  BY <1>1, <1>2, <1>3, <1>4, <1>5, <1>6, <1>7, <1>8, <1>9

\* A collected thread did not end in time.
LEMMA JoinTimesOutStep ==
  ASSUME IInv, Defined, JoinTimesOut
  PROVE  IInv'
<1> USE DEF IInv, Defined, Running, JoinTimesOut, WorkRest, libVars, inpVars,
   ghosts, memVars, Dropped
<1>1. OneTurn' /\ TurnOfTop'
  BY Shapes DEF OneTurn, InputTurn, LibraryTurn, Busy, TurnOfTop, Top
<1>2. DownInv' /\ UpInv' /\ InputInv'
  BY Shapes DEF OneTurn, TurnOfTop, DownInv, Fresh, Parked, Busy, Waiting,
     Stopped, UpInv, InputTurn, InputInv, LibraryTurn, Top
<1>3. CallsInv'
  BY Shapes DEF CallsInv, OneTurn, TurnOfTop, LibraryTurn, Top, Parked, Busy,
     Waiting, Stopped
<1>4. WorkerInv'
  BY Shapes DEF WorkerInv, UsesCaches, Working, Finished, Asked, TurnOfTop,
     CallsInv, Top, Busy, Waiting
<1>5. TreeInv'
  BY Shapes DEF TreeInv, Busy, Waiting, Stopped
<1>6. SignalInv' /\ CloseInv'
  BY Shapes, SignalShapes DEF SignalInv, Tolerated, Busy, Waiting, Working,
     Finished, CloseInv, OneTurn, LibraryTurn
<1>7. RegisteredHelperLives'
  BY Shapes DEF RegisteredHelperLives, SignalInv
<1>8. SafeInService' /\ CleanClose'
  BY Shapes, SignalShapes DEF SafeInService, CleanClose, Tolerated, SignalInv,
     CloseInv, OneTurn, LibraryTurn, TurnOfTop, WorkerInv, UsesCaches, Working,
     Finished, Busy, WalkRace, Asked, InputTurn
<1>9. TypeOK'
  BY TypeShutdown DEF Shutdown
<1>10. QED
  BY <1>1, <1>2, <1>3, <1>4, <1>5, <1>6, <1>7, <1>8, <1>9

\* All collected threads are done with.
LEMMA SignalHandlerEndsStep ==
  ASSUME IInv, Defined, SignalHandlerEnds
  PROVE  IInv'
<1> USE DEF IInv, Defined, Running, SignalHandlerEnds, WorkRest, libVars,
   inpVars, ghosts, memVars
<1>1. OneTurn' /\ TurnOfTop'
  BY Shapes DEF OneTurn, InputTurn, LibraryTurn, Busy, TurnOfTop, Top
<1>2. DownInv' /\ UpInv' /\ InputInv'
  BY Shapes DEF OneTurn, TurnOfTop, DownInv, Fresh, Parked, Busy, Waiting,
     Stopped, UpInv, InputTurn, InputInv, LibraryTurn, Top
<1>3. CallsInv'
  BY Shapes DEF CallsInv, OneTurn, TurnOfTop, LibraryTurn, Top, Parked, Busy,
     Waiting, Stopped
<1>4. WorkerInv'
  BY Shapes DEF WorkerInv, UsesCaches, Working, Finished, Asked, TurnOfTop,
     CallsInv, Top, Busy, Waiting
<1>5. TreeInv'
  BY Shapes DEF TreeInv, Busy, Waiting, Stopped
<1>6. SignalInv' /\ CloseInv'
  BY Shapes, SignalShapes DEF SignalInv, Tolerated, Busy, Waiting, Working,
     Finished, CloseInv, OneTurn, LibraryTurn
<1>7. RegisteredHelperLives'
  BY Shapes DEF RegisteredHelperLives, SignalInv
<1>8. SafeInService' /\ CleanClose'
  BY Shapes, SignalShapes DEF SafeInService, CleanClose, Tolerated, SignalInv,
     CloseInv, OneTurn, LibraryTurn, TurnOfTop, WorkerInv, UsesCaches, Working,
     Finished, Busy, WalkRace, Asked, InputTurn
<1>9. TypeOK'
  BY TypeShutdown DEF Shutdown
<1>10. QED
  BY <1>1, <1>2, <1>3, <1>4, <1>5, <1>6, <1>7, <1>8, <1>9

\* main frees the caches.
LEMMA CleanUpStep ==
  ASSUME IInv, Defined, CleanUp
  PROVE  IInv'
<1> USE DEF IInv, Defined, Running, CleanUp, WorkRest, libVars, inpVars,
   ghosts, memVars
<1>1. OneTurn' /\ TurnOfTop'
  BY Shapes DEF OneTurn, InputTurn, LibraryTurn, Busy, TurnOfTop, Top
<1>2. DownInv' /\ UpInv' /\ InputInv'
  BY Shapes DEF OneTurn, TurnOfTop, DownInv, Fresh, Parked, Busy, Waiting,
     Stopped, UpInv, InputTurn, InputInv, LibraryTurn, Top
<1>3. CallsInv'
  BY Shapes DEF CallsInv, OneTurn, TurnOfTop, LibraryTurn, Top, Parked, Busy,
     Waiting, Stopped
<1>4. WorkerInv'
  BY Shapes DEF WorkerInv, UsesCaches, Working, Finished, Asked, TurnOfTop,
     CallsInv, Top, Busy, Waiting
<1>5. TreeInv'
  BY Shapes DEF TreeInv, Busy, Waiting, Stopped
<1>6. SignalInv' /\ CloseInv'
  BY Shapes, SignalShapes DEF SignalInv, Tolerated, Busy, Waiting, Working,
     Finished, CloseInv, OneTurn, LibraryTurn
<1>7. RegisteredHelperLives'
  BY Shapes DEF RegisteredHelperLives, SignalInv
<1>8. SafeInService' /\ CleanClose'
  BY Shapes, SignalShapes DEF SafeInService, CleanClose, Tolerated, SignalInv,
     CloseInv, OneTurn, LibraryTurn, TurnOfTop, WorkerInv, UsesCaches, Working,
     Finished, Busy, WalkRace, Asked, InputTurn
<1>9. TypeOK'
  BY TypeShutdown DEF Shutdown
<1>10. QED
  BY <1>1, <1>2, <1>3, <1>4, <1>5, <1>6, <1>7, <1>8, <1>9

\* main gives up on the input thread, which had a request in hand.
LEMMA InputTimesOutStep ==
  ASSUME IInv, Defined, InputTimesOut
  PROVE  IInv'
<1> USE DEF IInv, Defined, Running, InputTimesOut, WorkRest, libVars, inpVars,
   ghosts, memVars
<1>1. OneTurn' /\ TurnOfTop'
  BY Shapes DEF OneTurn, InputTurn, LibraryTurn, Busy, TurnOfTop, Top
<1>2. DownInv' /\ UpInv' /\ InputInv'
  BY Shapes DEF OneTurn, TurnOfTop, DownInv, Fresh, Parked, Busy, Waiting,
     Stopped, UpInv, InputTurn, InputInv, LibraryTurn, Top
<1>3. CallsInv'
  BY Shapes DEF CallsInv, OneTurn, TurnOfTop, LibraryTurn, Top, Parked, Busy,
     Waiting, Stopped
<1>4. WorkerInv'
  BY Shapes DEF WorkerInv, UsesCaches, Working, Finished, Asked, TurnOfTop,
     CallsInv, Top, Busy, Waiting
<1>5. TreeInv'
  BY Shapes DEF TreeInv, Busy, Waiting, Stopped
<1>6. SignalInv' /\ CloseInv'
  BY Shapes, SignalShapes DEF SignalInv, Tolerated, Busy, Waiting, Working,
     Finished, CloseInv, OneTurn, LibraryTurn
<1>7. RegisteredHelperLives'
  BY Shapes DEF RegisteredHelperLives, SignalInv
<1>8. SafeInService' /\ CleanClose'
  <2>1. InputTurn
    BY DEF InputTurn, TypeOK, EndsInTime, SignalInv
  <2>2. calls # <<>> /\ pending
    BY <2>1 DEF OneTurn, LibraryTurn, SignalInv
  <2>3. QED
    BY <2>2 DEF SafeInService, CleanClose, CloseInv
<1>9. TypeOK'
  BY TypeShutdown DEF Shutdown
<1>10. QED
  BY <1>1, <1>2, <1>3, <1>4, <1>5, <1>6, <1>7, <1>8, <1>9

\* Undefined behaviour ends the process.
LEMMA CrashStep ==
  ASSUME IInv, Running, Crash
  PROVE  IInv'
<1> USE DEF IInv, Defined, Running, Crash, WorkRest, libVars, inpVars, ghosts,
   memVars
<1>1. OneTurn' /\ TurnOfTop'
  BY Shapes DEF OneTurn, InputTurn, LibraryTurn, Busy, TurnOfTop, Top
<1>2. DownInv' /\ UpInv' /\ InputInv'
  BY Shapes DEF OneTurn, TurnOfTop, DownInv, Fresh, Parked, Busy, Waiting,
     Stopped, UpInv, InputTurn, InputInv, LibraryTurn, Top
<1>3. CallsInv'
  BY Shapes DEF CallsInv, OneTurn, TurnOfTop, LibraryTurn, Top, Parked, Busy,
     Waiting, Stopped
<1>4. WorkerInv'
  BY Shapes DEF WorkerInv, UsesCaches, Working, Finished, Asked, TurnOfTop,
     CallsInv, Top, Busy, Waiting
<1>5. TreeInv'
  BY Shapes DEF TreeInv, Busy, Waiting, Stopped
<1>6. SignalInv' /\ CloseInv'
  BY Shapes, SignalShapes DEF SignalInv, Tolerated, Busy, Waiting, Working,
     Finished, CloseInv, OneTurn, LibraryTurn
<1>7. RegisteredHelperLives'
  BY Shapes DEF RegisteredHelperLives, SignalInv
<1>8. SafeInService' /\ CleanClose'
  BY Shapes, SignalShapes DEF SafeInService, CleanClose, Tolerated, SignalInv,
     CloseInv, OneTurn, LibraryTurn, TurnOfTop, WorkerInv, UsesCaches, Working,
     Finished, Busy, WalkRace, Asked, InputTurn
<1>9. TypeOK'
  BY DEF TypeOK
<1>10. QED
  BY <1>1, <1>2, <1>3, <1>4, <1>5, <1>6, <1>7, <1>8, <1>9

\* Every step of the shutdown preserves the invariant.
LEMMA ShutdownStep ==
  ASSUME IInv, Defined, Shutdown
  PROVE  IInv'
  BY SignalStep, VisitStep, WalkEndsStep, JoinStep, JoinTimesOutStep,
     SignalHandlerEndsStep, CleanUpStep, InputTimesOutStep DEF Shutdown

-----------------------------------------------------------------------------
(* The invariant, the input thread's steps                                 *)

\* The input thread takes a message and the turn.
LEMMA InputRecvStep ==
  ASSUME IInv, Defined, InputRecv
  PROVE  IInv'
<1> USE DEF IInv, Defined, Running, InputRecv, libVars, inpVars, sigVars,
   memVars, ghosts
<1>1. OneTurn' /\ TurnOfTop'
  BY Shapes, HeadTypes DEF OneTurn, InputTurn, LibraryTurn, Busy, TurnOfTop,
     Top
<1>2. DownInv' /\ UpInv' /\ InputInv'
  BY Shapes, HeadTypes DEF OneTurn, TurnOfTop, DownInv, Fresh, Parked, Busy,
     Waiting, Stopped, UpInv, InputTurn, InputInv, LibraryTurn, Top
<1>3. CallsInv'
  BY Shapes, HeadTypes DEF CallsInv, OneTurn, TurnOfTop, LibraryTurn, Top,
     Parked, Busy, Waiting, Stopped
<1>4. WorkerInv'
  BY Shapes, HeadTypes DEF WorkerInv, UsesCaches, Working, Finished, Asked,
     TurnOfTop, CallsInv, Top, Busy, Waiting
<1>5. TreeInv'
  BY Shapes, HeadTypes DEF TreeInv, Busy, Waiting, Stopped
<1>6. SignalInv' /\ CloseInv'
  BY Shapes, HeadTypes, SignalShapes DEF SignalInv, Tolerated, Busy, Waiting,
     Working, Finished, CloseInv, OneTurn, LibraryTurn
<1>7. RegisteredHelperLives'
  BY Shapes, HeadTypes DEF RegisteredHelperLives, SignalInv
<1>8. SafeInService' /\ CleanClose'
  BY Shapes, HeadTypes, SignalShapes DEF SafeInService, CleanClose, Tolerated,
     SignalInv, CloseInv, OneTurn, LibraryTurn, TurnOfTop, WorkerInv,
     UsesCaches, Working, Finished, Busy, WalkRace, Asked, InputTurn
<1>9. TypeOK'
  BY TypeInput DEF InputThread, IInv
<1>10. QED
  BY <1>1, <1>2, <1>3, <1>4, <1>5, <1>6, <1>7, <1>8, <1>9

\* probe_reset: no worker is about, and the reply goes out.
LEMMA InputResetStep ==
  ASSUME IInv, Defined, InputReset
  PROVE  IInv'
<1> USE DEF IInv, Defined, Running, InputReset, libVars, inpVars, sigVars,
   memVars, ghosts
<1>1. /\ down # <<>> /\ down[1].r = "none" /\ Top = "none" /\ calls # <<>>
      /\ ~serving /\ up = <<>> /\ ~InputTurn
      /\ \A s \in Requests : pc[s] \notin Busy
  BY HeadTypes DEF DownInv, TurnOfTop, OneTurn, LibraryTurn
<1>2. resets > 0 /\ \A r \in Requests : ~UsesCaches(r)
  BY <1>1, CallsShape DEF WorkerInv, Asked, CallsInv, Top
<1>3. down' = <<>> /\ Len(down') <= 1
  <2>1. Tail(down) \in Seq(Requested) /\ Len(Tail(down)) <= 0
    BY <1>1, Shapes, HeadTypes DEF OneTurn
  <2>2. QED
    BY <2>1, EmptySeq
<1>4. up' # <<>> /\ Len(up') <= 1 /\ up'[1].t = "done" /\ up'[1].r = "none"
  BY <1>1
<1>5. OneTurn' /\ TurnOfTop'
  BY <1>1, <1>2, <1>3, <1>4, Shapes DEF OneTurn, InputTurn, LibraryTurn, Busy,
     TurnOfTop, Top
<1>6. DownInv' /\ UpInv' /\ InputInv'
  BY <1>1, <1>2, <1>3, <1>4, Shapes DEF OneTurn, TurnOfTop, DownInv, Fresh,
     Parked, Busy, Waiting, Stopped, UpInv, InputTurn, InputInv, LibraryTurn,
     Top
<1>7. CallsInv'
  BY <1>1, <1>2, <1>3, <1>4, Shapes DEF CallsInv, OneTurn, TurnOfTop,
     LibraryTurn, Top, Parked, Busy, Waiting, Stopped
<1>8. WorkerInv'
  BY <1>1, <1>2, <1>3, <1>4, Shapes DEF WorkerInv, UsesCaches, Working,
     Finished, Asked, TurnOfTop, CallsInv, Top, Busy, Waiting
<1>9. TreeInv'
  BY <1>1, <1>2, <1>3, <1>4, Shapes DEF TreeInv, Busy, Waiting, Stopped
<1>10. SignalInv' /\ CloseInv'
  BY <1>1, <1>2, <1>3, <1>4, Shapes, SignalShapes DEF SignalInv, Tolerated,
     Busy, Waiting, Working, Finished, CloseInv, OneTurn, LibraryTurn
<1>11. RegisteredHelperLives'
  BY <1>1, <1>2, <1>3, <1>4, Shapes DEF RegisteredHelperLives, SignalInv
<1>12. SafeInService' /\ CleanClose'
  BY <1>1, <1>2, <1>3, <1>4, Shapes, SignalShapes DEF SafeInService,
     CleanClose, Tolerated, SignalInv, CloseInv, OneTurn, LibraryTurn,
     TurnOfTop, WorkerInv, UsesCaches, Working, Finished, Busy, WalkRace,
     Asked, InputTurn
<1>13. TypeOK'
  BY TypeInput DEF InputThread, IInv
<1>14. QED
  BY <1>5, <1>6, <1>7, <1>8, <1>9, <1>10, <1>11, <1>12, <1>13

\* The waiting worker gets the reply and the turn.
LEMMA InputWakeStep ==
  ASSUME IInv, Defined, InputWake
  PROVE  IInv'
<1> USE DEF IInv, Defined, Running, InputWake, libVars, inpVars, sigVars,
   memVars, ghosts
<1>1. /\ calls # <<>> /\ ~serving /\ down = <<>> /\ up = <<>>
      /\ msg = Top /\ \A s \in Requests : pc[s] \notin Busy
      /\ InputTurn
  BY InputIsAlone DEF InputTurn
<1>2. OneTurn' /\ TurnOfTop'
  BY Shapes DEF OneTurn, InputTurn, LibraryTurn, Busy, TurnOfTop, Top
<1>3. DownInv' /\ UpInv' /\ InputInv'
  BY Shapes DEF OneTurn, TurnOfTop, DownInv, Fresh, Parked, Busy, Waiting,
     Stopped, UpInv, InputTurn, InputInv, LibraryTurn, Top
<1>4. CallsInv'
  <2>1. Parked(msg)
    BY DEF InputInv
  <2>2. \A k \in DOMAIN calls : k < Len(calls) => Parked(calls[k])'
    BY <1>1, TopIsNotBelow, Shapes DEF CallsInv, Parked
  <2>3. QED
    BY <1>1, <2>2 DEF CallsInv
<1>5. WorkerInv'
  BY Shapes DEF WorkerInv, UsesCaches, Working, Finished, Asked, TurnOfTop,
     CallsInv, Top, Busy, Waiting
<1>6. TreeInv'
  BY Shapes DEF TreeInv, Busy, Waiting, Stopped
<1>7. SignalInv' /\ CloseInv'
  BY Shapes, SignalShapes DEF SignalInv, Tolerated, Busy, Waiting, Working,
     Finished, CloseInv, OneTurn, LibraryTurn
<1>8. RegisteredHelperLives'
  BY Shapes DEF RegisteredHelperLives, SignalInv
<1>9. SafeInService' /\ CleanClose'
  <2>1. ~pending => Working(msg)
    BY DEF InputInv, Parked, Waiting, Stopped, Working, Finished, SignalInv,
           TreeInv
  <2>2. alive # "closing"
    BY <1>1 DEF CloseInv
  <2>3. QED
    BY <2>1, <2>2 DEF SafeInService, CleanClose, Tolerated
<1>10. TypeOK'
  BY TypeInput DEF InputThread, IInv
<1>11. QED
  BY <1>2, <1>3, <1>4, <1>5, <1>6, <1>7, <1>8, <1>9, <1>10

\* The command leaves the table; its worker may be anywhere by now.
LEMMA InputUnregisterStep ==
  ASSUME IInv, Defined, InputUnregister
  PROVE  IInv'
<1> USE DEF IInv, Defined, Running, InputUnregister, libVars, inpVars,
   sigVars, memVars, ghosts
<1>1. OneTurn' /\ TurnOfTop'
  BY Shapes DEF OneTurn, InputTurn, LibraryTurn, Busy, TurnOfTop, Top
<1>2. DownInv' /\ UpInv' /\ InputInv'
  BY Shapes DEF OneTurn, TurnOfTop, DownInv, Fresh, Parked, Busy, Waiting,
     Stopped, UpInv, InputTurn, InputInv, LibraryTurn, Top
<1>3. CallsInv'
  BY Shapes DEF CallsInv, OneTurn, TurnOfTop, LibraryTurn, Top, Parked, Busy,
     Waiting, Stopped
<1>4. WorkerInv'
  BY Shapes DEF WorkerInv, UsesCaches, Working, Finished, Asked, TurnOfTop,
     CallsInv, Top, Busy, Waiting
<1>5. TreeInv'
  BY Shapes DEF TreeInv, Busy, Waiting, Stopped
<1>6. SignalInv' /\ CloseInv'
  BY Shapes, SignalShapes DEF SignalInv, Tolerated, Busy, Waiting, Working,
     Finished, CloseInv, OneTurn, LibraryTurn
<1>7. RegisteredHelperLives'
  BY Shapes DEF RegisteredHelperLives, SignalInv
<1>8. SafeInService' /\ CleanClose'
  BY Shapes, SignalShapes DEF SafeInService, CleanClose, Tolerated, SignalInv,
     CloseInv, OneTurn, LibraryTurn, TurnOfTop, WorkerInv, UsesCaches, Working,
     Finished, Busy, WalkRace, Asked, InputTurn
<1>9. TypeOK'
  BY TypeInput DEF InputThread, IInv
<1>10. QED
  BY <1>1, <1>2, <1>3, <1>4, <1>5, <1>6, <1>7, <1>8, <1>9

\* A request goes to the cache or to a new worker record.
LEMMA InputHandleStep ==
  ASSUME IInv, Defined, InputHandle
  PROVE  IInv'
<1> USE DEF IInv, Defined, Running, InputHandle, libVars, inpVars, sigVars,
   memVars, ghosts, WalkRace
<1>1. /\ calls # <<>> /\ ~serving /\ down = <<>> /\ up = <<>>
      /\ msg = Top /\ \A s \in Requests : pc[s] \notin Busy
      /\ InputTurn
  BY InputIsAlone DEF InputTurn
<1>2. Fresh(msg)
  BY DEF InputInv
<1>3. \/ /\ known' = known \union {ObjectOf[msg]} /\ input' = "answer"
         /\ rec' = rec /\ tree' = tree /\ bad' = bad
      \/ /\ ObjectOf[msg] \notin known /\ known' = known /\ input' = "spawn"
         /\ rec' = [rec EXCEPT ![msg] = "live"] /\ tree' = tree \union {msg}
         /\ bad' \subseteq bad \union {"tree"}
         /\ bad' = bad \/ handler = "walk"
  OBVIOUS
<1>4. OneTurn' /\ TurnOfTop'
  BY <1>1, <1>2, Shapes DEF OneTurn, InputTurn, LibraryTurn, Busy, TurnOfTop,
     Top
<1>5. DownInv' /\ UpInv' /\ InputInv'
  BY <1>1, <1>2, Shapes DEF OneTurn, TurnOfTop, DownInv, Fresh, Parked, Busy,
     Waiting, Stopped, UpInv, InputTurn, InputInv, LibraryTurn, Top
<1>6. CallsInv'
  BY <1>1, <1>2, Shapes DEF CallsInv, OneTurn, TurnOfTop, LibraryTurn, Top,
     Parked, Busy, Waiting, Stopped
<1>7. WorkerInv'
  <2>1. \A s \in Requests :
            UsesCaches(s) => Asked(s) /\ ObjectOf[s] # ObjectOf[msg]
    <3> SUFFICES ASSUME NEW s \in Requests, UsesCaches(s)
                 PROVE  Asked(s) /\ ObjectOf[s] # ObjectOf[msg]
      OBVIOUS
    <3>1. PICK k \in DOMAIN calls : calls[k] = s
      BY DEF WorkerInv, Asked
    <3>2. s # msg
      BY <1>2 DEF Fresh, UsesCaches, Working, Finished
    <3>3. k < Len(calls)
      BY <1>1, <3>1, <3>2, CallsShape DEF Top
    <3>4. QED
      BY <1>1, <3>1, <3>3, TopIsNotBelow DEF Asked
  <2>2. \A s \in Requests : UsesCaches(s)' => UsesCaches(s) /\ Asked(s)'
    BY <2>1 DEF UsesCaches, Working, Finished, Asked
  <2>3. known' \subseteq known \union {ObjectOf[msg]}
    BY <1>3
  <2>4. \A s \in Requests : rec'[s] = "none" => rec[s] = "none"
    BY <1>3, Shapes
  <2>5. QED
    BY <2>1, <2>2, <2>3, <2>4 DEF WorkerInv
<1>8. TreeInv'
  <2>1. \A s \in tree : s # msg
    BY <1>2 DEF TreeInv, Fresh
  <2>2. \A s \in tree : rec'[s] = rec[s] /\ pc[s] # "none"
    BY <1>2, <1>3, <2>1, Shapes DEF TreeInv, Busy, Waiting, Stopped
  <2>3. \A s \in tree' : \/ s \in tree
                        \/ /\ s = msg /\ input' = "spawn" /\ rec'[s] = "live"
                           /\ pc[s] = "none"
    BY <1>2, <1>3, Shapes DEF Fresh
  <2>4. QED
    BY <2>2, <2>3 DEF TreeInv
<1>9. SignalInv' /\ CloseInv'
  <2>1. (bad \subseteq Tolerated)' => bad \subseteq Tolerated
    BY DEF Tolerated
  <2>2. QED
    BY <1>1, <2>1 DEF SignalInv, CloseInv
<1>10. RegisteredHelperLives'
  BY <1>1, <1>2, Shapes DEF RegisteredHelperLives, SignalInv
<1>11. SafeInService' /\ CleanClose'
  <2>1. ~pending => bad' = bad
    BY <1>3 DEF SignalInv
  <2>2. alive # "closing"
    BY <1>1 DEF CloseInv
  <2>3. QED
    BY <2>1, <2>2 DEF SafeInService, CleanClose, Tolerated
<1>12. TypeOK'
  BY TypeInput DEF InputThread, IInv
<1>13. QED
  BY <1>4, <1>5, <1>6, <1>7, <1>8, <1>9, <1>10, <1>11, <1>12

\* The thread of the new worker exists and has the turn.
LEMMA InputSpawnStep ==
  ASSUME IInv, Defined, InputSpawn
  PROVE  IInv'
<1> USE DEF IInv, Defined, Running, InputSpawn, libVars, inpVars, sigVars,
   memVars, ghosts
<1>1. /\ calls # <<>> /\ ~serving /\ down = <<>> /\ up = <<>>
      /\ msg = Top /\ \A s \in Requests : pc[s] \notin Busy
      /\ InputTurn
  BY InputIsAlone DEF InputTurn
<1>2. /\ msg \in Requests /\ pc[msg] = "none" /\ answers[msg] = 0
      /\ rec[msg] = "live" /\ ObjectOf[msg] \notin known
  BY DEF InputInv
<1>3. pc'[msg] = "start" /\ \A s \in Requests : s # msg => pc'[s] = pc[s]
  BY <1>2, Shapes
<1>4. OneTurn' /\ TurnOfTop'
  BY <1>1, <1>2, <1>3, Shapes DEF OneTurn, InputTurn, LibraryTurn, Busy,
     TurnOfTop, Top
<1>5. DownInv' /\ UpInv' /\ InputInv'
  BY <1>1, <1>2, <1>3, Shapes DEF OneTurn, TurnOfTop, DownInv, Fresh, Parked,
     Busy, Waiting, Stopped, UpInv, InputTurn, InputInv, LibraryTurn, Top
<1>6. CallsInv'
  <2>1. \A k \in DOMAIN calls : k < Len(calls) => Parked(calls[k])'
    BY <1>1, <1>3, TopIsNotBelow, Shapes DEF CallsInv, Parked
  <2>2. QED
    BY <1>1, <2>1 DEF CallsInv
<1>7. WorkerInv'
  <2>1. Asked(msg)
    BY <1>1, CallsShape DEF Asked, Top
  <2>2. \A s \in Requests : s = msg \/ (UsesCaches(s)' <=> UsesCaches(s))
    BY <1>3 DEF UsesCaches, Working, Finished
  <2>3. QED
    BY <1>2, <1>3, <2>1, <2>2 DEF WorkerInv, Asked
<1>8. TreeInv'
  <2>1. \A s \in tree : s # msg => pc[s] # "none"
    BY DEF TreeInv, Busy, Waiting, Stopped
  <2>2. QED
    BY <1>2, <1>3, <2>1, Shapes DEF TreeInv, Busy
<1>9. SignalInv' /\ CloseInv'
  BY <1>1, <1>2, <1>3, Shapes, SignalShapes DEF SignalInv, Tolerated, Busy,
     Waiting, Working, Finished, CloseInv, OneTurn, LibraryTurn
<1>10. RegisteredHelperLives'
  <2>1. msg \notin waitq
    BY <1>2 DEF RegisteredHelperLives, SignalInv
  <2>2. QED
    BY <1>3, <2>1, Shapes DEF RegisteredHelperLives
<1>11. SafeInService' /\ CleanClose'
  BY <1>1, <1>2, <1>3, Shapes, SignalShapes DEF SafeInService, CleanClose,
     Tolerated, SignalInv, CloseInv, OneTurn, LibraryTurn, TurnOfTop,
     WorkerInv, UsesCaches, Working, Finished, Busy, WalkRace, Asked, InputTurn
<1>12. TypeOK'
  BY TypeInput DEF InputThread, IInv
<1>13. QED
  BY <1>4, <1>5, <1>6, <1>7, <1>8, <1>9, <1>10, <1>11, <1>12

\* pthread_create fails.
LEMMA InputSpawnFailsStep ==
  ASSUME IInv, Defined, InputSpawnFails
  PROVE  IInv'
<1> USE DEF IInv, Defined, Running, InputSpawnFails, libVars, inpVars, sigVars,
   memVars, ghosts, WalkRace
<1>1. OneTurn' /\ TurnOfTop'
  BY Shapes DEF OneTurn, InputTurn, LibraryTurn, Busy, TurnOfTop, Top
<1>2. DownInv' /\ UpInv' /\ InputInv'
  BY Shapes DEF OneTurn, TurnOfTop, DownInv, Fresh, Parked, Busy, Waiting,
     Stopped, UpInv, InputTurn, InputInv, LibraryTurn, Top
<1>3. CallsInv'
  BY Shapes DEF CallsInv, OneTurn, TurnOfTop, LibraryTurn, Top, Parked, Busy,
     Waiting, Stopped
<1>4. WorkerInv'
  BY Shapes DEF WorkerInv, UsesCaches, Working, Finished, Asked, TurnOfTop,
     CallsInv, Top, Busy, Waiting
<1>5. TreeInv'
  BY Shapes DEF TreeInv, Busy, Waiting, Stopped
<1>6. SignalInv' /\ CloseInv'
  BY Shapes, SignalShapes DEF SignalInv, Tolerated, Busy, Waiting, Working,
     Finished, CloseInv, OneTurn, LibraryTurn
<1>7. RegisteredHelperLives'
  BY Shapes DEF RegisteredHelperLives, SignalInv
<1>8. SafeInService' /\ CleanClose'
  BY Shapes, SignalShapes DEF SafeInService, CleanClose, Tolerated, SignalInv,
     CloseInv, OneTurn, LibraryTurn, TurnOfTop, WorkerInv, UsesCaches, Working,
     Finished, Busy, WalkRace, Asked, InputTurn
<1>9. TypeOK'
  BY TypeInput DEF InputThread, IInv
<1>10. QED
  BY <1>1, <1>2, <1>3, <1>4, <1>5, <1>6, <1>7, <1>8, <1>9

\* The input thread replies itself.
LEMMA InputAnswerStep ==
  ASSUME IInv, Defined, InputAnswer
  PROVE  IInv'
<1> USE DEF IInv, Defined, Running, InputAnswer, libVars, inpVars, sigVars,
   memVars, ghosts
<1>1. /\ calls # <<>> /\ ~serving /\ down = <<>> /\ up = <<>>
      /\ msg = Top /\ \A s \in Requests : pc[s] \notin Busy
      /\ InputTurn
  BY InputIsAlone DEF InputTurn
<1>2. msg \in Requests /\ pc[msg] = "none" /\ answers[msg] = 0
  BY DEF InputInv
<1>3. \A s \in Requests : s # msg => answers'[s] = answers[s]
  BY Shapes
<1>4. OneTurn' /\ TurnOfTop'
  BY Shapes DEF OneTurn, InputTurn, LibraryTurn, Busy, TurnOfTop, Top
<1>5. DownInv' /\ UpInv' /\ InputInv'
  BY Shapes DEF OneTurn, TurnOfTop, DownInv, Fresh, Parked, Busy, Waiting,
     Stopped, UpInv, InputTurn, InputInv, LibraryTurn, Top
<1>6. CallsInv'
  <2>1. \A k \in DOMAIN calls : k < Len(calls) => Parked(calls[k])'
    BY <1>1, <1>3, TopIsNotBelow DEF CallsInv, Parked
  <2>2. QED
    BY <1>1, <2>1 DEF CallsInv
<1>7. WorkerInv'
  <2>1. answers'[msg] \in {0, 1}
    BY <1>2, Shapes
  <2>2. ~UsesCaches(msg) /\ pc[msg] # "free"
    BY <1>2 DEF UsesCaches, Working, Finished
  <2>3. answers'[msg] <= 1
    BY <2>1
  <2>4. QED
    BY <1>3, <2>2, <2>3 DEF WorkerInv, Asked, UsesCaches, Working, Finished
<1>8. TreeInv'
  BY Shapes DEF TreeInv, Busy, Waiting, Stopped
<1>9. SignalInv' /\ CloseInv'
  BY Shapes, SignalShapes DEF SignalInv, Tolerated, Busy, Waiting, Working,
     Finished, CloseInv, OneTurn, LibraryTurn
<1>10. RegisteredHelperLives'
  BY Shapes DEF RegisteredHelperLives, SignalInv
<1>11. SafeInService' /\ CleanClose'
  BY Shapes, SignalShapes DEF SafeInService, CleanClose, Tolerated, SignalInv,
     CloseInv, OneTurn, LibraryTurn, TurnOfTop, WorkerInv, UsesCaches, Working,
     Finished, Busy, WalkRace, Asked, InputTurn
<1>12. TypeOK'
  BY TypeInput DEF InputThread, IInv
<1>13. QED
  BY <1>4, <1>5, <1>6, <1>7, <1>8, <1>9, <1>10, <1>11, <1>12

\* The input thread's loop ends.
LEMMA InputEndsStep ==
  ASSUME IInv, Defined, InputEnds
  PROVE  IInv'
<1> USE DEF IInv, Defined, Running, InputEnds, libVars, inpVars, sigVars,
   memVars, ghosts
<1>1. OneTurn' /\ TurnOfTop'
  BY Shapes DEF OneTurn, InputTurn, LibraryTurn, Busy, TurnOfTop, Top
<1>2. DownInv' /\ UpInv' /\ InputInv'
  BY Shapes DEF OneTurn, TurnOfTop, DownInv, Fresh, Parked, Busy, Waiting,
     Stopped, UpInv, InputTurn, InputInv, LibraryTurn, Top
<1>3. CallsInv'
  BY Shapes DEF CallsInv, OneTurn, TurnOfTop, LibraryTurn, Top, Parked, Busy,
     Waiting, Stopped
<1>4. WorkerInv'
  BY Shapes DEF WorkerInv, UsesCaches, Working, Finished, Asked, TurnOfTop,
     CallsInv, Top, Busy, Waiting
<1>5. TreeInv'
  BY Shapes DEF TreeInv, Busy, Waiting, Stopped
<1>6. SignalInv' /\ CloseInv'
  BY Shapes, SignalShapes DEF SignalInv, Tolerated, Busy, Waiting, Working,
     Finished, CloseInv, OneTurn, LibraryTurn
<1>7. RegisteredHelperLives'
  BY Shapes DEF RegisteredHelperLives, SignalInv
<1>8. SafeInService' /\ CleanClose'
  BY Shapes, SignalShapes DEF SafeInService, CleanClose, Tolerated, SignalInv,
     CloseInv, OneTurn, LibraryTurn, TurnOfTop, WorkerInv, UsesCaches, Working,
     Finished, Busy, WalkRace, Asked, InputTurn
<1>9. TypeOK'
  BY TypeInput DEF InputThread, IInv
<1>10. QED
  BY <1>1, <1>2, <1>3, <1>4, <1>5, <1>6, <1>7, <1>8, <1>9

\* Every step of the input thread preserves the invariant.
LEMMA InputStep ==
  ASSUME IInv, Defined, InputThread \/ InputSpawnFails
  PROVE  IInv'
  BY InputRecvStep, InputResetStep, InputWakeStep, InputUnregisterStep,
     InputHandleStep, InputSpawnStep, InputSpawnFailsStep, InputAnswerStep,
     InputEndsStep DEF InputThread

-----------------------------------------------------------------------------
(* The invariant, the library's steps                                      *)

\* The library opens a call.
LEMMA LibAskStep ==
  ASSUME IInv, Defined, NEW r \in Requests, LibAsk(r)
  PROVE  IInv'
<1> USE DEF IInv, Defined, Running, LibAsk, LibVarsRest, SignalRest, inpVars,
   sigVars, memVars
<1>1. /\ down = <<>> /\ up = <<>> /\ ~InputTurn
      /\ \A s \in Requests : pc[s] \notin Busy
  BY DEF OneTurn, LibraryTurn
<1>2. down' # <<>> /\ Len(down') <= 1 /\ down'[1].t = "msg" /\ down'[1].r = r
  BY <1>1
<1>3. /\ calls' # <<>> /\ Len(calls') = Len(calls) + 1
      /\ DOMAIN calls' = 1 .. Len(calls) + 1
      /\ \A k \in DOMAIN calls : calls'[k] = calls[k]
      /\ Top' = r /\ calls'[Len(calls) + 1] = r
  <2>1. calls \in Seq(Senders) /\ r \in Senders
    BY DEF TypeOK, Senders
  <2>2. QED
    BY <2>1, CallsShape, AppendProperties, LenProperties DEF Top
<1>4. Fresh(r)
  BY Shapes DEF WorkerInv, Fresh
<1>5. OneTurn' /\ TurnOfTop'
  BY <1>1, <1>2, <1>3, <1>4, Shapes DEF OneTurn, InputTurn, LibraryTurn, Busy,
     TurnOfTop, Top
<1>6. DownInv' /\ UpInv' /\ InputInv'
  BY <1>1, <1>2, <1>4 DEF DownInv, UpInv, InputInv, InputTurn, Fresh
<1>7. CallsInv'
  <2>1. \A k \in DOMAIN calls : Parked(calls[k])
    <3> SUFFICES ASSUME NEW k \in DOMAIN calls PROVE Parked(calls[k])
      OBVIOUS
    <3>1. serving /\ Parked(Top)
      BY CallsShape DEF CallsInv
    <3>2. k = Len(calls) \/ k < Len(calls)
      BY CallsShape
    <3>3. QED
      BY <3>1, <3>2 DEF CallsInv, Top
  <2>2. \A k \in DOMAIN calls : ObjectOf[calls[k]] # ObjectOf[r]
    BY <2>1 DEF UnderEvaluation, Parked
  <2>3. \A k \in DOMAIN calls' : k \in DOMAIN calls \/ k = Len(calls) + 1
    BY <1>3, CallsShape
  <2>4. \A k \in DOMAIN calls' :
            /\ k < Len(calls') => Parked(calls'[k])
            /\ calls'[k] # "none"
    <3> SUFFICES ASSUME NEW k \in DOMAIN calls'
                 PROVE  /\ k < Len(calls') => Parked(calls'[k])
                        /\ calls'[k] # "none"
      OBVIOUS
    <3>1. CASE k \in DOMAIN calls
      BY <1>3, <2>1, <3>1 DEF Parked
    <3>2. CASE k = Len(calls) + 1
      BY <1>3, <3>2, CallsShape
    <3>3. QED
      BY <2>3, <3>1, <3>2
  <2>5. \A j, k \in DOMAIN calls' :
            j # k => ObjectOf[calls'[j]] # ObjectOf[calls'[k]]
    BY <1>3, <2>2, <2>3 DEF CallsInv
  <2>6. QED
    BY <2>4, <2>5 DEF CallsInv, Parked
<1>8. WorkerInv'
  <2>1. \A s : Asked(s) => Asked(s)'
    BY <1>3, CallsShape DEF Asked
  <2>2. QED
    BY <2>1 DEF WorkerInv, UsesCaches, Working, Finished
<1>9. TreeInv'
  BY <1>1, <1>2, <1>3, <1>4, Shapes DEF TreeInv, Busy, Waiting, Stopped
<1>10. SignalInv' /\ CloseInv'
  BY <1>1, <1>2, <1>3, <1>4, Shapes, SignalShapes DEF SignalInv, Tolerated,
     Busy, Waiting, Working, Finished, CloseInv, OneTurn, LibraryTurn
<1>11. RegisteredHelperLives'
  BY <1>1, <1>2, <1>3, <1>4, Shapes DEF RegisteredHelperLives, SignalInv
<1>12. SafeInService' /\ CleanClose'
  BY <1>1, <1>2, <1>3, <1>4, Shapes, SignalShapes DEF SafeInService,
     CleanClose, Tolerated, SignalInv, CloseInv, OneTurn, LibraryTurn,
     TurnOfTop, WorkerInv, UsesCaches, Working, Finished, Busy, WalkRace,
     Asked, InputTurn
<1>13. TypeOK'
  BY TypeLibrary DEF Library, IInv
<1>14. QED
  BY <1>5, <1>6, <1>7, <1>8, <1>9, <1>10, <1>11, <1>12, <1>13

\* The library sends a reset, with no call open.
LEMMA LibResetStep ==
  ASSUME IInv, Defined, LibReset
  PROVE  IInv'
<1> USE DEF IInv, Defined, Running, LibReset, LibVarsRest, SignalRest, inpVars,
   sigVars, memVars
<1>1. /\ down = <<>> /\ up = <<>> /\ ~InputTurn
      /\ \A s \in Requests : pc[s] \notin Busy
  BY DEF OneTurn, LibraryTurn
<1>2. /\ down' # <<>> /\ Len(down') <= 1 /\ down'[1].t = "reset"
      /\ down'[1].r = "none" /\ calls' # <<>> /\ Top' = "none" /\ ~serving
  BY <1>1 DEF Top, CallsInv
<1>3. resets' > 0 /\ (bad \subseteq Tolerated)'
  <2>1. resets' > 0
    <3>1. resets \in Nat /\ resets' = resets + 1
      BY SignalShapes
    <3>2. QED
      BY <3>1
  <2>2. Tolerated \subseteq Tolerated'
    BY <2>1 DEF Tolerated
  <2>3. QED
    BY <2>1, <2>2
<1>4. OneTurn' /\ TurnOfTop'
  BY <1>1, <1>2, Shapes DEF OneTurn, InputTurn, LibraryTurn, Busy, TurnOfTop,
     Top
<1>5. DownInv' /\ UpInv' /\ InputInv'
  BY <1>1, <1>2, Shapes DEF OneTurn, TurnOfTop, DownInv, Fresh, Parked, Busy,
     Waiting, Stopped, UpInv, InputTurn, InputInv, LibraryTurn, Top
<1>6. CallsInv'
  <2>1. Len(calls') = 1 /\ DOMAIN calls' = {1}
    OBVIOUS
  <2>2. QED
    BY <1>2, <1>3, <2>1 DEF CallsInv
<1>7. WorkerInv'
  BY <1>1, <1>2, Shapes DEF WorkerInv, UsesCaches, Working, Finished, Asked,
     TurnOfTop, CallsInv, Top, Busy, Waiting
<1>8. TreeInv'
  BY <1>1, <1>2, Shapes DEF TreeInv, Busy, Waiting, Stopped
<1>9. SignalInv' /\ CloseInv'
  BY <1>3, SignalShapes DEF SignalInv, CloseInv
<1>10. RegisteredHelperLives'
  BY <1>1, <1>2, Shapes DEF RegisteredHelperLives, SignalInv
<1>11. SafeInService' /\ CleanClose'
  BY <1>3 DEF SafeInService, CleanClose
<1>12. TypeOK'
  BY TypeLibrary DEF Library, IInv
<1>13. QED
  BY <1>4, <1>5, <1>6, <1>7, <1>8, <1>9, <1>10, <1>11, <1>12

\* The library reads a command or an answer and has the turn.
LEMMA LibReadStep ==
  ASSUME IInv, Defined, LibRead
  PROVE  IInv'
<1> USE DEF IInv, Defined, Running, LibRead, LibVarsRest, SignalRest, inpVars,
   sigVars, memVars
<1>1. /\ up[1].r = Top /\ down = <<>> /\ ~InputTurn
      /\ Head(up) = up[1]
      /\ \A s \in Requests : pc[s] \notin Busy
  BY HeadTypes DEF OneTurn, TurnOfTop
<1>2. up' = <<>> /\ Len(up') <= 1
  <2>1. Tail(up) \in Seq(Answered) /\ Len(Tail(up)) <= 0
    BY Shapes, HeadTypes DEF OneTurn
  <2>2. QED
    BY <2>1, EmptySeq
<1>3. up[1].t = "cmd" => calls' = calls /\ serving' /\ Parked(Top)
  BY <1>1 DEF UpInv
<1>4. up[1].t # "cmd" =>
          /\ serving' <=> Len(calls) > 1
          /\ \A r \in Requests : Top = r => answers[r] = 1
          /\ Len(calls') = Len(calls) - 1 /\ DOMAIN calls' = 1 .. Len(calls) - 1
          /\ \A k \in DOMAIN calls' : calls'[k] = calls[k]
  <2>1. up[1].t # "cmd" => \A r \in Requests : Top = r => answers[r] = 1
    BY <1>1 DEF UpInv
  <2>2. up[1].t # "cmd" =>
            /\ serving' = (Len(calls) > 1)
            /\ calls' = SubSeq(calls, 1, Len(calls) - 1)
    BY <1>1
  <2>3. /\ Len(SubSeq(calls, 1, Len(calls) - 1)) = Len(calls) - 1
        /\ DOMAIN SubSeq(calls, 1, Len(calls) - 1) = 1 .. Len(calls) - 1
        /\ \A k \in 1 .. Len(calls) - 1 :
              SubSeq(calls, 1, Len(calls) - 1)[k] = calls[k]
    BY PopTypes, LenProperties
  <2>4. QED
    BY <2>1, <2>2, <2>3
<1>5. calls' = <<>> => up[1].t # "cmd"
  BY <1>3
<1>6. OneTurn' /\ TurnOfTop'
  BY <1>1, <1>2, <1>3, <1>4, <1>5, Shapes DEF OneTurn, InputTurn, LibraryTurn,
     Busy, TurnOfTop, Top
<1>7. DownInv' /\ UpInv' /\ InputInv'
  BY <1>1, <1>2, <1>3, <1>4, <1>5, Shapes DEF OneTurn, TurnOfTop, DownInv,
     Fresh, Parked, Busy, Waiting, Stopped, UpInv, InputTurn, InputInv,
     LibraryTurn, Top
<1>8. CallsInv'
  <2>1. CASE up[1].t = "cmd"
    BY <1>3, <2>1 DEF CallsInv, Top, Parked
  <2>2. CASE up[1].t # "cmd"
    <3>1. serving' => calls' # <<>> /\ Parked(Top)'
      BY <1>4, <2>2, CallsShape DEF CallsInv, Top, Parked
    <3>2. QED
      BY <1>4, <2>2, <3>1, CallsShape DEF CallsInv, Parked
  <2>3. QED
    BY <2>1, <2>2
<1>9. WorkerInv'
  <2>1. ASSUME NEW s \in Requests, UsesCaches(s) PROVE Asked(s)'
    <3>1. CASE up[1].t = "cmd"
      BY <1>3, <3>1, <2>1 DEF WorkerInv, Asked
    <3>2. CASE up[1].t # "cmd"
      <4>1. PICK k \in DOMAIN calls : calls[k] = s
        BY <2>1 DEF WorkerInv, Asked
      <4>2. s # Top
        BY <1>4, <2>1, <3>2 DEF WorkerInv
      <4>3. k \in 1 .. Len(calls) /\ k # Len(calls)
        BY <4>1, <4>2, CallsShape DEF Top
      <4>4. k \in 1 .. Len(calls) - 1
        BY <4>3, CallsShape
      <4>5. QED
        BY <1>4, <3>2, <4>1, <4>4 DEF Asked
    <3>3. QED
      BY <3>1, <3>2
  <2>2. QED
    BY <2>1 DEF WorkerInv, UsesCaches, Working, Finished
<1>10. TreeInv'
  BY <1>1, <1>2, <1>3, <1>4, <1>5, Shapes DEF TreeInv, Busy, Waiting, Stopped
<1>11. SignalInv' /\ CloseInv'
  BY <1>1, <1>2, <1>3, <1>4, <1>5, Shapes, SignalShapes DEF SignalInv,
     Tolerated, Busy, Waiting, Working, Finished, CloseInv, OneTurn,
     LibraryTurn
<1>12. RegisteredHelperLives'
  BY <1>1, <1>2, <1>3, <1>4, <1>5, Shapes DEF RegisteredHelperLives, SignalInv
<1>13. SafeInService' /\ CleanClose'
  BY <1>1, <1>2, <1>3, <1>4, <1>5, Shapes, SignalShapes DEF SafeInService,
     CleanClose, Tolerated, SignalInv, CloseInv, OneTurn, LibraryTurn,
     TurnOfTop, WorkerInv, UsesCaches, Working, Finished, Busy, WalkRace,
     Asked, InputTurn
<1>14. TypeOK'
  BY TypeLibrary DEF Library, IInv
<1>15. QED
  BY <1>6, <1>7, <1>8, <1>9, <1>10, <1>11, <1>12, <1>13, <1>14

\* The library replies to the command of its last call.
LEMMA LibReplyStep ==
  ASSUME IInv, Defined, LibReply
  PROVE  IInv'
<1> USE DEF IInv, Defined, Running, LibReply, LibVarsRest, SignalRest, inpVars,
   sigVars, memVars
<1>1. /\ down = <<>> /\ up = <<>> /\ ~InputTurn /\ calls # <<>> /\ Parked(Top)
      /\ \A s \in Requests : pc[s] \notin Busy
  BY DEF OneTurn, LibraryTurn, CallsInv
<1>2. /\ down' # <<>> /\ Len(down') <= 1 /\ down'[1].t = "reply"
      /\ down'[1].r = Top
  BY <1>1
<1>3. OneTurn' /\ TurnOfTop'
  BY <1>1, <1>2, Shapes DEF OneTurn, InputTurn, LibraryTurn, Busy, TurnOfTop,
     Top
<1>4. DownInv' /\ UpInv' /\ InputInv'
  BY <1>1, <1>2, Shapes DEF OneTurn, TurnOfTop, DownInv, Fresh, Parked, Busy,
     Waiting, Stopped, UpInv, InputTurn, InputInv, LibraryTurn, Top
<1>5. CallsInv'
  BY <1>1, <1>2, Shapes DEF CallsInv, OneTurn, TurnOfTop, LibraryTurn, Top,
     Parked, Busy, Waiting, Stopped
<1>6. WorkerInv'
  BY <1>1, <1>2, Shapes DEF WorkerInv, UsesCaches, Working, Finished, Asked,
     TurnOfTop, CallsInv, Top, Busy, Waiting
<1>7. TreeInv'
  BY <1>1, <1>2, Shapes DEF TreeInv, Busy, Waiting, Stopped
<1>8. SignalInv' /\ CloseInv'
  BY <1>1, <1>2, Shapes, SignalShapes DEF SignalInv, Tolerated, Busy, Waiting,
     Working, Finished, CloseInv, OneTurn, LibraryTurn
<1>9. RegisteredHelperLives'
  BY <1>1, <1>2, Shapes DEF RegisteredHelperLives, SignalInv
<1>10. SafeInService' /\ CleanClose'
  BY <1>1, <1>2, Shapes, SignalShapes DEF SafeInService, CleanClose, Tolerated,
     SignalInv, CloseInv, OneTurn, LibraryTurn, TurnOfTop, WorkerInv,
     UsesCaches, Working, Finished, Busy, WalkRace, Asked, InputTurn
<1>11. TypeOK'
  BY TypeLibrary DEF Library, IInv
<1>12. QED
  BY <1>3, <1>4, <1>5, <1>6, <1>7, <1>8, <1>9, <1>10, <1>11

\* The library closes the probe: with no call open no worker is left.
LEMMA LibCloseStep ==
  ASSUME IInv, Defined, LibClose
  PROVE  IInv'
<1> USE DEF IInv, Defined, Running, LibClose, LibVarsRest, SignalRest, inpVars,
   sigVars, memVars
<1>1. OneTurn' /\ TurnOfTop'
  BY Shapes DEF OneTurn, InputTurn, LibraryTurn, Busy, TurnOfTop, Top
<1>2. DownInv' /\ UpInv' /\ InputInv'
  BY Shapes DEF OneTurn, TurnOfTop, DownInv, Fresh, Parked, Busy, Waiting,
     Stopped, UpInv, InputTurn, InputInv, LibraryTurn, Top
<1>3. CallsInv'
  BY Shapes DEF CallsInv, OneTurn, TurnOfTop, LibraryTurn, Top, Parked, Busy,
     Waiting, Stopped
<1>4. WorkerInv'
  BY Shapes DEF WorkerInv, UsesCaches, Working, Finished, Asked, TurnOfTop,
     CallsInv, Top, Busy, Waiting
<1>5. TreeInv'
  BY Shapes DEF TreeInv, Busy, Waiting, Stopped
<1>6. SignalInv' /\ CloseInv'
  <2>1. \A s \in tree : FALSE
    <3> SUFFICES ASSUME NEW s \in tree PROVE FALSE
      OBVIOUS
    <3>1. pc[s] \notin Busy /\ ~InputTurn
      BY Shapes DEF OneTurn, LibraryTurn
    <3>2. pc[s] \notin Stopped
      BY Shapes DEF SignalInv, TreeInv, Stopped
    <3>3. pc[s] \in Waiting
      BY <3>1, <3>2 DEF TreeInv, InputTurn
    <3>4. UsesCaches(s)
      BY <3>3 DEF Waiting, UsesCaches, Working, Finished
    <3>5. QED
      BY <3>4, Shapes, CallsShape DEF WorkerInv, Asked
  <2>2. QED
    BY <2>1, SignalShapes DEF SignalInv, CloseInv, Tolerated
<1>7. RegisteredHelperLives'
  BY Shapes DEF RegisteredHelperLives, SignalInv
<1>8. SafeInService' /\ CleanClose'
  BY Shapes, SignalShapes DEF SafeInService, CleanClose, Tolerated, SignalInv,
     CloseInv, OneTurn, LibraryTurn, TurnOfTop, WorkerInv, UsesCaches, Working,
     Finished, Busy, WalkRace, Asked, InputTurn
<1>9. TypeOK'
  BY TypeLibrary DEF Library, IInv
<1>10. QED
  BY <1>1, <1>2, <1>3, <1>4, <1>5, <1>6, <1>7, <1>8, <1>9

\* The library ends.
LEMMA LibDiesStep ==
  ASSUME IInv, Defined, LibDies
  PROVE  IInv'
<1> USE DEF IInv, Defined, Running, LibDies, LibVarsRest, SignalRest, inpVars,
   sigVars, memVars
<1>1. OneTurn' /\ TurnOfTop'
  BY Shapes DEF OneTurn, InputTurn, LibraryTurn, Busy, TurnOfTop, Top
<1>2. DownInv' /\ UpInv' /\ InputInv'
  BY Shapes DEF OneTurn, TurnOfTop, DownInv, Fresh, Parked, Busy, Waiting,
     Stopped, UpInv, InputTurn, InputInv, LibraryTurn, Top
<1>3. CallsInv'
  BY Shapes DEF CallsInv, OneTurn, TurnOfTop, LibraryTurn, Top, Parked, Busy,
     Waiting, Stopped
<1>4. WorkerInv'
  BY Shapes DEF WorkerInv, UsesCaches, Working, Finished, Asked, TurnOfTop,
     CallsInv, Top, Busy, Waiting
<1>5. TreeInv'
  BY Shapes DEF TreeInv, Busy, Waiting, Stopped
<1>6. SignalInv' /\ CloseInv'
  BY Shapes, SignalShapes DEF SignalInv, Tolerated, Busy, Waiting, Working,
     Finished, CloseInv, OneTurn, LibraryTurn
<1>7. RegisteredHelperLives'
  BY Shapes DEF RegisteredHelperLives, SignalInv
<1>8. SafeInService' /\ CleanClose'
  BY Shapes, SignalShapes DEF SafeInService, CleanClose, Tolerated, SignalInv,
     CloseInv, OneTurn, LibraryTurn, TurnOfTop, WorkerInv, UsesCaches, Working,
     Finished, Busy, WalkRace, Asked, InputTurn
<1>9. TypeOK'
  BY TypeLibrary DEF Library, IInv
<1>10. QED
  BY <1>1, <1>2, <1>3, <1>4, <1>5, <1>6, <1>7, <1>8, <1>9

\* Somebody sends a signal.
LEMMA AbortStep ==
  ASSUME IInv, Defined, Abort
  PROVE  IInv'
<1> USE DEF IInv, Defined, Running, Abort, LibVarsRest, SignalRest, inpVars,
   sigVars, memVars
<1>1. OneTurn' /\ TurnOfTop'
  BY Shapes DEF OneTurn, InputTurn, LibraryTurn, Busy, TurnOfTop, Top
<1>2. DownInv' /\ UpInv' /\ InputInv'
  BY Shapes DEF OneTurn, TurnOfTop, DownInv, Fresh, Parked, Busy, Waiting,
     Stopped, UpInv, InputTurn, InputInv, LibraryTurn, Top
<1>3. CallsInv'
  BY Shapes DEF CallsInv, OneTurn, TurnOfTop, LibraryTurn, Top, Parked, Busy,
     Waiting, Stopped
<1>4. WorkerInv'
  BY Shapes DEF WorkerInv, UsesCaches, Working, Finished, Asked, TurnOfTop,
     CallsInv, Top, Busy, Waiting
<1>5. TreeInv'
  BY Shapes DEF TreeInv, Busy, Waiting, Stopped
<1>6. SignalInv' /\ CloseInv'
  BY Shapes, SignalShapes DEF SignalInv, Tolerated, Busy, Waiting, Working,
     Finished, CloseInv, OneTurn, LibraryTurn
<1>7. RegisteredHelperLives'
  BY Shapes DEF RegisteredHelperLives, SignalInv
<1>8. SafeInService' /\ CleanClose'
  BY Shapes, SignalShapes DEF SafeInService, CleanClose, Tolerated, SignalInv,
     CloseInv, OneTurn, LibraryTurn, TurnOfTop, WorkerInv, UsesCaches, Working,
     Finished, Busy, WalkRace, Asked, InputTurn
<1>9. TypeOK'
  BY TypeLibrary DEF Library, IInv
<1>10. QED
  BY <1>1, <1>2, <1>3, <1>4, <1>5, <1>6, <1>7, <1>8, <1>9

\* Every step of the library preserves the invariant.
LEMMA LibraryStep ==
  ASSUME IInv, Defined, Library
  PROVE  IInv'
  BY LibAskStep, LibResetStep, LibReadStep, LibReplyStep, LibCloseStep,
     LibDiesStep, AbortStep DEF Library

-----------------------------------------------------------------------------
(* Theorems                                                                *)

\* The initial state satisfies the invariant.
LEMMA InvInit == Init => IInv
<1> SUFFICES ASSUME Init PROVE IInv
  OBVIOUS
<1> USE DEF Init
<1>1. /\ down = <<>> /\ up = <<>> /\ calls = <<>> /\ coll = <<>>
      /\ Len(down) <= 1 /\ Len(up) <= 1
  OBVIOUS
<1>2. OneTurn /\ TurnOfTop /\ DownInv /\ UpInv /\ InputInv
  BY <1>1 DEF OneTurn, TurnOfTop, DownInv, UpInv, InputInv, InputTurn, Busy
<1>3. CallsInv
  BY <1>1 DEF CallsInv
<1>4. WorkerInv /\ TreeInv
  BY DEF WorkerInv, TreeInv, UsesCaches, Working, Finished
<1>5. SignalInv /\ CloseInv
  BY <1>1 DEF SignalInv, CloseInv
<1>6. RegisteredHelperLives /\ SafeInService /\ CleanClose
  BY DEF RegisteredHelperLives, SafeInService, CleanClose
<1>7. QED
  BY <1>2, <1>3, <1>4, <1>5, <1>6, TypeInit DEF IInv

\* Every step preserves it.
LEMMA InvNext == IInv /\ [Next]_vars => IInv'
<1> SUFFICES ASSUME IInv, [Next]_vars PROVE IInv'
  OBVIOUS
<1>1. CASE Defined /\ Library
  BY <1>1, LibraryStep
<1>2. CASE Defined /\ (InputThread \/ InputSpawnFails)
  BY <1>2, InputStep
<1>3. ASSUME NEW r \in Requests, Defined, Worker(r) PROVE IInv'
  BY <1>3, WorkerStep
<1>4. CASE Defined /\ Shutdown
  BY <1>4, ShutdownStep
<1>5. CASE Running /\ Crash
  BY <1>5, CrashStep
<1>6. CASE UNCHANGED vars
  <2>1. TypeOK'
    BY <1>6 DEF vars, TypeOK, IInv
  <2>2. OneTurn' /\ TurnOfTop' /\ DownInv' /\ UpInv' /\ InputInv'
    BY <1>6 DEF vars, IInv, OneTurn, TurnOfTop, DownInv, UpInv, InputInv,
       InputTurn, LibraryTurn, Top, Fresh, Parked
  <2>3. CallsInv' /\ WorkerInv'
    BY <1>6 DEF vars, IInv, CallsInv, WorkerInv, Top, Parked, UsesCaches,
       Working, Asked, Running
  <2>4. TreeInv' /\ SignalInv' /\ CloseInv'
    BY <1>6 DEF vars, IInv, TreeInv, SignalInv, CloseInv, Tolerated
  <2>5. RegisteredHelperLives' /\ SafeInService' /\ CleanClose'
    BY <1>6 DEF vars, IInv, RegisteredHelperLives, SafeInService, CleanClose,
       Tolerated
  <2>6. QED
    BY <2>1, <2>2, <2>3, <2>4, <2>5 DEF IInv
<1>7. QED
  BY <1>1, <1>2, <1>3, <1>4, <1>5, <1>6 DEF Next

\* The inductive invariant: every reachable state of the probe satisfies it.
THEOREM Invariance == Spec => []IInv
<1>1. Init => IInv
  BY InvInit
<1>2. IInv /\ [Next]_vars => IInv'
  BY InvNext
<1>3. QED
  BY <1>1, <1>2, PTL DEF Spec

\* TypeOK, the types of the declarations in probe.h, worker.h and of the
\* threads' local variables, in every reachable state.
THEOREM TypeCorrect == Spec => []TypeOK
  BY Invariance, PTL DEF IInv

\* SafeInService: until a signal arrives no thread of the process touches
\* what another one freed, and no worker aborts in worker.c:89.
THEOREM ServiceIsSafe == Spec => []SafeInService
  BY Invariance, PTL DEF IInv

\* CleanClose: a close between two queries finds nothing in use.
THEOREM CloseIsClean == Spec => []CleanClose
  BY Invariance, PTL DEF IInv

\* RegisteredHelperLives: what cmd_w_table points to exists whenever the input
\* thread may look it up.
THEOREM HelpersLive == Spec => []RegisteredHelperLives
  BY Invariance, PTL DEF IInv

\* Evaluating threads in the tree, and the entries of cancelled threads: with
\* TreeInv this is all the tree holds.
TreeExact ==
    /\ \A r \in Requests :
          (pc[r] \in Evaluating \/ Spawning(r)) => r \in tree
    /\ \A r \in tree : pc[r] \in Stopped => r \in cancelled

\* A worker leaves the places of evaluation by leaving the tree or by dying of
\* its cancellation.
LEMMA TreeExactWorker ==
  ASSUME IInv, TreeExact, NEW r \in Requests, Worker(r)
  PROVE  TreeExact'
<1> USE Shapes DEF TreeExact, Spawning, InputRest, inpVars, Step
<1>1. CASE Start(r) \/ Lock(r)
  BY <1>1 DEF Start, Lock, Evaluating, Stopped
<1>2. CASE SendCmd(r) \/ Wait(r) \/ Woken(r)
  BY <1>2 DEF SendCmd, Wait, Woken, Evaluating, Stopped
<1>3. CASE MakeItem(r) \/ PutItem(r) \/ Synced(r)
  BY <1>3 DEF MakeItem, PutItem, Synced, Evaluating, Stopped
<1>4. CASE LeaveTree(r)
  BY <1>4 DEF LeaveTree, Evaluating, Stopped
<1>5. CASE CacheResult(r) \/ Reply(r) \/ FreeRecord(r)
  BY <1>5 DEF CacheResult, Reply, FreeRecord, Evaluating, Stopped
<1>6. CASE Die(r)
  BY <1>6 DEF Die, Evaluating, Stopped
<1>7. QED
  BY <1>1, <1>2, <1>3, <1>4, <1>5, <1>6 DEF Worker

\* The input thread puts the entry in before the thread exists, and takes it
\* out again when it cannot be created.
LEMMA TreeExactInput ==
  ASSUME IInv, TreeExact, InputThread \/ InputSpawnFails
  PROVE  TreeExact'
<1> USE Shapes DEF TreeExact, Spawning, libVars, inpVars, sigVars, memVars,
        ghosts
<1>1. CASE InputRecv \/ InputReset \/ InputUnregister
  BY <1>1 DEF InputRecv, InputReset, InputUnregister
<1>2. CASE InputWake
  BY <1>2 DEF InputWake, Evaluating, Stopped
<1>3. CASE InputHandle
  <2>1. msg \in Requests /\ pc[msg] = "none"
    BY <1>3 DEF IInv, InputInv, Fresh, InputHandle
  <2>2. QED
    BY <1>3, <2>1 DEF InputHandle, Evaluating, Stopped
<1>4. CASE InputSpawn
  <2>1. msg \in Requests /\ pc[msg] = "none"
    BY <1>4 DEF IInv, InputInv, InputSpawn
  <2>2. msg \in tree /\ UNCHANGED <<tree, cancelled>> /\ input' = "recv"
    BY <1>4, <2>1 DEF InputSpawn
  <2>3. \A r \in Requests : pc'[r] = IF r = msg THEN "start" ELSE pc[r]
    BY <1>4 DEF InputSpawn
  <2>4. QED
    BY ONLY <2>1, <2>2, <2>3, TreeExact, Shapes, IInv
       DEF TreeExact, Spawning, Evaluating, Stopped
<1>5. CASE InputSpawnFails
  <2>1. msg \in Requests /\ pc[msg] = "none"
    BY <1>5 DEF IInv, InputInv, InputSpawnFails
  <2>2. QED
    BY <1>5, <2>1 DEF InputSpawnFails, Evaluating, Stopped
<1>6. CASE InputAnswer \/ InputEnds
  BY <1>6 DEF InputAnswer, InputEnds
<1>7. QED
  BY <1>1, <1>2, <1>3, <1>4, <1>5, <1>6 DEF InputThread

\* The shutdown takes nothing out of the tree; whom it joins was cancelled.
LEMMA TreeExactShutdown ==
  ASSUME IInv, TreeExact, Defined, Shutdown
  PROVE  TreeExact'
<1> USE Shapes DEF TreeExact, Spawning, WorkRest, inpVars, libVars, memVars,
        ghosts
<1>1. CASE Signal \/ WalkEnds \/ JoinTimesOut \/ SignalHandlerEnds
  BY <1>1 DEF Signal, WalkEnds, JoinTimesOut, SignalHandlerEnds
<1>2. ASSUME NEW r \in Requests, Visit(r) PROVE TreeExact'
  BY <1>2 DEF Visit
<1>3. CASE Join
  <2> DEFINE l == LastCollected
  <2>1. l \in Requests /\ pc[l] # "none" /\ ~Working(l)
    <3>1. Len(coll) \in DOMAIN coll
      BY <1>3, SignalShapes DEF Join
    <3>2. QED
      BY <1>3, <3>1, SignalShapes DEF Join, LastCollected, IInv, SignalInv,
         Defined
  <2>2. pc[l] \in {"dead", "joined", "ended"}
    BY <2>1 DEF Working, Finished
  <2>3. l \in tree => l \in cancelled
    <3>1. l \in tree => pc[l] \in Stopped
      BY <2>2 DEF IInv, TreeInv, Busy, Waiting, Stopped
    <3>2. QED
      BY <3>1
  <2>4. pc' = [pc EXCEPT ![l] = "joined"] /\ UNCHANGED <<tree, cancelled,
                                                          input, msg>>
    BY <1>3 DEF Join
  <2>5. QED
    BY ONLY <2>1, <2>2, <2>3, <2>4, Shapes, IInv, TreeExact
       DEF TreeExact, Spawning, Evaluating, Stopped
<1>4. CASE CleanUp \/ InputTimesOut
  BY <1>4 DEF CleanUp, InputTimesOut
<1>5. QED
  BY <1>1, <1>2, <1>3, <1>4 DEF Shutdown

\* TreeHoldsRunningWorkers: the tree holds exactly the threads that evaluate,
\* the one about to be created and cancelled ones, in every reachable state.
THEOREM TreeIsRight == Spec => []TreeHoldsRunningWorkers
<1>1. Init => TreeExact
  BY DEF Init, TreeExact, Evaluating, Spawning
<1>2. IInv /\ TreeExact /\ [Next]_vars => TreeExact'
  <2> SUFFICES ASSUME IInv, TreeExact, [Next]_vars PROVE TreeExact'
    OBVIOUS
  <2>1. CASE Library
    BY <2>1 DEF Library, LibAsk, LibReset, LibRead, LibReply, LibClose,
       LibDies, Abort, SignalRest, LibVarsRest, inpVars, TreeExact, Spawning
  <2>2. CASE Running /\ Crash
    BY <2>2 DEF Crash, WorkRest, inpVars, TreeExact, Spawning
  <2>3. CASE UNCHANGED vars
    BY <2>3 DEF vars, TreeExact, Spawning
  <2>4. QED
    BY <2>1, <2>2, <2>3, TreeExactWorker, TreeExactInput, TreeExactShutdown
       DEF Next
<1>3. IInv /\ TreeExact => TreeHoldsRunningWorkers
  <2> SUFFICES ASSUME IInv, TreeExact PROVE TreeHoldsRunningWorkers
    OBVIOUS
  <2>1. \A r \in tree : \/ pc[r] \in Evaluating
                        \/ Spawning(r)
                        \/ r \in cancelled /\ pc[r] \in {"dead", "joined"}
    <3> SUFFICES ASSUME NEW r \in tree
                 PROVE  \/ pc[r] \in Evaluating
                        \/ Spawning(r)
                        \/ r \in cancelled /\ pc[r] \in {"dead", "joined"}
      OBVIOUS
    <3>1. \/ pc[r] \in Waiting \union Stopped
          \/ pc[r] \in Busy \ {"cache", "reply", "rwrite"}
          \/ Spawning(r)
      BY DEF IInv, TreeInv, Spawning
    <3>2. pc[r] \in Stopped => r \in cancelled
      BY DEF TreeExact
    <3>3. QED
      BY ONLY <3>1, <3>2 DEF Evaluating, Busy, Waiting, Stopped
  <2>2. handler \in {"wait", "walk"} => \A r \in tree : rec[r] = "live"
    BY Shapes DEF IInv, TreeInv
  <2>3. QED
    BY <2>1, <2>2 DEF TreeHoldsRunningWorkers, TreeExact
<1>4. QED
  BY <1>1, <1>2, <1>3, Invariance, PTL DEF Spec

\* OneTurn: a probe with its threads is as sequential as the library that
\* drives it, although no lock of the code says so: never two workers work,
\* never one works while the input thread handles a request.
THEOREM OneAtATime == Spec => []OneTurn
  BY Invariance, PTL DEF IInv

-----------------------------------------------------------------------------
(* The refinement of ProbeService                                          *)

\* The status of a request, before and after a step.
LEMMA StatusValue ==
  /\ \A r \in Requests :
       statusBar[r] = IF answers[r] > 1 THEN "answered twice"
                      ELSE IF answers[r] = 1 THEN "answered"
                      ELSE IF r \in cancelled THEN "cancelled"
                      ELSE IF Asked(r) THEN "asked" ELSE "new"
  /\ \A r \in Requests :
       statusBar'[r] = IF answers'[r] > 1 THEN "answered twice"
                       ELSE IF answers'[r] = 1 THEN "answered"
                       ELSE IF r \in cancelled' THEN "cancelled"
                       ELSE IF Asked(r)' THEN "asked" ELSE "new"
  BY DEF statusBar, Asked

\* A step that leaves the status of every request.
LEMMA StatusSame ==
  ASSUME \A s \in Requests : statusBar'[s] = statusBar[s]
  PROVE  statusBar' = statusBar
  BY DEF statusBar

\* A step that changes the status of one request.
LEMMA StatusChange ==
  ASSUME NEW r \in Requests, NEW v, statusBar'[r] = v,
         \A s \in Requests : s # r => statusBar'[s] = statusBar[s]
  PROVE  statusBar' = [statusBar EXCEPT ![r] = v]
<1>1. DOMAIN statusBar = Requests
  BY DEF statusBar
<1>2. statusBar' = [s \in Requests |-> statusBar'[s]]
  BY DEF statusBar
<1>3. statusBar' = [s \in Requests |-> IF s = r THEN v ELSE statusBar[s]]
  BY <1>2
<1>4. [statusBar EXCEPT ![r] = v] =
          [s \in Requests |-> IF s = r THEN v ELSE statusBar[s]]
  BY <1>1
<1>5. QED
  BY <1>3, <1>4

\* A step that neither answers, nor cancels, nor opens or ends a call.
LEMMA StatusUnchanged ==
  ASSUME UNCHANGED <<answers, cancelled, calls>>
  PROVE  statusBar' = statusBar
  BY DEF statusBar

\* A call the library opens is Ask.
LEMMA AskRefines ==
  ASSUME IInv, Defined, NEW r \in Requests, LibAsk(r)
  PROVE  Service!Ask(r)
<1> USE DEF LibAsk, LibVarsRest, SignalRest
<1>1. r \notin cancelled /\ ~Asked(r) /\ answers[r] = 0
  BY Shapes DEF IInv, SignalInv, WorkerInv, Asked
<1>2. \A s : Asked(s)' <=> Asked(s) \/ s = r
  <2>1. calls \in Seq(Senders) /\ r \in Senders
    BY DEF IInv, TypeOK, Senders
  <2>2. /\ DOMAIN calls' = 1 .. Len(calls) + 1
        /\ \A k \in DOMAIN calls : calls'[k] = calls[k]
        /\ calls'[Len(calls) + 1] = r
    BY <2>1, CallsShape, AppendProperties, LenProperties
  <2>3. \A k \in DOMAIN calls' : k \in DOMAIN calls \/ k = Len(calls) + 1
    BY <2>2, CallsShape
  <2>4. Len(calls) + 1 \in DOMAIN calls' /\ DOMAIN calls \subseteq DOMAIN calls'
    BY <2>2, CallsShape
  <2>5. QED
    BY <2>2, <2>3, <2>4 DEF Asked
<1>3. statusBar[r] = "new" /\ statusBar'[r] = "asked"
  <2>1. ~(answers[r] > 1) /\ answers[r] # 1 /\ answers' = answers
    BY <1>1
  <2>2. QED
    BY <1>1, <1>2, <2>1, StatusValue
<1>4. \A s \in Requests : s # r => statusBar'[s] = statusBar[s]
  BY <1>2, StatusValue
<1>5. QED
  BY <1>3, <1>4, StatusChange DEF Service!Ask

\* The end of a call leaves the status of its request, which was answered.
LEMMA ReadRefines ==
  ASSUME IInv, Defined, LibRead
  PROVE  statusBar' = statusBar
<1> USE DEF LibRead, LibVarsRest
<1>1. CASE Head(up).t = "cmd"
  BY <1>1, StatusUnchanged
<1>2. CASE Head(up).t # "cmd"
  <2>1. \A s \in Requests : Top = s => answers[s] = 1
    BY <1>2, HeadTypes DEF IInv, TurnOfTop, UpInv
  <2>2. DOMAIN SubSeq(calls, 1, Len(calls) - 1) = 1 .. Len(calls) - 1
    BY PopTypes, LenProperties DEF IInv
  <2>3. \A k \in 1 .. Len(calls) - 1 : calls'[k] = calls[k]
    BY <1>2, PopTypes DEF IInv
  <2>4. DOMAIN calls' = 1 .. Len(calls) - 1
    BY <1>2, <2>2
  <2>5. \A s \in Requests : s # Top => (Asked(s)' <=> Asked(s))
    <3> SUFFICES ASSUME NEW s \in Requests, s # Top
                 PROVE  Asked(s)' <=> Asked(s)
      OBVIOUS
    <3>1. \A k \in DOMAIN calls : calls[k] = s => k \in 1 .. Len(calls) - 1
      <4> SUFFICES ASSUME NEW k \in DOMAIN calls, calls[k] = s
                   PROVE  k \in 1 .. Len(calls) - 1
        OBVIOUS
      <4>1. k # Len(calls) /\ k \in 1 .. Len(calls) /\ Len(calls) \in Nat
        BY CallsShape DEF Top
      <4>2. QED
        BY <4>1
    <3>2. 1 .. Len(calls) - 1 \subseteq DOMAIN calls
      BY CallsShape
    <3>3. QED
      BY <2>3, <2>4, <3>1, <3>2 DEF Asked
  <2>6. \A s \in Requests : statusBar'[s] = statusBar[s]
    BY <2>1, <2>5, StatusValue
  <2>7. QED
    BY <2>6, StatusSame
<1>3. QED
  BY <1>1, <1>2

\* Every step of the library is Ask or a stutter.
LEMMA LibraryRefines ==
  ASSUME IInv, Defined, Library
  PROVE  [Service!Next]_statusBar
<1>1. CASE \E r \in Requests : LibAsk(r)
  BY <1>1, AskRefines DEF Service!Next
<1>2. CASE LibReset
  <2>1. \A s \in Requests : ~Asked(s) /\ ~Asked(s)'
    BY <1>2 DEF LibReset, Asked
  <2>2. \A s \in Requests : statusBar'[s] = statusBar[s]
    BY <1>2, <2>1, StatusValue DEF LibReset, LibVarsRest
  <2>3. QED
    BY <2>2, StatusSame
<1>3. CASE LibRead
  BY <1>3, ReadRefines
<1>4. CASE LibReply
  BY <1>4, StatusUnchanged DEF LibReply, LibVarsRest
<1>5. CASE LibClose \/ LibDies \/ Abort
  BY <1>5, StatusUnchanged DEF LibClose, LibDies, Abort, SignalRest, LibVarsRest
<1>6. QED
  BY <1>1, <1>2, <1>3, <1>4, <1>5 DEF Library

\* An answer of the input thread or of a worker that was not cancelled.
LEMMA AnswerRefines ==
  ASSUME IInv, NEW r \in Requests, Asked(r), r \notin cancelled, answers[r] = 0,
         answers' = [answers EXCEPT ![r] = @ + 1],
         UNCHANGED <<cancelled, calls>>
  PROVE  Service!Answer(r)
<1>1. answers'[r] = 1 /\ \A s \in Requests : s # r => answers'[s] = answers[s]
  BY Shapes
<1>2. \A s : Asked(s)' <=> Asked(s)
  BY DEF Asked
<1>3. statusBar[r] = "asked" /\ statusBar'[r] = "answered"
  <2>1. ~(answers[r] > 1) /\ answers[r] # 1 /\ ~(answers'[r] > 1)
    BY <1>1
  <2>2. QED
    BY <1>1, <2>1, StatusValue
<1>4. \A s \in Requests : s # r => statusBar'[s] = statusBar[s]
  <2> SUFFICES ASSUME NEW s \in Requests, s # r
               PROVE  statusBar'[s] = statusBar[s]
    OBVIOUS
  <2>1. answers'[s] = answers[s] /\ (Asked(s)' <=> Asked(s))
    BY <1>1, <1>2
  <2>2. QED
    BY <2>1, StatusValue
<1>5. QED
  BY <1>3, <1>4, StatusChange DEF Service!Answer

\* Every step of the input thread is Answer or a stutter.
LEMMA InputRefines ==
  ASSUME IInv, Defined, InputThread \/ InputSpawnFails
  PROVE  [Service!Next]_statusBar
<1> USE DEF libVars, ghosts
<1>1. CASE InputAnswer
  <2>1. CASE alive = "gone"
    BY <1>1, <2>1, StatusUnchanged DEF InputAnswer
  <2>2. CASE alive # "gone"
    <3>1. /\ msg \in Requests /\ answers[msg] = 0 /\ msg \notin cancelled
          /\ Asked(msg)
      BY <1>1, InputIsAlone, CallsShape DEF InputAnswer, IInv, InputInv,
         InputTurn, Asked, Top, SignalInv
    <3>2. Service!Answer(msg)
      BY <1>1, <2>2, <3>1, AnswerRefines DEF InputAnswer
    <3>3. QED
      BY <3>1, <3>2 DEF Service!Next
  <2>3. QED
    BY <2>1, <2>2
<1>2. CASE \/ InputRecv \/ InputReset \/ InputWake \/ InputUnregister
         \/ InputHandle
  BY <1>2, StatusUnchanged DEF InputRecv, InputReset, InputWake,
     InputUnregister, InputHandle
<1>3. CASE InputSpawn \/ InputEnds \/ InputSpawnFails
  BY <1>3, StatusUnchanged DEF InputSpawn, InputEnds, InputSpawnFails
<1>4. QED
  BY <1>1, <1>2, <1>3 DEF InputThread

\* Every step of a worker is Answer or a stutter.
LEMMA WorkerRefines ==
  ASSUME IInv, Defined, NEW r \in Requests, Worker(r)
  PROVE  [Service!Next]_statusBar
<1> USE DEF InputRest
<1>1. CASE Reply(r)
  <2>1. CASE alive = "gone"
    BY <1>1, <2>1, StatusUnchanged DEF Reply
  <2>2. CASE alive # "gone"
    <3>1. Asked(r) /\ answers[r] = 0
      BY <1>1 DEF Reply, Step, IInv, WorkerInv, UsesCaches, Working, Finished
    <3>2. Service!Answer(r)
      BY <1>1, <2>2, <3>1, AnswerRefines DEF Reply
    <3>3. QED
      BY <3>2 DEF Service!Next
  <2>3. QED
    BY <2>1, <2>2
<1>2. CASE Start(r) \/ Lock(r) \/ SendCmd(r) \/ Wait(r) \/ Woken(r)
  BY <1>2, StatusUnchanged DEF Start, Lock, SendCmd, Wait, Woken
<1>3. CASE MakeItem(r) \/ PutItem(r) \/ Synced(r) \/ LeaveTree(r)
  BY <1>3, StatusUnchanged DEF MakeItem, PutItem, Synced, LeaveTree
<1>4. CASE CacheResult(r) \/ FreeRecord(r) \/ Die(r)
  BY <1>4, StatusUnchanged DEF CacheResult, FreeRecord, Die
<1>5. QED
  BY <1>1, <1>2, <1>3, <1>4 DEF Worker

\* Every step of the shutdown is GiveUp or a stutter.
LEMMA ShutdownRefines ==
  ASSUME IInv, (Running /\ Crash) \/ (Defined /\ Shutdown)
  PROVE  [Service!Next]_statusBar
<1> USE DEF WorkRest, libVars
<1>1. ASSUME NEW r \in Requests, Defined, Visit(r)
      PROVE  [Service!Next]_statusBar
  <2>1. CASE ~Working(r) \/ r \in cancelled
    BY <1>1, <2>1, StatusUnchanged DEF Visit
  <2>2. CASE Working(r) /\ r \notin cancelled
    <3>1. cancelled' = cancelled \union {r} /\ UNCHANGED <<answers, calls>>
      BY <1>1, <2>2 DEF Visit
    <3>2. \A s : Asked(s)' <=> Asked(s)
      BY <3>1 DEF Asked
    <3>3. \A s \in Requests : s # r => statusBar'[s] = statusBar[s]
      BY <3>1, <3>2, StatusValue
    <3>4. CASE answers[r] = 0
      <4>1. Asked(r)
        BY <1>1, <2>2, <3>4 DEF IInv, WorkerInv, UsesCaches, Defined
      <4>2. ~(answers[r] > 1) /\ answers[r] # 1 /\ answers' = answers
        BY <3>1, <3>4
      <4>3. statusBar[r] = "asked" /\ statusBar'[r] = "cancelled"
        BY <2>2, <3>1, <4>1, <4>2, StatusValue
      <4>4. QED
        BY <3>3, <4>3, StatusChange DEF Service!Next, Service!GiveUp
    <3>5. CASE answers[r] = 1
      <4>1. statusBar'[r] = statusBar[r]
        BY <3>1, <3>5, StatusValue
      <4>2. QED
        BY <3>3, <4>1, StatusSame
    <3>6. answers[r] = 0 \/ answers[r] = 1
      BY Shapes DEF IInv, WorkerInv
    <3>7. QED
      BY <3>4, <3>5, <3>6
  <2>3. QED
    BY <2>1, <2>2
<1>2. CASE Signal \/ WalkEnds \/ Join \/ JoinTimesOut
  BY <1>2, StatusUnchanged DEF Signal, WalkEnds, Join, JoinTimesOut
<1>3. CASE SignalHandlerEnds \/ CleanUp \/ InputTimesOut \/ Crash
  BY <1>3, StatusUnchanged DEF SignalHandlerEnds, CleanUp, InputTimesOut, Crash
<1>4. QED
  BY <1>1, <1>2, <1>3 DEF Shutdown

\* ImplementsService: to the library the probe with its threads, its tree and
\* its shutdown is ProbeService, which answers a request at most once and not
\* at all when it was cancelled before (worker.c:57-62).
THEOREM Implementation == Spec => ImplementsService
<1>1. Init => Service!Init
  BY DEF Init, Service!Init, statusBar
<1>2. IInv /\ [Next]_vars => [Service!Next]_statusBar
  <2> SUFFICES ASSUME IInv, [Next]_vars PROVE [Service!Next]_statusBar
    OBVIOUS
  <2>1. CASE Defined /\ Library
    BY <2>1, LibraryRefines
  <2>2. CASE Defined /\ (InputThread \/ InputSpawnFails)
    BY <2>2, InputRefines
  <2>3. ASSUME NEW r \in Requests, Defined, Worker(r)
        PROVE  [Service!Next]_statusBar
    BY <2>3, WorkerRefines
  <2>4. CASE (Running /\ Crash) \/ (Defined /\ Shutdown)
    BY <2>4, ShutdownRefines
  <2>5. CASE UNCHANGED vars
    BY <2>5, StatusUnchanged DEF vars
  <2>6. QED
    BY <2>1, <2>2, <2>3, <2>4, <2>5 DEF Next
<1>3. QED
  BY <1>1, <1>2, Invariance, PTL DEF Spec, ImplementsService, Service!Spec
=============================================================================
