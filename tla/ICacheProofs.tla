---------------------------- MODULE ICacheProofs ----------------------------
(***************************************************************************)
(* Proofs about ICache.  The invariants that matter are consequences of    *)
(* IInv, which is inductive: it is preserved one conjunct at a time, each  *)
(* lemma assuming the whole of it before the step.                         *)
(***************************************************************************)
EXTENDS ICache, TLAPS

USE ICacheAssumption

\* The initial state has its types, and so has every successor.
LEMMA TypeInit == Init => TypeOK /\ ExtractsSomething
<1> SUFFICES ASSUME Init PROVE TypeOK /\ ExtractsSomething
  OBVIOUS
<1> USE DEF Init
<1>1. EmptySlot \in Slots
  BY DEF EmptySlot, Slots
<1>2. queue \in [0 .. queue_max - 1 -> Slots] /\ pair \in Slots
  BY <1>1
<1>3. pc \in [Threads -> PCs] /\ icw \in ICWs
  BY DEF PCs, ICWs
<1>4. request \in [Threads -> Requests]
  BY DEF Requests
<1>5. /\ sent \in [Threads -> Seq(Contents)]
      /\ tree \in [ItemIDs -> Seq(Items)]
      /\ cobj \in [Threads -> Seq(Items)]
  OBVIOUS
<1>6. /\ queue_mutex \in Threads \cup {ICacheThread, NoOne}
      /\ queue_beg \in 0 .. queue_max - 1
      /\ queue_end \in 0 .. queue_max - 1
      /\ queue_cnt \in 0 .. queue_max
      /\ next_ID \in Nat
  OBVIOUS
<1>7. incomplete \subseteq Threads /\ freeing \in BOOLEAN
  OBVIOUS
<1>8. ExtractsSomething
  BY DEF ExtractsSomething
<1>9. QED
  BY <1>2, <1>3, <1>4, <1>5, <1>6, <1>7, <1>8 DEF TypeOK

\* Every step keeps the types: Put finds room and Extract finds a request.
LEMMA TypeStep ==
  ASSUME TypeOK, ExtractsSomething, RingInv, Next
  PROVE  TypeOK' /\ ExtractsSomething'
<1> USE DEF TypeOK, ExtractsSomething, PCs, ICWs
<1>1. ASSUME NEW t \in Threads, NEW c \in Contents, CollectItem(t, c)
      PROVE  TypeOK' /\ ExtractsSomething'
  BY <1>1 DEF CollectItem, Goto, queueVars, workerVars, Requests, ItemRequest
<1>2. ASSUME NEW t \in Threads, MemoryLow(t)
      PROVE  TypeOK' /\ ExtractsSomething'
  BY <1>2 DEF MemoryLow, Goto, queueVars, workerVars, Requests, MemcheckNop
<1>3. ASSUME NEW t \in Threads, MainReturns(t)
      PROVE  TypeOK' /\ ExtractsSomething'
  BY <1>3 DEF MainReturns, Goto, queueVars, workerVars, Requests, FinalNop
<1>4. ASSUME NEW t \in Threads, Lock(t)
      PROVE  TypeOK' /\ ExtractsSomething'
  BY <1>4 DEF Lock, Goto, queueVars, workerVars
<1>5. ASSUME NEW t \in Threads, Put(t)
      PROVE  TypeOK' /\ ExtractsSomething'
  <2>1. NewSlot(t) \in Slots
    BY DEF NewSlot, Slots, ItemSlot, NopSlot
  <2>2. sent' \in [Threads -> Seq(Contents)]
    <3>1. IsItem(request[t]) => request[t].content \in Contents
      <4>1. request[t] \in Requests
        OBVIOUS
      <4>2. QED
        BY <4>1 DEF Requests, IsItem, MemcheckNop, FinalNop
    <3>2. QED
      BY <1>5, <3>1 DEF Put
  <2>3. QED
    BY <1>5, <2>1, <2>2 DEF Put, Goto, queueVars, workerVars, HasRoom
<1>6. ASSUME NEW t \in Threads, PutEnd(t)
      PROVE  TypeOK' /\ ExtractsSomething'
  BY <1>6 DEF PutEnd, Goto, queueVars, workerVars, Advance
<1>7. ASSUME NEW t \in Threads, WaitNotFull(t)
      PROVE  TypeOK' /\ ExtractsSomething'
  BY <1>7 DEF WaitNotFull, Goto, queueVars, workerVars
<1>8. ASSUME NEW t \in Threads, AddUnlock(t)
      PROVE  TypeOK' /\ ExtractsSomething'
  BY <1>8 DEF AddUnlock, Goto, queueVars, workerVars
<1>9. ASSUME NEW t \in Threads, AddSignal(t)
      PROVE  TypeOK' /\ ExtractsSomething'
  BY <1>9 DEF AddSignal, Goto, queueVars, workerVars, WakeWorker
<1>10. ASSUME NEW t \in Threads, NopWait(t)
      PROVE  TypeOK' /\ ExtractsSomething'
  BY <1>10 DEF NopWait, Goto, queueVars, workerVars, WakeWorker
<1>11. ASSUME NEW t \in Threads, NopReturn(t)
      PROVE  TypeOK' /\ ExtractsSomething'
  BY <1>11 DEF NopReturn, Goto, queueVars, workerVars, AfterNop
<1>12. ASSUME NEW t \in Threads, FlagIncomplete(t)
      PROVE  TypeOK' /\ ExtractsSomething'
  BY <1>12 DEF FlagIncomplete, Goto, queueVars, workerVars
<1>13. ASSUME NEW t \in Threads, Cancel(t)
      PROVE  TypeOK' /\ ExtractsSomething'
  BY <1>13 DEF Cancel, CancelAsync, CancelWaiting, queueVars, workerVars
<1>14. CASE WorkerReady
  BY <1>14 DEF WorkerReady, queueVars, workerVars
<1>15. CASE WorkerWake
  BY <1>15 DEF WorkerWake, queueVars, workerVars
<1>16. CASE WorkerExtract
  <2>1. EmptySlot \in Slots
    BY DEF EmptySlot, Slots
  <2>2. QED
    BY <1>16, <2>1 DEF WorkerExtract, Advance
<1>17. CASE WorkerSignalNotFull
  BY <1>17 DEF WorkerSignalNotFull, WakeOneNotFull, OnNotFull, queueVars,
     workerVars
<1>18. CASE WorkerHandleNop
  BY <1>18 DEF WorkerHandleNop, SignalNop, queueVars, workerVars
<1>19. CASE WorkerHandleItem
  <2>1. /\ pair.cobj \in Threads
        /\ sent[pair.cobj][pair.item] \in Contents
    <3>1. SlotOK(pair)
      BY <1>19 DEF WorkerHandleItem, RingInv, RingSlots, InHand
    <3>2. pair.cobj \in Threads /\ pair.item \in 1 .. Len(sent[pair.cobj])
      BY <1>19, <3>1 DEF WorkerHandleItem, SlotOK
    <3>3. QED
      BY <3>2
  <2>2. PICK c \in Contents : c = sent[pair.cobj][pair.item]
    BY <2>1
  <2>3. /\ SEXP_ID_v[c] \in ItemIDs
        /\ [content |-> c, id |-> next_ID] \in Items
    BY DEF Items
  <2>4. \A i \in Cached(c) : tree[SEXP_ID_v[c]][i] \in Items
    BY <2>3 DEF Cached
  <2>5. /\ tree' \in [ItemIDs -> Seq(Items)]
        /\ next_ID' \in Nat
        /\ cobj' \in [Threads -> Seq(Items)]
    <3> DEFINE h == SEXP_ID_v[c]
               fresh == [content |-> c, id |-> next_ID]
    <3>1. CASE /\ tree' = [tree EXCEPT ![h] = Append(@, fresh)]
               /\ next_ID' = next_ID + 1
               /\ cobj' = [cobj EXCEPT ![pair.cobj] = Append(@, fresh)]
      <4>1. fresh \in Items /\ h \in ItemIDs
        BY <2>3
      <4> HIDE DEF h, fresh
      <4>2. tree' \in [ItemIDs -> Seq(Items)]
        BY <3>1, <4>1
      <4>3. cobj' \in [Threads -> Seq(Items)]
        BY <3>1, <2>1, <4>1
      <4>4. QED
        BY <3>1, <4>2, <4>3
    <3>2. CASE /\ UNCHANGED <<tree, next_ID>>
               /\ \E i \in Cached(c) :
                     cobj' = [cobj EXCEPT ![pair.cobj] = Append(@, tree[h][i])]
      BY <3>2, <2>1, <2>4
    <3>3. QED
      BY <1>19, <2>2, <3>1, <3>2 DEF WorkerHandleItem
  <2>6. QED
    BY <1>19, <2>5 DEF WorkerHandleItem, queueVars
<1>20. CASE WorkerRelock
  BY <1>20 DEF WorkerRelock, queueVars, workerVars
<1>21. CASE WorkerExit
  BY <1>21 DEF WorkerExit, queueVars, workerVars
<1>22. CASE Free
  BY <1>22 DEF Free, queueVars, workerVars
<1>23. QED
  BY <1>1, <1>2, <1>3, <1>4, <1>5, <1>6, <1>7, <1>8, <1>9, <1>10, <1>11, <1>12,
     <1>13, <1>14, <1>15, <1>16, <1>17, <1>18, <1>19, <1>20, <1>21, <1>22
  DEF Next, ThreadStep, WorkerStep

-----------------------------------------------------------------------------
\* queue_mutex stays exclusive: it is taken only when it is free.
LEMMA MutexStep ==
  ASSUME TypeOK, MutexExclusion, Next
  PROVE  MutexExclusion'
<1> USE DEF TypeOK, MutexExclusion
<1>1. ASSUME NEW t \in Threads, ThreadStep(t)
      PROVE  MutexExclusion'
  BY <1>1 DEF ThreadStep, Goto, CollectItem, MemoryLow, MainReturns, Lock, Put,
     PutEnd, WaitNotFull, AddUnlock, AddSignal, NopWait, NopReturn, AfterNop,
     FlagIncomplete, WakeWorker
<1>2. ASSUME NEW t \in Threads, Cancel(t)
      PROVE  MutexExclusion'
  BY <1>2 DEF Cancel, CancelAsync, CancelWaiting
<1>3. CASE WorkerStep
  BY <1>3 DEF WorkerStep, WorkerReady, WorkerWake, WorkerExtract,
     WorkerSignalNotFull, WakeOneNotFull, OnNotFull, WorkerHandleNop, SignalNop,
     WorkerHandleItem, WorkerRelock, WorkerExit
<1>4. CASE Free
  BY <1>4 DEF Free
<1>5. QED
  BY <1>1, <1>2, <1>3, <1>4 DEF Next

\* What a step does to the ring, the request in the worker's hand and the
\* objects: four actions change them, all others leave them alone.
RingQuiet ==
  /\ UNCHANGED <<queue, queue_beg, queue_cnt, pair, sent, cobj, tree, next_ID>>
  /\ InHand' = InHand

\* Every step is one of those four or leaves all of that alone.
LEMMA StepKinds ==
  ASSUME Next
  PROVE  \/ \E t \in Threads : Put(t)
         \/ WorkerExtract
         \/ WorkerHandleNop
         \/ WorkerHandleItem
         \/ RingQuiet
<1> USE DEF RingQuiet, InHand, queueVars, workerVars
<1>1. ASSUME NEW t \in Threads, ThreadStep(t), ~Put(t)
      PROVE  RingQuiet
  BY <1>1 DEF ThreadStep, CollectItem, MemoryLow, MainReturns, Lock,
     PutEnd, WaitNotFull, AddUnlock, AddSignal, NopWait, NopReturn,
     FlagIncomplete, WakeWorker
<1>2. ASSUME NEW t \in Threads, Cancel(t)
      PROVE  RingQuiet
  BY <1>2 DEF Cancel, CancelAsync, CancelWaiting
<1>3. CASE WorkerReady \/ WorkerWake \/ WorkerSignalNotFull \/ WorkerRelock
             \/ WorkerExit \/ Free
  BY <1>3 DEF WorkerReady, WorkerWake, WorkerSignalNotFull, WorkerRelock,
     WorkerExit, Free
<1>4. QED
  BY <1>1, <1>2, <1>3 DEF Next, WorkerStep

-----------------------------------------------------------------------------
(* The ring, seen as the sequence of its pending requests.                 *)

\* Positions of the ring are indices of the queue.
LEMMA PositionType ==
  ASSUME TypeOK, NEW i \in 0 .. queue_max
  PROVE  Position(i) \in 0 .. queue_max - 1
  BY DEF TypeOK, Position

\* Positions are distinct as long as they do not go round.
LEMMA PositionInjective ==
  ASSUME TypeOK, NEW i \in 0 .. queue_max - 1, NEW j \in 0 .. queue_max - 1,
         i # j
  PROVE  Position(i) # Position(j)
  BY DEF TypeOK, Position

\* Put appends one request and leaves the pending ones where they were.
LEMMA AfterPut ==
  ASSUME TypeOK, MutexExclusion, RingInv, NEW t \in Threads, Put(t)
  PROVE  /\ queue_cnt' = queue_cnt + 1
         /\ \A i \in 0 .. queue_cnt - 1 : Pending(i)' = Pending(i)
         /\ \A i \in {queue_cnt} : Pending(i)' = NewSlot(t)
         /\ InHand' = InHand
         /\ UNCHANGED <<pair, cobj, tree, next_ID>>
<1>1. queue_end = Position(queue_cnt) /\ queue_cnt < queue_max
  BY DEF RingInv, RingEnds, Put, Goto, HasRoom
<1>2. \A i : Position(i)' = Position(i)
  BY DEF Put, Position
<1>3. queue_cnt \in 0 .. queue_max - 1
  BY <1>1 DEF TypeOK
<1>4. ASSUME NEW i \in 0 .. queue_cnt - 1
      PROVE  Pending(i)' = Pending(i)
  <2>1. i \in 0 .. queue_max - 1
    BY <1>3
  <2>2. Position(i) # queue_end /\ Position(i) \in 0 .. queue_max - 1
    BY <2>1, <1>1, <1>3, PositionInjective, PositionType
  <2>3. QED
    BY <2>2, <1>2 DEF Put, Pending, TypeOK
<1>5. ASSUME NEW i \in {queue_cnt}
      PROVE  Pending(i)' = NewSlot(t)
  <2>1. Position(i)' = queue_end
    BY <1>1, <1>2
  <2>2. QED
    BY <2>1 DEF Put, Pending, TypeOK
<1>6. QED
  BY <1>4, <1>5 DEF Put, InHand, workerVars

\* What Put does to the histories of the threads.
LEMMA SentGrows ==
  ASSUME TypeOK, NEW t \in Threads, Put(t)
  PROVE  /\ \A u \in Threads : u # t => sent'[u] = sent[u]
         /\ IsItem(request[t]) => Len(sent'[t]) = Len(sent[t]) + 1
         /\ ~IsItem(request[t]) => sent'[t] = sent[t]
         /\ \A u \in Threads : Len(sent[u]) \in Nat /\ Len(sent'[u]) \in Nat
         /\ \A u \in Threads : \A n \in 1 .. Len(sent[u]) :
               n <= Len(sent'[u]) /\ sent'[u][n] = sent[u][n]
<1>1. IsItem(request[t]) => request[t].content \in Contents
  <2>1. request[t] \in Requests
    BY DEF TypeOK
  <2>2. QED
    BY <2>1 DEF Requests, IsItem, MemcheckNop, FinalNop
<1>2. CASE IsItem(request[t])
  <2>1. sent' = [sent EXCEPT ![t] = Append(@, request[t].content)]
    BY <1>2 DEF Put
  <2>2. QED
    BY <1>1, <1>2, <2>1 DEF TypeOK
<1>3. CASE ~IsItem(request[t])
  <2>1. sent' = sent
    BY <1>3 DEF Put, TypeOK
  <2>2. QED
    BY <1>3, <2>1 DEF TypeOK
<1>4. QED
  BY <1>2, <1>3

\* Extracting hands over the oldest request; the others move up by one.
LEMMA AfterExtract ==
  ASSUME TypeOK, ExtractsSomething, MutexExclusion, RingInv, WorkerExtract
  PROVE  /\ queue_cnt > 0
         /\ queue_cnt' = queue_cnt - 1
         /\ \A i \in 0 .. queue_cnt - 2 : Pending(i)' = Pending(i + 1)
         /\ pair' = Pending(0)
         /\ ~InHand /\ InHand'
         /\ queue_end' = Position(queue_cnt)'
         /\ UNCHANGED <<sent, cobj, tree, next_ID, pc, request>>
<1>1. queue_cnt > 0 /\ queue_end = Position(queue_cnt)
  BY DEF WorkerExtract, ExtractsSomething, MutexExclusion, RingInv, RingEnds
<1>2. queue_cnt \in 1 .. queue_max
  BY <1>1 DEF TypeOK
<1>3. \A i \in 0 .. queue_max - 1 : Position(i)' = Position(i + 1)
  BY DEF WorkerExtract, TypeOK, Position, Advance
<1>4. ASSUME NEW i \in 0 .. queue_cnt - 2
      PROVE  Pending(i)' = Pending(i + 1)
  <2>1. i + 1 \in 0 .. queue_max - 1 /\ i + 1 # 0 /\ i \in 0 .. queue_max - 1
    BY <1>2
  <2>2. Position(0) = queue_beg
    BY DEF Position, TypeOK
  <2>3. Position(i + 1) # queue_beg /\ Position(i + 1) \in 0 .. queue_max - 1
    <3>1. 0 \in 0 .. queue_max - 1
      OBVIOUS
    <3>2. QED
      BY <2>1, <2>2, <3>1, PositionInjective, PositionType
  <2>4. QED
    BY <1>3, <2>1, <2>3 DEF WorkerExtract, Pending, TypeOK
<1>5. pair' = Pending(0)
  BY DEF WorkerExtract, Pending, Position, TypeOK
<1>6. queue_end' = Position(queue_cnt)'
  BY <1>1, <1>2 DEF WorkerExtract, Position, Advance, TypeOK
<1>7. QED
  BY <1>1, <1>4, <1>5, <1>6 DEF WorkerExtract, InHand

-----------------------------------------------------------------------------
\* RingInv is preserved: the slots ...
LEMMA RingSlotsStep ==
  ASSUME TypeOK, ExtractsSomething, MutexExclusion, RingInv, Next
  PROVE  RingSlots'
<1> USE DEF RingSlots, RingInv
<1>1. ASSUME NEW t \in Threads, Put(t)
      PROVE  RingSlots'
  <2>1. \A s : SlotOK(s) => SlotOK(s)'
    BY <1>1, SentGrows DEF SlotOK
  <2>2. \A s \in {NewSlot(t)} : SlotOK(s)'
    BY <1>1, SentGrows DEF SlotOK, NewSlot, ItemSlot, NopSlot
  <2>3. ASSUME NEW i \in 0 .. queue_cnt'- 1
        PROVE  SlotOK(Pending(i))'
    <3>1. CASE i \in 0 .. queue_cnt - 1
      <4>1. Pending(i)' = Pending(i) /\ SlotOK(Pending(i))
        BY <1>1, <3>1, AfterPut
      <4>2. PICK s \in {Pending(i)} : SlotOK(s)'
        BY <4>1, <2>1
      <4>3. QED
        BY <4>1, <4>2 DEF SlotOK
    <3>2. CASE i = queue_cnt
      <4>1. PICK s \in {NewSlot(t)} : SlotOK(s)'
        BY <2>2
      <4>2. Pending(i)' = s
        BY <1>1, <3>2, <4>1, AfterPut
      <4>3. QED
        BY <4>1, <4>2 DEF SlotOK
    <3>3. QED
      BY <1>1, <3>1, <3>2, AfterPut DEF TypeOK
  <2>4. InHand' => SlotOK(pair)'
    BY <1>1, <2>1, AfterPut
  <2>5. QED
    BY <2>3, <2>4
<1>2. CASE WorkerExtract
  <2>1. queue_cnt \in 1 .. queue_max /\ queue_cnt' = queue_cnt - 1
    BY <1>2, AfterExtract DEF TypeOK
  <2>2. sent' = sent
    BY <1>2, AfterExtract
  <2>3. ASSUME NEW i \in 0 .. queue_cnt' - 1
        PROVE  SlotOK(Pending(i))'
    <3>1. i \in 0 .. queue_cnt - 2 /\ i + 1 \in 0 .. queue_cnt - 1
      BY <2>1
    <3>2. Pending(i)' = Pending(i + 1) /\ SlotOK(Pending(i + 1))
      BY <1>2, <3>1, AfterExtract
    <3>3. QED
      BY <2>2, <3>2 DEF SlotOK
  <2>4. pair' = Pending(0) /\ SlotOK(Pending(0))
    BY <1>2, <2>1, AfterExtract
  <2>5. SlotOK(pair)'
    BY <2>2, <2>4 DEF SlotOK
  <2>6. QED
    BY <2>3, <2>5
<1>3. CASE WorkerHandleNop \/ WorkerHandleItem
  BY <1>3 DEF WorkerHandleNop, WorkerHandleItem, InHand, SlotOK, Pending,
     Position, queueVars
<1>4. CASE RingQuiet
  BY <1>4 DEF RingQuiet, SlotOK, Pending, Position
<1>5. QED
  BY <1>1, <1>2, <1>3, <1>4, StepKinds

\* ... and where it ends.
LEMMA RingEndsStep ==
  ASSUME TypeOK, ExtractsSomething, MutexExclusion, RingInv, Next
  PROVE  RingEnds'
<1> USE DEF RingEnds, RingInv, TypeOK
<1>1. ASSUME NEW t \in Threads, Put(t)
      PROVE  RingEnds'
  <2>1. queue_end = Position(queue_cnt) /\ queue_mutex = t
    BY <1>1 DEF Put, Goto, MutexExclusion
  <2>2. queue_end' = Position(queue_cnt - 1)' /\ queue_cnt' > 0
    BY <1>1, <2>1 DEF Put, Position
  <2>3. \A u \in Threads : pc'[u] \in {"put", "unlock", "end"} => u = t
    BY <1>1, <2>1 DEF Put, Goto, MutexExclusion
  <2>4. QED
    BY <1>1, <2>1, <2>2, <2>3 DEF Put, Goto
<1>2. ASSUME NEW t \in Threads, PutEnd(t)
      PROVE  RingEnds'
  <2>1. queue_end = Position(queue_cnt - 1) /\ queue_mutex = t /\ queue_cnt > 0
    BY <1>2 DEF PutEnd, Goto, MutexExclusion
  <2>2. queue_end' = Position(queue_cnt)'
    BY <1>2, <2>1 DEF PutEnd, Position, Advance
  <2>3. \A u \in Threads : pc'[u] = "end" => FALSE
    BY <1>2, <2>1 DEF PutEnd, Goto, MutexExclusion
  <2>4. QED
    BY <2>2, <2>3
<1>3. ASSUME NEW t \in Threads, ThreadStep(t), ~Put(t), ~PutEnd(t)
      PROVE  RingEnds'
  <2>1. UNCHANGED queueVars
    BY <1>3 DEF ThreadStep, CollectItem, MemoryLow, MainReturns, Lock,
       WaitNotFull, AddUnlock, AddSignal, NopWait, NopReturn, FlagIncomplete
  <2>2. \A i : Position(i)' = Position(i)
    BY <2>1 DEF queueVars, Position
  <2>3. QED
    BY <1>3, <2>1, <2>2 DEF queueVars, ThreadStep, Goto, CollectItem, MemoryLow,
       MainReturns, Lock, WaitNotFull, AddUnlock, AddSignal, NopWait, NopReturn,
       AfterNop, FlagIncomplete
<1>4. CASE WorkerExtract
  BY <1>4, AfterExtract DEF WorkerExtract, MutexExclusion
<1>5. ASSUME NEW t \in Threads, Cancel(t)
      PROVE  RingEnds'
  BY <1>5 DEF Cancel, CancelAsync, CancelWaiting, queueVars, Position
<1>6. ASSUME WorkerStep \/ Free, ~WorkerExtract
      PROVE  RingEnds'
  <2>1. UNCHANGED queueVars
    BY <1>6 DEF WorkerStep, WorkerReady, WorkerWake, WorkerSignalNotFull,
       WorkerHandleNop, WorkerHandleItem, WorkerRelock, WorkerExit, Free
  <2>2. \A i : Position(i)' = Position(i)
    BY <2>1 DEF queueVars, Position
  <2>3. \A u \in Threads : pc'[u] \in {"put", "unlock", "end"} => pc'[u] = pc[u]
    BY <1>6 DEF WorkerStep, WorkerReady, WorkerWake, WorkerSignalNotFull,
       WakeOneNotFull, OnNotFull, WorkerHandleNop, SignalNop, WorkerHandleItem,
       WorkerRelock, WorkerExit, Free
  <2>4. queue_mutex' \in {NoOne, ICacheThread} => queue_mutex \in {NoOne, ICacheThread}
    BY <1>6 DEF WorkerStep, WorkerReady, WorkerWake, WorkerSignalNotFull,
       WorkerHandleNop, WorkerHandleItem, WorkerRelock, WorkerExit, Free,
       MutexExclusion
  <2>5. QED
    BY <2>1, <2>2, <2>3, <2>4 DEF queueVars
<1>7. QED
  BY <1>1, <1>2, <1>3, <1>4, <1>5, <1>6 DEF Next

-----------------------------------------------------------------------------
(* Items keep their order and none is lost or handled twice.               *)

\* Items of one object leave the ring in the order they were put in.
LEMMA OrderStep ==
  ASSUME TypeOK, ExtractsSomething, MutexExclusion, RingInv, OrderInv, Next
  PROVE  OrderInv'
<1> USE DEF OrderInv
<1>1. ASSUME NEW t \in Threads, Put(t)
      PROVE  OrderInv'
  <2>1. \A s \in Slots : SlotOK(s) /\ s.cobj = t => s.item < Len(sent[t]) + 1
    BY <1>1, SentGrows DEF SlotOK, Slots
  <2>2. \A i \in 0 .. queue_cnt - 1 :
           /\ Pending(i)' = Pending(i)
           /\ Pending(i).cobj = t => Pending(i).item < Len(sent[t]) + 1
    BY <1>1, SentGrows, AfterPut DEF RingInv, RingSlots, SlotOK
  <2>3. InHand /\ pair.cobj = t => pair.item < Len(sent[t]) + 1
    BY <1>1, SentGrows DEF RingInv, RingSlots, SlotOK
  <2>4. PICK s \in {NewSlot(t)} :
           /\ s.cobj # NoOne => s.cobj = t /\ s.item = Len(sent[t]) + 1
           /\ \A i \in {queue_cnt} : Pending(i)' = s
    BY <1>1, AfterPut DEF NewSlot, ItemSlot, NopSlot
  <2>5. ASSUME NEW i \in 0 .. queue_cnt' - 1, NEW j \in 0 .. queue_cnt' - 1, i < j,
               Pending(i)'.cobj # NoOne, Pending(i)'.cobj = Pending(j)'.cobj
        PROVE  Pending(i)'.item < Pending(j)'.item
    <3>1. i \in 0 .. queue_cnt - 1 /\ (j \in 0 .. queue_cnt - 1 \/ j = queue_cnt)
      BY <1>1, <2>5, AfterPut DEF TypeOK
    <3>2. QED
      BY <2>2, <2>4, <2>5, <3>1
  <2>6. ASSUME NEW j \in 0 .. queue_cnt' - 1, InHand', pair'.cobj # NoOne,
               pair'.cobj = Pending(j)'.cobj
        PROVE  pair'.item < Pending(j)'.item
    <3>1. InHand /\ pair' = pair /\ queue_cnt' = queue_cnt + 1
      BY <1>1, <2>6, AfterPut
    <3>2. j \in 0 .. queue_cnt - 1 \/ j = queue_cnt
      BY <3>1 DEF TypeOK
    <3>3. QED
      BY <2>2, <2>3, <2>4, <2>6, <3>1, <3>2
  <2>7. QED
    BY <2>5, <2>6
<1>2. CASE WorkerExtract
  <2>1. \A i \in 0 .. queue_cnt' - 1 :
           /\ Pending(i)' = Pending(i + 1)
           /\ i + 1 \in 0 .. queue_cnt - 1
    BY <1>2, AfterExtract DEF TypeOK
  <2>2. pair' = Pending(0) /\ 0 \in 0 .. queue_cnt - 1
    BY <1>2, AfterExtract DEF TypeOK
  <2>3. \A i, j \in 0 .. queue_cnt' - 1 : i < j => i + 1 < j + 1
    OBVIOUS
  <2>4. \A j \in 0 .. queue_cnt' - 1 : 0 < j + 1
    OBVIOUS
  <2>5. QED
    BY <2>1, <2>2, <2>3, <2>4
<1>3. CASE WorkerHandleNop \/ WorkerHandleItem
  BY <1>3 DEF WorkerHandleNop, WorkerHandleItem, InHand, Pending, Position,
     queueVars
<1>4. CASE RingQuiet
  BY <1>4 DEF RingQuiet, Pending, Position
<1>5. QED
  BY <1>1, <1>2, <1>3, <1>4, StepKinds

\* The item in the worker's hand is the next one of its object.
LEMMA InHandIsNext ==
  ASSUME TypeOK, RingInv, OrderInv, EachItemOnce,
         NEW t \in Threads, InHand, pair.cobj = t
  PROVE  pair.item = Len(cobj[t]) + 1 /\ pair.item <= Len(sent[t])
<1>1. pair.item \in PendingItems(t)
  BY DEF PendingItems
<1>2. /\ pair.item \in Len(cobj[t]) + 1 .. Len(sent[t])
      /\ Len(cobj[t]) \in Nat /\ Len(sent[t]) \in Nat
  BY <1>1 DEF EachItemOnce, TypeOK
<1>3. Len(cobj[t]) + 1 \in PendingItems(t)
  BY <1>2 DEF EachItemOnce
<1>4. CASE \E j \in 0 .. queue_cnt - 1 :
              /\ Pending(j).cobj = t
              /\ Pending(j).item = Len(cobj[t]) + 1
  BY <1>2, <1>4 DEF OrderInv
<1>5. CASE pair.item = Len(cobj[t]) + 1
  BY <1>2, <1>5
<1>6. QED
  BY <1>3, <1>4, <1>5 DEF PendingItems

\* An object never runs ahead of what its thread sent.
LEMMA NeverAhead ==
  ASSUME TypeOK, InOrder, NEW t \in Threads
  PROVE  /\ Len(cobj[t]) \in Nat /\ Len(sent[t]) \in Nat
         /\ Len(cobj[t]) <= Len(sent[t])
<1>1. /\ Len(cobj[t]) \in Nat /\ Len(sent[t]) \in Nat
      /\ DOMAIN cobj[t] = 1 .. Len(cobj[t])
  BY DEF TypeOK
<1>2. CASE Len(cobj[t]) = 0
  BY <1>1, <1>2
<1>3. CASE Len(cobj[t]) # 0
  <2>1. Len(cobj[t]) \in DOMAIN cobj[t]
    BY <1>1, <1>3
  <2>2. QED
    BY <1>1, <2>1 DEF InOrder
<1>4. QED
  BY <1>2, <1>3

\* Handling an item appends to one object what was in the worker's hand, and
\* handling a NOP appends nothing.
LEMMA AfterHandleItem ==
  ASSUME TypeOK, RingInv, WorkerHandleItem
  PROVE  /\ pair.cobj \in Threads
         /\ Len(cobj'[pair.cobj]) = Len(cobj[pair.cobj]) + 1
         /\ \A u \in Threads : u # pair.cobj => cobj'[u] = cobj[u]
         /\ \A n \in DOMAIN cobj[pair.cobj] :
               cobj'[pair.cobj][n] = cobj[pair.cobj][n]
         /\ cobj'[pair.cobj][Len(cobj[pair.cobj]) + 1].content
              = sent[pair.cobj][pair.item]
         /\ InHand /\ ~InHand'
         /\ UNCHANGED <<queue, queue_beg, queue_cnt, pair, sent, pc, request>>
<1>1. pair.cobj \in Threads
  BY DEF WorkerHandleItem, RingInv, RingSlots, SlotOK, InHand
<1>2. PICK item : /\ cobj' = [cobj EXCEPT ![pair.cobj] = Append(@, item)]
                  /\ item.content = sent[pair.cobj][pair.item]
  <2> DEFINE c == sent[pair.cobj][pair.item]
             h == SEXP_ID_v[c]
             fresh == [content |-> c, id |-> next_ID]
  <2>1. fresh.content = c
    OBVIOUS
  <2>2. ASSUME NEW i \in Cached(c),
               cobj' = [cobj EXCEPT ![pair.cobj] = Append(@, tree[h][i])]
        PROVE  tree[h][i].content = c
    BY DEF Cached
  <2>3. QED
    BY <2>1, <2>2 DEF WorkerHandleItem
<1>3. cobj[pair.cobj] \in Seq(Items)
  BY <1>1 DEF TypeOK
<1>4. cobj'[pair.cobj] = Append(cobj[pair.cobj], item)
  BY <1>1, <1>2 DEF TypeOK
<1>5. /\ Len(cobj'[pair.cobj]) = Len(cobj[pair.cobj]) + 1
      /\ \A n \in DOMAIN cobj[pair.cobj] :
            cobj'[pair.cobj][n] = cobj[pair.cobj][n]
      /\ cobj'[pair.cobj][Len(cobj[pair.cobj]) + 1] = item
  BY <1>3, <1>4
<1>6. QED
  BY <1>1, <1>2, <1>5 DEF WorkerHandleItem, InHand, TypeOK, queueVars

\* Extracting and handling an item moves it from the ring to the object.
LEMMA EachItemOnceStep ==
  ASSUME TypeOK, ExtractsSomething, MutexExclusion, RingInv, OrderInv,
         EachItemOnce, InOrder, Next
  PROVE  EachItemOnce'
<1> SUFFICES ASSUME NEW u \in Threads
             PROVE  PendingItems(u)' = (Len(cobj[u]) + 1 .. Len(sent[u]))'
  BY DEF EachItemOnce
<1>0. /\ PendingItems(u) = Len(cobj[u]) + 1 .. Len(sent[u])
      /\ Len(cobj[u]) \in Nat /\ Len(sent[u]) \in Nat
      /\ Len(cobj[u]) <= Len(sent[u])
  BY NeverAhead DEF EachItemOnce
<1>1. ASSUME NEW t \in Threads, Put(t)
      PROVE  PendingItems(u)' = (Len(cobj[u]) + 1 .. Len(sent[u]))'
  <2>1. PICK s \in {NewSlot(t)} : \A i \in {queue_cnt} : Pending(i)' = s
    BY <1>1, AfterPut
  <2>2. \A n : n \in PendingItems(u)' <=>
               n \in PendingItems(u) \/ (s.cobj = u /\ n = s.item)
    <3>1. /\ \A i : i \in 0 .. queue_cnt' - 1 <=>
                      i \in 0 .. queue_cnt - 1 \/ i = queue_cnt
          /\ \A i \in 0 .. queue_cnt - 1 : Pending(i)' = Pending(i)
          /\ InHand' = InHand /\ pair' = pair
      BY <1>1, AfterPut DEF TypeOK
    <3>2. QED
      BY <2>1, <3>1 DEF PendingItems
  <2>3. CASE s.cobj = u
    <3>1. s.item = Len(sent[u]) + 1 /\ IsItem(request[t]) /\ u = t
      BY <2>1, <2>3 DEF NewSlot, ItemSlot, NopSlot
    <3>2. Len(sent'[u]) = Len(sent[u]) + 1 /\ cobj' = cobj
      BY <1>1, <3>1, SentGrows, AfterPut
    <3>3. \A n : n \in PendingItems(u)' <=> n \in Len(cobj[u]) + 1 .. Len(sent[u]) + 1
      BY <1>0, <2>2, <2>3, <3>1
    <3>4. PendingItems(u)' = Len(cobj[u]) + 1 .. Len(sent[u]) + 1
      BY <3>3
    <3>5. QED
      BY <3>2, <3>4
  <2>4. CASE s.cobj # u
    <3>1. ~ (u = t /\ IsItem(request[t]))
      BY <2>1, <2>4 DEF NewSlot, ItemSlot
    <3>2. sent'[u] = sent[u] /\ cobj' = cobj
      BY <1>1, <3>1, SentGrows, AfterPut
    <3>3. QED
      BY <1>0, <2>2, <2>4, <3>2
  <2>5. QED
    BY <2>3, <2>4
<1>2. CASE WorkerExtract
  <2>1. /\ queue_cnt \in Nat /\ queue_cnt > 0 /\ queue_cnt' = queue_cnt - 1
        /\ \A i \in 0 .. queue_cnt - 2 : Pending(i)' = Pending(i + 1)
        /\ pair' = Pending(0)
        /\ ~InHand /\ InHand'
        /\ sent' = sent /\ cobj' = cobj
    BY <1>2, AfterExtract DEF TypeOK
  <2>2. ASSUME NEW n, n \in PendingItems(u)
        PROVE  n \in PendingItems(u)'
    <3>1. PICK i \in 0 .. queue_cnt - 1 : Pending(i).cobj = u /\ n = Pending(i).item
      BY <2>1, <2>2 DEF PendingItems
    <3>2. CASE i = 0
      BY <2>1, <3>1, <3>2 DEF PendingItems
    <3>3. CASE i # 0
      <4>1. PICK k \in 0 .. queue_cnt - 2 : i = k + 1
        BY <2>1, <3>3
      <4>2. /\ k \in 0 .. queue_cnt' - 1
            /\ Pending(k)'.cobj = u /\ n = Pending(k)'.item
        BY <2>1, <3>1, <4>1
      <4>3. QED
        BY <4>2 DEF PendingItems
    <3>4. QED
      BY <3>2, <3>3
  <2>3. ASSUME NEW n, n \in PendingItems(u)'
        PROVE  n \in PendingItems(u)
    <3>1. CASE n = pair'.item /\ pair'.cobj = u
      BY <2>1, <3>1 DEF PendingItems
    <3>2. ASSUME NEW k \in 0 .. queue_cnt' - 1,
                 Pending(k)'.cobj = u, n = Pending(k)'.item
          PROVE  n \in PendingItems(u)
      <4>1. /\ k + 1 \in 0 .. queue_cnt - 1
            /\ Pending(k + 1).cobj = u /\ n = Pending(k + 1).item
        BY <2>1, <3>2
      <4>2. QED
        BY <4>1 DEF PendingItems
    <3>3. QED
      BY <2>3, <3>1, <3>2 DEF PendingItems
  <2>4. QED
    BY <1>0, <2>1, <2>2, <2>3
<1>3. CASE WorkerHandleNop
  <2>1. PendingItems(u)' = PendingItems(u)
    BY <1>3 DEF WorkerHandleNop, PendingItems, Pending, Position, InHand,
       queueVars, workerVars
  <2>2. QED
    BY <1>0, <1>3, <2>1 DEF WorkerHandleNop, workerVars
<1>4. CASE WorkerHandleItem
  <2>1. /\ \A i : Pending(i)' = Pending(i)
        /\ queue_cnt' = queue_cnt /\ sent' = sent /\ pair' = pair
        /\ InHand /\ ~InHand'
    BY <1>4, AfterHandleItem DEF Pending, Position
  <2>2. CASE u = pair.cobj
    <3>1. pair.item = Len(cobj[u]) + 1
      BY <2>1, <2>2, InHandIsNext
    <3>2. Len(cobj'[u]) = Len(cobj[u]) + 1
      BY <1>4, <2>2, AfterHandleItem
    <3>3. \A n : n \in PendingItems(u) <=>
                   n \in PendingItems(u)' \/ n = pair.item
      BY <2>1, <2>2 DEF PendingItems
    <3>4. \A n \in PendingItems(u)' : n # pair.item
      BY <2>1, <2>2 DEF PendingItems, OrderInv, RingInv, RingSlots, SlotOK
    <3>5. \A n : n \in PendingItems(u)' <=> n \in (Len(cobj[u]) + 1) + 1 .. Len(sent[u])
      BY <1>0, <3>1, <3>3, <3>4
    <3>6. PendingItems(u)' = (Len(cobj[u]) + 1) + 1 .. Len(sent[u])
      BY <3>5
    <3>7. QED
      BY <2>1, <3>2, <3>6
  <2>3. CASE u # pair.cobj
    <3>1. PendingItems(u)' = PendingItems(u)
      BY <2>1, <2>3 DEF PendingItems
    <3>2. QED
      BY <1>0, <1>4, <2>1, <2>3, <3>1, AfterHandleItem
  <2>4. QED
    BY <2>2, <2>3
<1>5. CASE RingQuiet
  <2>1. PendingItems(u)' = PendingItems(u)
    BY <1>5 DEF RingQuiet, PendingItems, Pending, Position
  <2>2. QED
    BY <1>0, <1>5, <2>1 DEF RingQuiet
<1>6. QED
  BY <1>1, <1>2, <1>3, <1>4, <1>5, StepKinds

\* What is in an object came from its thread, in the order it was sent.
LEMMA InOrderStep ==
  ASSUME TypeOK, ExtractsSomething, MutexExclusion, RingInv, OrderInv,
         EachItemOnce, InOrder, Next
  PROVE  InOrder'
<1> SUFFICES ASSUME NEW u \in Threads, NEW n \in DOMAIN cobj'[u]
             PROVE  n <= Len(sent'[u]) /\ cobj'[u][n].content = sent'[u][n]
  BY DEF InOrder
<1>0. /\ \A k \in DOMAIN cobj[u] :
            k <= Len(sent[u]) /\ cobj[u][k].content = sent[u][k]
      /\ DOMAIN cobj[u] = 1 .. Len(cobj[u])
  BY DEF InOrder, TypeOK
<1>1. ASSUME NEW t \in Threads, Put(t)
      PROVE  n <= Len(sent'[u]) /\ cobj'[u][n].content = sent'[u][n]
  <2>1. n \in DOMAIN cobj[u] /\ cobj' = cobj
    BY <1>1, AfterPut
  <2>2. n \in 1 .. Len(sent[u])
    BY <1>0, <2>1, NeverAhead
  <2>3. QED
    BY <1>0, <1>1, <2>1, <2>2, SentGrows
<1>2. CASE WorkerHandleItem
  <2>1. CASE u = pair.cobj
    <3>1. /\ pair.item = Len(cobj[u]) + 1 /\ pair.item <= Len(sent[u])
          /\ Len(cobj'[u]) = Len(cobj[u]) + 1
          /\ sent' = sent
      BY <1>2, <2>1, InHandIsNext, AfterHandleItem
    <3>2. DOMAIN cobj'[u] = 1 .. Len(cobj'[u])
      BY <1>2, TypeStep DEF TypeOK
    <3>3. n \in DOMAIN cobj[u] \/ n = pair.item
      BY <1>0, <3>1, <3>2, NeverAhead
    <3>4. QED
      BY <1>0, <1>2, <2>1, <3>1, <3>3, AfterHandleItem
  <2>2. CASE u # pair.cobj
    BY <1>0, <1>2, <2>2, AfterHandleItem
  <2>3. QED
    BY <2>1, <2>2
<1>3. CASE WorkerExtract \/ WorkerHandleNop \/ RingQuiet
  BY <1>0, <1>3 DEF WorkerExtract, WorkerHandleNop, RingQuiet, workerVars
<1>4. QED
  BY <1>1, <1>2, <1>3, StepKinds

-----------------------------------------------------------------------------
(* NOPs: the last request of a thread, and never forgotten.                *)

\* The control flow around a NOP, in the steps that leave the ring alone.
LEMMA QuietControl ==
  ASSUME TypeOK, Next, RingQuiet, NEW t \in Threads
  PROVE  /\ Waiting(t) => Waiting(t)'
         /\ Putting(t) => Putting(t)' \/ Waiting(t)'
         /\ Putting(t)' => Putting(t)
         /\ pc'[t] = "sync" => Putting(t) \/ pc[t] = "sync"
         /\ Synced(t)' => Synced(t)
<1> USE DEF TypeOK, Waiting, Putting, Synced
<1>1. ASSUME NEW u \in Threads, Put(u)
      PROVE  FALSE
  BY <1>1 DEF Put, RingQuiet
<1>2. ASSUME NEW u \in Threads, ThreadStep(u), ~Put(u)
      PROVE  /\ Waiting(t) => Waiting(t)'
             /\ Putting(t) => Putting(t)' \/ Waiting(t)'
             /\ Putting(t)' => Putting(t)
             /\ pc'[t] = "sync" => Putting(t) \/ pc[t] = "sync"
             /\ Synced(t)' => Synced(t)
  BY <1>2 DEF ThreadStep, Goto, CollectItem, MemoryLow, MainReturns, Lock,
     PutEnd, WaitNotFull, AddUnlock, AddSignal, NopWait, NopReturn, AfterNop,
     FlagIncomplete
<1>3. ASSUME NEW u \in Threads, Cancel(u)
      PROVE  /\ Waiting(t) => Waiting(t)'
             /\ Putting(t) => Putting(t)' \/ Waiting(t)'
             /\ Putting(t)' => Putting(t)
             /\ pc'[t] = "sync" => Putting(t) \/ pc[t] = "sync"
             /\ Synced(t)' => Synced(t)
  BY <1>3 DEF Cancel, CancelAsync, CancelWaiting
<1>4. CASE WorkerHandleNop
  BY <1>4 DEF WorkerHandleNop, RingQuiet, InHand
<1>5. CASE (WorkerStep /\ ~WorkerHandleNop) \/ Free
  BY <1>5 DEF WorkerStep, WorkerReady, WorkerWake, WorkerExtract,
     WorkerSignalNotFull, WakeOneNotFull, OnNotFull, WorkerHandleItem,
     WorkerRelock, WorkerExit, Free
<1>6. QED
  BY <1>1, <1>2, <1>3, <1>4, <1>5 DEF Next

\* No NOP of a thread is on its way when it puts a request into the queue.
LEMMA NoneBeforePut ==
  ASSUME NopWaits, NEW t \in Threads, Put(t)
  PROVE  /\ \A i \in 0 .. queue_cnt - 1 : Pending(i).cond # t
         /\ InHand => pair.cond # t
  BY DEF NopWaits, Put, Goto, Putting, Waiting

\* Nothing of a thread is put into the ring behind its NOP.
LEMMA NopLastStep ==
  ASSUME TypeOK, ExtractsSomething, MutexExclusion, RingInv, NopLast, NopWaits,
         Next
  PROVE  NopLast'
<1> USE DEF NopLast
<1>1. ASSUME NEW t \in Threads, Put(t)
      PROVE  NopLast'
  <2>1. PICK s \in {NewSlot(t)} : \A i \in {queue_cnt} : Pending(i)' = s
    BY <1>1, AfterPut
  <2>2. s.cobj \in {t, NoOne} /\ s.cond \in {t, NoOne}
    BY <2>1 DEF NewSlot, ItemSlot, NopSlot
  <2>3. /\ queue_cnt' = queue_cnt + 1 /\ queue_cnt \in Nat
        /\ \A i \in 0 .. queue_cnt - 1 : Pending(i)' = Pending(i)
        /\ InHand' = InHand /\ pair' = pair
    BY <1>1, AfterPut DEF TypeOK
  <2>4. ASSUME NEW i \in 0 .. queue_cnt' - 1, NEW j \in 0 .. queue_cnt' - 1,
               Pending(i)'.cond # NoOne, i < j
        PROVE  /\ Pending(j)'.cobj # Pending(i)'.cond
               /\ Pending(j)'.cond # Pending(i)'.cond
    <3>1. i \in 0 .. queue_cnt - 1 /\ (j \in 0 .. queue_cnt - 1 \/ j = queue_cnt)
      BY <2>3, <2>4
    <3>2. QED
      BY <1>1, <2>1, <2>2, <2>3, <2>4, <3>1, NoneBeforePut
  <2>5. ASSUME NEW j \in 0 .. queue_cnt' - 1, InHand', pair'.cond # NoOne
        PROVE  /\ Pending(j)'.cobj # pair'.cond
               /\ Pending(j)'.cond # pair'.cond
    <3>1. j \in 0 .. queue_cnt - 1 \/ j = queue_cnt
      BY <2>3
    <3>2. QED
      BY <1>1, <2>1, <2>2, <2>3, <2>5, <3>1, NoneBeforePut
  <2>6. QED
    BY <2>4, <2>5
<1>2. CASE WorkerExtract
  <2>1. \A i \in 0 .. queue_cnt' - 1 :
           /\ Pending(i)' = Pending(i + 1)
           /\ i + 1 \in 0 .. queue_cnt - 1
           /\ 0 < i + 1
    BY <1>2, AfterExtract DEF TypeOK
  <2>2. pair' = Pending(0) /\ 0 \in 0 .. queue_cnt - 1
    BY <1>2, AfterExtract DEF TypeOK
  <2>3. \A i, j \in 0 .. queue_cnt' - 1 : i < j => i + 1 < j + 1
    OBVIOUS
  <2>4. QED
    BY <2>1, <2>2, <2>3
<1>3. CASE WorkerHandleNop \/ WorkerHandleItem
  BY <1>3 DEF WorkerHandleNop, WorkerHandleItem, InHand, Pending, Position,
     queueVars
<1>4. CASE RingQuiet
  BY <1>4 DEF RingQuiet, Pending, Position
<1>5. QED
  BY <1>1, <1>2, <1>3, <1>4, StepKinds

\* A thread whose NOP is in the ring waits for it or was cancelled.
LEMMA NopWaitsStep ==
  ASSUME TypeOK, ExtractsSomething, MutexExclusion, RingInv, NopLast, NopWaits,
         Next
  PROVE  NopWaits'
<1> USE DEF NopWaits
<1>1. ASSUME NEW t \in Threads, Put(t)
      PROVE  NopWaits'
  <2>1. PICK s \in {NewSlot(t)} : \A i \in {queue_cnt} : Pending(i)' = s
    BY <1>1, AfterPut
  <2>2. /\ queue_cnt' = queue_cnt + 1 /\ queue_cnt \in Nat
        /\ \A i \in 0 .. queue_cnt - 1 : Pending(i)' = Pending(i)
        /\ InHand' = InHand /\ pair' = pair
    BY <1>1, AfterPut DEF TypeOK
  <2>3. \A u \in Threads : u # t => /\ Putting(u)' = Putting(u)
                                    /\ Waiting(u)' = Waiting(u)
    BY <1>1 DEF Put, Goto, Putting, Waiting, TypeOK
  <2>4. \A u \in Threads : s.cond = u => Putting(u)'
    BY <1>1, <2>1 DEF NewSlot, ItemSlot, NopSlot, Put, Goto, Putting, TypeOK
  <2>5. ASSUME NEW i \in 0 .. queue_cnt' - 1, NEW u \in Threads,
               Pending(i)'.cond = u
        PROVE  Putting(u)' \/ Waiting(u)'
    <3>1. i \in 0 .. queue_cnt - 1 \/ i = queue_cnt
      BY <2>2
    <3>2. QED
      BY <1>1, <2>1, <2>2, <2>3, <2>4, <2>5, <3>1, NoneBeforePut
  <2>6. QED
    BY <1>1, <2>2, <2>3, <2>5, NoneBeforePut
<1>2. CASE WorkerExtract
  <2>1. \A i \in 0 .. queue_cnt' - 1 :
           /\ Pending(i)' = Pending(i + 1)
           /\ i + 1 \in 0 .. queue_cnt - 1
    BY <1>2, AfterExtract DEF TypeOK
  <2>2. pair' = Pending(0) /\ 0 \in 0 .. queue_cnt - 1
    BY <1>2, AfterExtract DEF TypeOK
  <2>3. \A t \in Threads : /\ ~Putting(t)
                           /\ Waiting(t)' = Waiting(t)
    BY <1>2 DEF WorkerExtract, MutexExclusion, Putting, Waiting, TypeOK
  <2>4. QED
    BY <2>1, <2>2, <2>3
<1>3. CASE WorkerHandleNop
  <2>1. /\ \A i : Pending(i)' = Pending(i)
        /\ queue_cnt' = queue_cnt
        /\ InHand /\ ~InHand'
    BY <1>3 DEF WorkerHandleNop, InHand, Pending, Position, queueVars
  <2>2. pair.cond \in Threads
    BY <1>3, <2>1 DEF WorkerHandleNop, RingInv, RingSlots, SlotOK
  <2>3. \A t \in Threads : t # pair.cond => /\ Putting(t)' = Putting(t)
                                            /\ Waiting(t)' = Waiting(t)
    BY <1>3, <2>2 DEF WorkerHandleNop, SignalNop, Putting, Waiting, TypeOK
  <2>4. \A i \in 0 .. queue_cnt - 1 : Pending(i).cond # pair.cond
    BY <2>1, <2>2 DEF NopLast
  <2>5. QED
    BY <2>1, <2>3, <2>4
<1>4. CASE WorkerHandleItem
  BY <1>4 DEF WorkerHandleItem, InHand, Pending, Position, queueVars, Putting,
     Waiting
<1>5. CASE RingQuiet
  <2>1. /\ \A i : Pending(i)' = Pending(i)
        /\ queue_cnt' = queue_cnt /\ pair' = pair /\ InHand' = InHand
    BY <1>5 DEF RingQuiet, Pending, Position
  <2>2. QED
    BY <1>5, <2>1, QuietControl
<1>6. QED
  BY <1>1, <1>2, <1>3, <1>4, <1>5, StepKinds

\* A NOP stays pending until it is signalled: the wait for it cannot last
\* because the NOP got lost.
LEMMA NopPendingStep ==
  ASSUME TypeOK, ExtractsSomething, MutexExclusion, RingInv, NopWaits,
         NopPending, Next
  PROVE  NopPending'
<1> SUFFICES ASSUME NEW u \in Threads, Putting(u)' \/ pc'[u] = "sync"
             PROVE  PendingNops(u)' # {}
  BY DEF NopPending
<1>0. Putting(u) \/ pc[u] = "sync" => PendingNops(u) # {}
  BY DEF NopPending
<1>1. ASSUME NEW t \in Threads, Put(t)
      PROVE  PendingNops(u)' # {}
  <2>1. /\ queue_cnt' = queue_cnt + 1 /\ queue_cnt \in Nat
        /\ \A i \in 0 .. queue_cnt - 1 : Pending(i)' = Pending(i)
        /\ \A i \in {queue_cnt} : Pending(i)' = NewSlot(t)
        /\ InHand' = InHand /\ pair' = pair
    BY <1>1, AfterPut DEF TypeOK
  <2>2. CASE u = t
    <3>1. NewSlot(t).cond = u
      BY <1>1, <2>2 DEF Put, Goto, Putting, NewSlot, NopSlot, TypeOK
    <3>2. queue_cnt \in 0 .. queue_cnt' - 1
      BY <2>1
    <3>3. queue_cnt \in PendingNops(u)'
      BY <2>1, <3>1, <3>2 DEF PendingNops
    <3>4. QED
      BY <3>3
  <2>3. CASE u # t
    <3>1. PendingNops(u) # {}
      BY <1>0, <1>1, <2>3 DEF Put, Goto, Putting, TypeOK
    <3>2. 0 .. queue_cnt - 1 \subseteq 0 .. queue_cnt' - 1
      BY <2>1
    <3>3. PendingNops(u) \subseteq PendingNops(u)'
      BY <2>1, <3>2 DEF PendingNops
    <3>4. QED
      BY <3>1, <3>3
  <2>4. QED
    BY <2>2, <2>3
<1>2. CASE WorkerExtract
  <2>1. /\ queue_cnt \in Nat /\ queue_cnt > 0 /\ queue_cnt' = queue_cnt - 1
        /\ \A i \in 0 .. queue_cnt - 2 : Pending(i)' = Pending(i + 1)
        /\ pair' = Pending(0)
        /\ ~InHand /\ InHand'
        /\ pc' = pc /\ request' = request
    BY <1>2, AfterExtract DEF TypeOK
  <2>2. PICK n \in PendingNops(u) : TRUE
    BY <1>0, <2>1 DEF Putting
  <2>3. n \in 0 .. queue_cnt - 1 /\ Pending(n).cond = u
    BY <2>1, <2>2 DEF PendingNops
  <2>4. CASE n = 0
    <3>1. -1 \in PendingNops(u)'
      BY <2>1, <2>3, <2>4 DEF PendingNops
    <3>2. QED
      BY <3>1
  <2>5. CASE n # 0
    <3>1. PICK k \in 0 .. queue_cnt - 2 : n = k + 1
      BY <2>1, <2>3, <2>5
    <3>2. k \in 0 .. queue_cnt' - 1 /\ Pending(k)'.cond = u
      BY <2>1, <2>3, <3>1
    <3>3. k \in PendingNops(u)'
      BY <3>2 DEF PendingNops
    <3>4. QED
      BY <3>3
  <2>6. QED
    BY <2>4, <2>5
<1>3. CASE WorkerHandleNop
  <2>1. /\ \A i : Pending(i)' = Pending(i)
        /\ queue_cnt' = queue_cnt /\ pair' = pair
        /\ InHand /\ ~InHand'
    BY <1>3 DEF WorkerHandleNop, InHand, Pending, Position, queueVars, workerVars
  <2>2. pair.cond \in Threads
    BY <1>3, <2>1 DEF WorkerHandleNop, RingInv, RingSlots, SlotOK
  <2>3. u # pair.cond
    BY <1>3, <2>1, <2>2 DEF WorkerHandleNop, SignalNop, NopWaits, Putting,
       Waiting, TypeOK
  <2>4. Putting(u) \/ pc[u] = "sync"
    BY <1>3, <2>2, <2>3 DEF WorkerHandleNop, SignalNop, Putting, TypeOK
  <2>5. PendingNops(u)' = PendingNops(u)
    BY <2>1, <2>3 DEF PendingNops
  <2>6. QED
    BY <1>0, <2>4, <2>5
<1>4. CASE WorkerHandleItem
  <2>1. /\ \A i : Pending(i)' = Pending(i)
        /\ queue_cnt' = queue_cnt /\ pair' = pair
        /\ InHand /\ ~InHand'
        /\ pc' = pc /\ request' = request
    BY <1>4, AfterHandleItem DEF Pending, Position
  <2>2. pair.cond = NoOne
    BY <1>4, <2>1 DEF WorkerHandleItem, RingInv, RingSlots, SlotOK
  <2>3. PendingNops(u)' = PendingNops(u)
    BY <2>1, <2>2 DEF PendingNops
  <2>4. QED
    BY <1>0, <2>1, <2>3 DEF Putting
<1>5. CASE RingQuiet
  <2>1. PendingNops(u)' = PendingNops(u)
    BY <1>5 DEF RingQuiet, PendingNops, Pending, Position
  <2>2. QED
    BY <1>0, <1>5, <2>1, QuietControl
<1>6. QED
  BY <1>1, <1>2, <1>3, <1>4, <1>5, StepKinds

\* The signal of a NOP finds every item of its thread in the object.
LEMMA SyncedFullStep ==
  ASSUME TypeOK, ExtractsSomething, MutexExclusion, RingInv, OrderInv,
         EachItemOnce, InOrder, NopLast, NopWaits, SyncedFull, Next
  PROVE  SyncedFull'
<1> SUFFICES ASSUME NEW u \in Threads, Synced(u)'
             PROVE  Len(cobj'[u]) = Len(sent'[u])
  BY DEF SyncedFull
<1>0. Synced(u) => Len(cobj[u]) = Len(sent[u])
  BY DEF SyncedFull
<1>1. ASSUME NEW t \in Threads, Put(t)
      PROVE  Len(cobj'[u]) = Len(sent'[u])
  <2>1. Synced(u) /\ u # t
    BY <1>1 DEF Put, Goto, Synced, TypeOK
  <2>2. sent'[u] = sent[u] /\ cobj' = cobj
    BY <1>1, <2>1, SentGrows, AfterPut
  <2>3. QED
    BY <1>0, <2>1, <2>2
<1>2. CASE WorkerExtract
  BY <1>0, <1>2, AfterExtract DEF Synced
<1>3. CASE WorkerHandleNop
  <2>1. InHand /\ pair.cobj = NoOne /\ sent' = sent /\ cobj' = cobj
    BY <1>3 DEF WorkerHandleNop, InHand, workerVars
  <2>2. pair.cond \in Threads
    BY <1>3, <2>1 DEF RingInv, RingSlots, SlotOK
  <2>3. CASE Synced(u)
    BY <1>0, <2>1, <2>3
  <2>4. CASE u = pair.cond
    <3>1. \A j \in 0 .. queue_cnt - 1 : Pending(j).cobj # u
      BY <2>1, <2>2, <2>4 DEF NopLast
    <3>2. PendingItems(u) = {}
      BY <2>1, <3>1 DEF PendingItems
    <3>3. Len(cobj[u]) + 1 .. Len(sent[u]) = {}
      BY <3>2 DEF EachItemOnce
    <3>4. ~(Len(cobj[u]) < Len(sent[u]))
      <4>1. Len(cobj[u]) + 1 \notin Len(cobj[u]) + 1 .. Len(sent[u])
        BY <3>3
      <4>2. QED
        BY <4>1, NeverAhead
    <3>5. QED
      BY <2>1, <3>4, NeverAhead
  <2>5. Synced(u) \/ u = pair.cond
    BY <1>3, <2>2 DEF WorkerHandleNop, SignalNop, Synced, TypeOK
  <2>6. QED
    BY <2>3, <2>4, <2>5
<1>4. CASE WorkerHandleItem
  <2>1. /\ Synced(u) /\ InHand /\ sent' = sent
    BY <1>4, AfterHandleItem DEF Synced
  <2>2. CASE u = pair.cobj
    <3>1. pair.item = Len(cobj[u]) + 1 /\ pair.item <= Len(sent[u])
      BY <2>1, <2>2, InHandIsNext
    <3>2. QED
      BY <1>0, <2>1, <3>1, NeverAhead
  <2>3. CASE u # pair.cobj
    BY <1>0, <1>4, <2>1, <2>3, AfterHandleItem
  <2>4. QED
    BY <2>2, <2>3
<1>5. CASE RingQuiet
  BY <1>0, <1>5, QuietControl DEF RingQuiet
<1>6. QED
  BY <1>1, <1>2, <1>3, <1>4, <1>5, StepKinds

-----------------------------------------------------------------------------
(* The hash tree and the ids.                                              *)

\* What appending one element to a bucket or an object does.
LEMMA Appended ==
  ASSUME NEW S, NEW s \in Seq(S), NEW e \in S
  PROVE  /\ \A n : n \in DOMAIN Append(s, e) <=> n \in DOMAIN s \/ n = Len(s) + 1
         /\ \A n \in DOMAIN s : Append(s, e)[n] = s[n]
         /\ Append(s, e)[Len(s) + 1] = e
<1>1. DOMAIN s = 1 .. Len(s) /\ Len(s) \in Nat
  OBVIOUS
<1>2. Append(s, e) \in Seq(S) /\ Len(Append(s, e)) = Len(s) + 1
  OBVIOUS
<1>3. DOMAIN Append(s, e) = 1 .. Len(s) + 1
  BY <1>2
<1>4. /\ \A n \in 1 .. Len(s) : Append(s, e)[n] = s[n]
      /\ Append(s, e)[Len(s) + 1] = e
  BY <1>1
<1>5. QED
  BY <1>1, <1>3, <1>4

\* An item is cached under a new id exactly when no cached item has its
\* content.
LEMMA CachedIsCached ==
  ASSUME TypeOK, IdInv, NEW x \in TreeItems
  PROVE  /\ x.id < next_ID /\ x.id \in Nat
         /\ \A c \in Contents : x.content = c => Cached(c) # {}
<1>1. PICK h \in ItemIDs : \E i \in DOMAIN tree[h] : x = tree[h][i]
  BY DEF TreeItems
<1>2. PICK i \in DOMAIN tree[h] : x = tree[h][i]
  BY <1>1
<1>3. x \in Items
  BY <1>2 DEF TypeOK
<1>4. SEXP_ID_v[x.content] = h /\ x.id < next_ID
  BY <1>2 DEF IdInv
<1>5. ASSUME NEW c \in Contents, x.content = c
      PROVE  i \in Cached(c)
  BY <1>2, <1>4, <1>5 DEF Cached
<1>6. QED
  BY <1>3, <1>4, <1>5 DEF Items

\* Appending to one bucket adds one item to the cached ones, and keeps every
\* other one where it was.
LEMMA BucketGrows ==
  ASSUME TypeOK, NEW h \in ItemIDs, NEW fresh \in Items,
         tree' = [tree EXCEPT ![h] = Append(@, fresh)]
  PROVE  \A g \in ItemIDs :
            /\ \A i \in DOMAIN tree'[g] :
                  \/ i \in DOMAIN tree[g] /\ tree'[g][i] = tree[g][i]
                  \/ g = h /\ tree'[g][i] = fresh
            /\ \A i \in DOMAIN tree[g] :
                  i \in DOMAIN tree'[g] /\ tree'[g][i] = tree[g][i]
<1>1. /\ \A g \in ItemIDs : g # h => tree'[g] = tree[g]
      /\ tree'[h] = Append(tree[h], fresh)
      /\ tree[h] \in Seq(Items)
  BY DEF TypeOK
<1>2. /\ \A n : n \in DOMAIN tree'[h] <=>
                  n \in DOMAIN tree[h] \/ n = Len(tree[h]) + 1
      /\ \A n \in DOMAIN tree[h] : tree'[h][n] = tree[h][n]
      /\ tree'[h][Len(tree[h]) + 1] = fresh
  BY <1>1, Appended
<1>3. QED
  BY <1>1, <1>2

\* The cached items after a miss are the old ones and the new one.
LEMMA CachedGrows ==
  ASSUME TypeOK, NEW h \in ItemIDs, NEW fresh \in Items,
         tree' = [tree EXCEPT ![h] = Append(@, fresh)]
  PROVE  TreeItems' = TreeItems \cup {fresh}
<1>1. \A x \in TreeItems' : x \in TreeItems \/ x = fresh
  BY BucketGrows DEF TreeItems
<1>2. fresh \in TreeItems'
  <2>1. tree'[h] = Append(tree[h], fresh) /\ tree[h] \in Seq(Items)
    BY DEF TypeOK
  <2>2. /\ Len(tree[h]) + 1 \in DOMAIN tree'[h]
        /\ tree'[h][Len(tree[h]) + 1] = fresh
    BY <2>1, Appended
  <2>3. QED
    BY <2>2 DEF TreeItems
<1>3. \A x \in TreeItems : x \in TreeItems'
  BY BucketGrows DEF TreeItems
<1>4. QED
  BY <1>1, <1>2, <1>3

\* Only a miss takes an id, and then no cached item has it or its content.
LEMMA IdStep ==
  ASSUME TypeOK, RingInv, IdInv, Next
  PROVE  IdInv'
<1>1. CASE WorkerHandleItem
  <2>1. /\ pair.cobj \in Threads /\ pair.item \in 1 .. Len(sent[pair.cobj])
    BY <1>1 DEF WorkerHandleItem, RingInv, RingSlots, SlotOK, InHand
  <2>2. PICK c \in Contents : c = sent[pair.cobj][pair.item]
    BY <2>1 DEF TypeOK
  <2>3. PICK h \in ItemIDs : h = SEXP_ID_v[c]
    OBVIOUS
  <2>4. PICK fresh \in Items : fresh = [content |-> c, id |-> next_ID]
    BY DEF TypeOK, Items
  <2>5. ASSUME NEW item \in Items,
               cobj' = [cobj EXCEPT ![pair.cobj] = Append(@, item)]
        PROVE  \A t \in Threads : \A n \in DOMAIN cobj'[t] :
                  cobj'[t][n] \in TreeItems \cup {item}
    <3> SUFFICES ASSUME NEW t \in Threads, NEW n \in DOMAIN cobj'[t]
                 PROVE  cobj'[t][n] \in TreeItems \cup {item}
      OBVIOUS
    <3>1. CASE t = pair.cobj
      <4>1. cobj'[t] = Append(cobj[t], item) /\ cobj[t] \in Seq(Items)
        BY <2>1, <2>5, <3>1 DEF TypeOK
      <4>2. n \in DOMAIN cobj[t] \/ n = Len(cobj[t]) + 1
        BY <4>1, Appended
      <4>3. \/ n \in DOMAIN cobj[t] /\ cobj'[t][n] = cobj[t][n]
            \/ cobj'[t][n] = item
        BY <4>1, <4>2, Appended
      <4>4. QED
        BY <4>3 DEF IdInv
    <3>2. CASE t # pair.cobj
      <4>1. cobj'[t] = cobj[t]
        BY <2>5, <3>2 DEF TypeOK
      <4>2. QED
        BY <4>1 DEF IdInv
    <3>3. QED
      BY <3>1, <3>2
  <2>6. CASE /\ Cached(c) = {}
             /\ tree' = [tree EXCEPT ![h] = Append(@, fresh)]
             /\ next_ID' = next_ID + 1
             /\ cobj' = [cobj EXCEPT ![pair.cobj] = Append(@, fresh)]
    <3>1. next_ID \in Nat /\ next_ID' = next_ID + 1
      BY <2>6 DEF TypeOK
    <3>2. \A g \in ItemIDs : tree[g] \in Seq(Items)
      BY DEF TypeOK
    <3>3. ASSUME NEW g \in ItemIDs, NEW i \in DOMAIN tree'[g]
          PROVE  \/ i \in DOMAIN tree[g] /\ tree'[g][i] = tree[g][i]
                 \/ g = h /\ tree'[g][i] = fresh
      BY <2>6, BucketGrows
    <3>4. TreeItems' = TreeItems \cup {fresh}
      BY <2>6, CachedGrows
    <3>5. \A x \in TreeItems : x.id # next_ID /\ x.content # c
      BY <2>6, CachedIsCached
    <3>6. ASSUME NEW g \in ItemIDs, NEW i \in DOMAIN tree'[g]
          PROVE  SEXP_ID_v[tree'[g][i].content] = g /\ tree'[g][i].id < next_ID'
      <4>1. CASE i \in DOMAIN tree[g] /\ tree'[g][i] = tree[g][i]
        <5>1. tree[g][i].id \in Nat
          <6>1. tree[g][i] \in Items
            BY <3>2, <4>1
          <6>2. QED
            BY <6>1 DEF Items
        <5>2. SEXP_ID_v[tree[g][i].content] = g /\ tree[g][i].id < next_ID
          BY <4>1 DEF IdInv
        <5>3. QED
          BY <3>1, <4>1, <5>1, <5>2
      <4>2. CASE g = h /\ tree'[g][i] = fresh
        BY <2>3, <2>4, <3>1, <4>2
      <4>3. QED
        BY <3>3, <4>1, <4>2
    <3>7. \A x, y \in TreeItems' : x.content = y.content \/ x.id = y.id => x = y
      BY <2>4, <3>4, <3>5 DEF IdInv
    <3>8. \A t \in Threads : \A n \in DOMAIN cobj'[t] : cobj'[t][n] \in TreeItems'
      <4>1. \A t \in Threads : \A n \in DOMAIN cobj'[t] :
               cobj'[t][n] \in TreeItems \cup {fresh}
        BY <2>5, <2>6
      <4>2. QED
        BY <4>1, <3>4
    <3>9. QED
      BY <3>6, <3>7, <3>8 DEF IdInv
  <2>7. ASSUME NEW i \in Cached(c),
               cobj' = [cobj EXCEPT ![pair.cobj] = Append(@, tree[h][i])],
               UNCHANGED <<tree, next_ID>>
        PROVE  IdInv'
    <3>1. TreeItems' = TreeItems /\ tree' = tree /\ next_ID' = next_ID
      BY <2>7 DEF TreeItems
    <3>2. tree[h][i] \in TreeItems /\ tree[h][i] \in Items
      BY <2>3 DEF TreeItems, Cached, TypeOK
    <3>3. \A t \in Threads : \A n \in DOMAIN cobj'[t] : cobj'[t][n] \in TreeItems
      <4>1. \A t \in Threads : \A n \in DOMAIN cobj'[t] :
               cobj'[t][n] \in TreeItems \cup {tree[h][i]}
        BY <2>5, <2>7, <3>2
      <4>2. QED
        BY <4>1, <3>2
    <3>4. QED
      BY <3>1, <3>3 DEF IdInv
  <2>8. QED
    BY <1>1, <2>2, <2>3, <2>4, <2>6, <2>7 DEF WorkerHandleItem
<1>2. ASSUME NEW t \in Threads, Put(t)
      PROVE  IdInv'
  BY <1>2 DEF Put, IdInv, TreeItems, workerVars
<1>3. CASE WorkerExtract \/ WorkerHandleNop \/ RingQuiet
  BY <1>3 DEF WorkerExtract, WorkerHandleNop, RingQuiet, IdInv, TreeItems,
     workerVars
<1>4. QED
  BY <1>1, <1>2, <1>3, StepKinds

-----------------------------------------------------------------------------
(* IInv is inductive.                                                      *)

\* IInv holds initially: the ring, the tree and the objects are empty.
LEMMA IInvInit == Init => IInv
<1> SUFFICES ASSUME Init PROVE IInv
  OBVIOUS
<1>1. TypeOK /\ ExtractsSomething
  BY TypeInit
<1>2. /\ queue_cnt = 0 /\ ~InHand
      /\ \A i : i \notin 0 .. queue_cnt - 1
      /\ \A t \in Threads : pc[t] = "main" /\ sent[t] = <<>> /\ cobj[t] = <<>>
  BY DEF Init, InHand
<1>3. MutexExclusion /\ RingInv
  BY <1>2 DEF Init, MutexExclusion, RingInv, RingSlots, RingEnds, Position
<1>4. OrderInv /\ NopLast /\ NopWaits
  BY <1>2 DEF OrderInv, NopLast, NopWaits
<1>5. EachItemOnce
  <2> SUFFICES ASSUME NEW t \in Threads
               PROVE  PendingItems(t) = Len(cobj[t]) + 1 .. Len(sent[t])
    BY DEF EachItemOnce
  <2>1. PendingItems(t) = {}
    BY <1>2 DEF PendingItems
  <2>2. Len(cobj[t]) = 0 /\ Len(sent[t]) = 0
    BY <1>2
  <2>3. QED
    BY <2>1, <2>2
<1>6. InOrder /\ NopPending /\ SyncedFull
  BY <1>2 DEF InOrder, NopPending, SyncedFull, Putting, Synced
<1>7. IdInv
  BY <1>2 DEF Init, IdInv, TreeItems
<1>8. QED
  BY <1>1, <1>3, <1>4, <1>5, <1>6, <1>7 DEF IInv

\* Every step preserves IInv, one lemma per conjunct.
LEMMA IInvStep == IInv /\ [Next]_vars => IInv'
<1> SUFFICES ASSUME IInv, [Next]_vars PROVE IInv'
  OBVIOUS
<1> USE DEF IInv
<1>1. CASE Next
  <2>1. TypeOK' /\ ExtractsSomething' /\ MutexExclusion' /\ RingInv'
    BY <1>1, TypeStep, MutexStep, RingSlotsStep, RingEndsStep DEF RingInv
  <2>2. OrderInv' /\ EachItemOnce' /\ InOrder'
    BY <1>1, OrderStep, EachItemOnceStep, InOrderStep
  <2>3. NopLast' /\ NopWaits' /\ NopPending' /\ SyncedFull'
    BY <1>1, NopLastStep, NopWaitsStep, NopPendingStep, SyncedFullStep
  <2>4. IdInv'
    BY <1>1, IdStep
  <2>5. QED
    BY <2>1, <2>2, <2>3, <2>4
<1>2. CASE UNCHANGED vars
  <2> USE <1>2 DEF vars, queueVars, workerVars, InHand, Pending, Position
  <2>1. TypeOK' /\ ExtractsSomething' /\ MutexExclusion'
    BY DEF TypeOK, ExtractsSomething, MutexExclusion
  <2>2. RingInv' /\ OrderInv' /\ EachItemOnce' /\ InOrder'
    BY DEF RingInv, RingSlots, RingEnds, SlotOK, OrderInv, EachItemOnce,
       PendingItems, InOrder
  <2>3. NopLast' /\ NopWaits' /\ NopPending' /\ SyncedFull' /\ IdInv'
    BY DEF NopLast, NopWaits, NopPending, SyncedFull, Putting, Waiting, Synced,
       PendingNops, IdInv, TreeItems
  <2>4. QED
    BY <2>1, <2>2, <2>3
<1>3. QED
  BY <1>1, <1>2

\* The inductive invariant of the item cache holds in every state that
\* probe threads, icache worker and cancellation can reach.
THEOREM IInvHolds == Spec => []IInv
  BY IInvInit, IInvStep, PTL DEF Spec

-----------------------------------------------------------------------------
(* What follows for every number of threads, contents and slots.           *)

\* Every variable has its type and the ring indices stay in their ranges.
THEOREM TypeCorrect == Spec => []TypeOK
<1>1. IInv => TypeOK
  BY DEF IInv
<1>2. QED
  BY <1>1, IInvHolds, PTL

\* queue_mutex is exclusive also with threads cancelled at any point.
THEOREM MutualExclusion == Spec => []MutexExclusion
<1>1. IInv => MutexExclusion
  BY DEF IInv
<1>2. QED
  BY <1>1, IInvHolds, PTL

\* A free mutex guards a ring whose counters agree and whose pending slots
\* are filled: what probe_icache_worker assumes of it.
THEOREM RingIsConsistent == Spec => []RingConsistent
<1>1. IInv => RingConsistent
  <2> SUFFICES ASSUME IInv, queue_mutex = NoOne PROVE RingConsistent
    BY DEF RingConsistent
  <2>1. queue_end = Position(queue_cnt)
    BY DEF IInv, RingInv, RingEnds
  <2>2. \A i \in 0 .. queue_cnt - 1 : SlotOK(Pending(i))
    BY DEF IInv, RingInv, RingSlots
  <2>3. \A i \in 0 .. queue_cnt - 1 : Pending(i) # EmptySlot
    BY <2>2 DEF SlotOK, EmptySlot
  <2>4. QED
    BY <2>1, <2>3 DEF RingConsistent
<1>2. QED
  BY <1>1, IInvHolds, PTL

\* No item gets lost between probe_icache_add and its object, none is added
\* twice and none overtakes another one of its thread.
THEOREM ItemsAreConserved == Spec => []EachItemOnce
<1>1. IInv => EachItemOnce
  BY DEF IInv
<1>2. QED
  BY <1>1, IInvHolds, PTL

\* A thread waiting in probe_icache_nop is going to be signalled.
THEOREM NopsAreKept == Spec => []NopNotForgotten
<1>1. IInv => NopNotForgotten
  BY DEF IInv, NopPending, NopNotForgotten
<1>2. QED
  BY <1>1, IInvHolds, PTL

\* Requests that the sleeping worker does not know of: only a thread that is
\* on its way to signal it, or was cancelled on that way, leaves some.  Before
\* the worker first sleeps it holds the mutex, and nobody has put any.
WakeInv == NoLostWakeup /\ (icw = "ready" => queue_cnt = 0)

\* Every thread that adds a request goes through the signal or is cancelled,
\* and the worker looks at queue_cnt before it sleeps again.
LEMMA WakeStep ==
  ASSUME IInv, WakeInv, Next
  PROVE  WakeInv'
<1> USE DEF IInv, WakeInv, NoLostWakeup
<1>1. pc \in [Threads -> PCs] /\ queue_cnt \in Nat
  BY DEF TypeOK
<1>2. ASSUME NEW t \in Threads, ThreadStep(t)
      PROVE  WakeInv'
  <2>1. CASE Put(t)
    <3>1. icw # "ready"
      BY <2>1 DEF Put, Goto, MutexExclusion
    <3>2. pc'[t] = "end" /\ icw' = icw
      BY <2>1, <1>1 DEF Put, Goto
    <3>3. QED
      BY <3>1, <3>2
  <2>2. CASE AddSignal(t) \/ NopWait(t)
    BY <2>2, <1>1 DEF AddSignal, NopWait, Goto, WakeWorker, queueVars
  <2>3. CASE PutEnd(t) \/ AddUnlock(t)
    BY <2>3, <1>1 DEF PutEnd, AddUnlock, Goto, queueVars
  <2>4. ASSUME \/ \E c \in Contents : CollectItem(t, c)
               \/ MemoryLow(t) \/ MainReturns(t) \/ Lock(t) \/ WaitNotFull(t)
               \/ NopReturn(t) \/ FlagIncomplete(t)
        PROVE  WakeInv'
    <3>1. /\ icw' = icw /\ queue_cnt' = queue_cnt
          /\ pc[t] \notin {"end", "unlock", "signal", "dead"}
          /\ \A u \in Threads \ {t} : pc'[u] = pc[u]
      BY <2>4, <1>1 DEF CollectItem, MemoryLow, MainReturns, Lock,
         WaitNotFull, NopReturn, FlagIncomplete, Goto, queueVars
    <3>2. QED
      BY <3>1
  <2>5. QED
    BY <1>2, <2>1, <2>2, <2>3, <2>4 DEF ThreadStep
<1>3. ASSUME NEW t \in Threads, Cancel(t)
      PROVE  WakeInv'
  BY <1>3, <1>1 DEF Cancel, CancelAsync, CancelWaiting, queueVars
<1>4. CASE WorkerReady
  BY <1>4 DEF WorkerReady, queueVars
<1>5. CASE WorkerRelock
  BY <1>5, <1>1 DEF WorkerRelock, queueVars
<1>6. CASE \/ WorkerWake \/ WorkerExtract \/ WorkerSignalNotFull
           \/ WorkerHandleNop \/ WorkerHandleItem \/ WorkerExit
  BY <1>6 DEF WorkerWake, WorkerExtract, WorkerSignalNotFull,
     WorkerHandleNop, WorkerHandleItem, WorkerExit
<1>7. CASE Free
  BY <1>7 DEF Free, queueVars
<1>8. QED
  BY <1>2, <1>3, <1>4, <1>5, <1>6, <1>7 DEF Next, WorkerStep

\* No signal of notempty is lost: where the code sends it after it gave the
\* mutex back (probe_icache_add), and where it holds it (probe_icache_nop).
THEOREM WakeupsAreKept == Spec => []NoLostWakeup
<1>1. Init => WakeInv
  BY DEF Init, WakeInv, NoLostWakeup
<1>2. IInv /\ WakeInv /\ [Next]_vars => WakeInv'
  <2>1. IInv /\ WakeInv /\ UNCHANGED vars => WakeInv'
    BY DEF vars, queueVars, WakeInv, NoLostWakeup
  <2>2. QED
    BY <2>1, WakeStep
<1>3. WakeInv => NoLostWakeup
  BY DEF WakeInv
<1>4. QED
  BY <1>1, <1>2, <1>3, IInvHolds, PTL DEF Spec

\* After probe_icache_nop the object is complete and belongs to its thread.
THEOREM SyncGivesObject == Spec => []SyncOwnsObject
<1>1. IInv => SyncOwnsObject
  <2> SUFFICES ASSUME IInv, NEW t \in Threads, pc[t] \in {"flag", "done"}
               PROVE  /\ PendingItems(t) = {}
                      /\ Len(cobj[t]) = Len(sent[t])
                      /\ \A n \in DOMAIN sent[t] : cobj[t][n].content = sent[t][n]
    BY DEF SyncOwnsObject
  <2>1. Len(cobj[t]) = Len(sent[t])
    BY DEF IInv, SyncedFull, Synced
  <2>2. Len(sent[t]) \in Nat /\ Len(cobj[t]) \in Nat
    BY NeverAhead DEF IInv
  <2>3. PendingItems(t) = {}
    BY <2>1, <2>2 DEF IInv, EachItemOnce
  <2>4. DOMAIN sent[t] = DOMAIN cobj[t]
    BY <2>1 DEF IInv, TypeOK
  <2>5. QED
    BY <2>1, <2>3, <2>4 DEF IInv, InOrder
<1>2. QED
  BY <1>1, IInvHolds, PTL

\* Equal ids mean equal items in whatever objects they are.
THEOREM IdsAreUnique == Spec => []UniqueIDs
<1>1. IInv => UniqueIDs
  BY DEF IInv, IdInv, UniqueIDs
<1>2. QED
  BY <1>1, IInvHolds, PTL

-----------------------------------------------------------------------------
(* ICache implements ItemCollection.                                       *)

\* synced of the abstract specification.
SyncedThreads == {t \in Threads : pc[t] \in {"flag", "done"}}

\* Putting an item into the queue is Send.
LEMMA PutSends ==
  ASSUME IInv, NEW t \in Threads, Put(t)
  PROVE  Spec_Items!Next \/ UNCHANGED Spec_Items!vars
<1>1. TypeOK /\ request[t] \in Requests
  BY DEF IInv, TypeOK
<1>2. /\ t \notin SyncedThreads /\ SyncedThreads' = SyncedThreads
      /\ cobj' = cobj /\ TreeItems' = TreeItems
  BY <1>1 DEF Put, Goto, SyncedThreads, TreeItems, workerVars, TypeOK
<1>3. CASE IsItem(request[t])
  <2>1. PICK c \in Contents : c = request[t].content
    BY <1>1, <1>3 DEF Requests, IsItem, MemcheckNop, FinalNop
  <2>2. sent' = [sent EXCEPT ![t] = Append(@, c)]
    BY <1>3, <2>1 DEF Put
  <2>3. Spec_Items!Send(t, c)
    BY <1>2, <2>2 DEF Spec_Items!Send, SyncedThreads
  <2>4. QED
    BY <2>3 DEF Spec_Items!Next
<1>4. CASE ~IsItem(request[t])
  <2>1. sent' = sent
    BY <1>1, <1>4 DEF Put, TypeOK
  <2>2. QED
    BY <1>2, <2>1 DEF Spec_Items!vars, SyncedThreads
<1>5. QED
  BY <1>3, <1>4

\* Handling an item is Deliver, whether it was cached or not.
LEMMA HandleItemDelivers ==
  ASSUME IInv, WorkerHandleItem
  PROVE  Spec_Items!Next
<1> USE DEF IInv
<1>1. PICK t \in Threads : t = pair.cobj
  BY AfterHandleItem
<1>2. /\ pair.item = Len(cobj[t]) + 1 /\ pair.item <= Len(sent[t])
      /\ Len(cobj[t]) \in Nat /\ Len(sent[t]) \in Nat
  BY <1>1, AfterHandleItem, InHandIsNext, NeverAhead
<1>3. t \notin SyncedThreads /\ SyncedThreads' = SyncedThreads
  BY <1>2, AfterHandleItem DEF SyncedThreads, SyncedFull, Synced
<1>4. PICK c \in Contents : c = sent[t][pair.item]
  BY <1>2 DEF TypeOK
<1>5. PICK h \in ItemIDs : h = SEXP_ID_v[c]
  OBVIOUS
<1>6. PICK fresh \in Items : fresh = [content |-> c, id |-> next_ID]
  BY DEF TypeOK, Items
<1>7. ASSUME NEW item \in TreeItems',
             item.content = c,
             cobj' = [cobj EXCEPT ![t] = Append(@, item)],
             \/ item \in TreeItems /\ TreeItems' = TreeItems
             \/ /\ \A k \in TreeItems : k.content # item.content /\ k.id # item.id
                /\ TreeItems' = TreeItems \cup {item}
      PROVE  Spec_Items!Deliver(t)
  <2>1. sent' = sent
    BY AfterHandleItem
  <2>2. item.content = sent[t][Len(cobj[t]) + 1] /\ Len(cobj[t]) < Len(sent[t])
    BY <1>2, <1>4, <1>7
  <2>3. \E x \in TreeItems' :
           /\ x.content = sent[t][Len(cobj[t]) + 1]
           /\ cobj' = [cobj EXCEPT ![t] = Append(@, x)]
           /\ \/ x \in TreeItems /\ TreeItems' = TreeItems
              \/ /\ \A k \in TreeItems : k.content # x.content /\ k.id # x.id
                 /\ TreeItems' = TreeItems \cup {x}
    <3> WITNESS item \in TreeItems'
    <3> QED
      BY <1>7, <2>2
  <2>4. QED
    BY <1>3, <2>1, <2>2, <2>3 DEF Spec_Items!Deliver, SyncedThreads
<1>8. CASE /\ Cached(c) = {}
           /\ tree' = [tree EXCEPT ![h] = Append(@, fresh)]
           /\ cobj' = [cobj EXCEPT ![t] = Append(@, fresh)]
  <2>1. TreeItems' = TreeItems \cup {fresh}
    BY <1>8, CachedGrows
  <2>2. fresh.content = c /\ fresh.id = next_ID /\ fresh \in TreeItems'
    BY <1>6, <2>1
  <2>3. \A k \in TreeItems : k.content # c /\ k.id # next_ID
    BY <1>8, CachedIsCached
  <2>4. Spec_Items!Deliver(t)
    BY <1>7, <1>8, <2>1, <2>2, <2>3
  <2>5. QED
    BY <2>4 DEF Spec_Items!Next
<1>9. ASSUME NEW i \in Cached(c),
             cobj' = [cobj EXCEPT ![t] = Append(@, tree[h][i])],
             tree' = tree
      PROVE  Spec_Items!Deliver(t)
  <2>1. TreeItems' = TreeItems
    BY <1>9 DEF TreeItems
  <2>2. tree[h][i] \in TreeItems /\ tree[h][i].content = c
    BY <1>5 DEF Cached, TreeItems
  <2>3. QED
    BY <1>7, <1>9, <2>1, <2>2
<1>10. QED
  BY <1>1, <1>4, <1>5, <1>6, <1>8, <1>9 DEF WorkerHandleItem, Spec_Items!Next

\* The other steps change at most who owns an object.
LEMMA ControlSyncs ==
  ASSUME IInv, Next, UNCHANGED <<sent, cobj, tree>>
  PROVE  Spec_Items!Next \/ UNCHANGED Spec_Items!vars
<1> USE DEF IInv
<1>1. TreeItems' = TreeItems
  BY DEF TreeItems
<1>2. ASSUME NEW t \in Threads, t \notin SyncedThreads,
             SyncedThreads' = SyncedThreads \cup {t}, pc[t] = "synced"
      PROVE  Spec_Items!Sync(t)
  <2>1. Len(cobj[t]) = Len(sent[t])
    BY <1>2 DEF SyncedFull, Synced
  <2>2. \A n \in DOMAIN sent[t] : cobj[t][n].content = sent[t][n]
    BY <2>1 DEF InOrder, TypeOK
  <2>3. QED
    BY <1>1, <1>2, <2>1, <2>2
    DEF Spec_Items!Sync, Spec_Items!Delivered, SyncedThreads
<1>3. ASSUME NEW t \in Threads, t \in SyncedThreads,
             SyncedThreads' = SyncedThreads \ {t}
      PROVE  Spec_Items!Continue(t)
  BY <1>1, <1>3 DEF Spec_Items!Continue, SyncedThreads
<1>4. CASE SyncedThreads' = SyncedThreads
  BY <1>1, <1>4 DEF Spec_Items!vars, SyncedThreads
<1>5. CASE \E t \in Threads : NopReturn(t)
  <2>1. PICK t \in Threads : NopReturn(t)
    BY <1>5
  <2>2. /\ pc[t] = "synced" /\ t \notin SyncedThreads
        /\ SyncedThreads' = SyncedThreads \cup {t}
    BY <2>1 DEF NopReturn, Goto, AfterNop, SyncedThreads, TypeOK
  <2>3. QED
    BY <1>2, <2>2 DEF Spec_Items!Next
<1>6. CASE \E t \in Threads : FlagIncomplete(t) \/ CancelAsync(t)
  <2>1. PICK t \in Threads : FlagIncomplete(t) \/ CancelAsync(t)
    BY <1>6
  <2>2. SyncedThreads' = SyncedThreads \ {t}
    BY <2>1 DEF FlagIncomplete, CancelAsync, AsyncRegion, Goto, SyncedThreads,
       TypeOK
  <2>3. CASE t \in SyncedThreads
    BY <1>3, <2>2, <2>3 DEF Spec_Items!Next
  <2>4. CASE t \notin SyncedThreads
    BY <1>4, <2>2, <2>4
  <2>5. QED
    BY <2>3, <2>4
<1>7. CASE \E t \in Threads : CancelWaiting(t)
  BY <1>4, <1>7 DEF CancelWaiting, InCondWait, SyncedThreads, TypeOK
<1>8. ASSUME NEW t \in Threads, ThreadStep(t), ~NopReturn(t), ~FlagIncomplete(t)
      PROVE  SyncedThreads' = SyncedThreads
  BY <1>8 DEF ThreadStep, Goto, CollectItem, MemoryLow, MainReturns, Lock, Put,
     PutEnd, WaitNotFull, AddUnlock, AddSignal, NopWait, SyncedThreads, TypeOK
<1>9. ASSUME WorkerStep \/ Free
      PROVE  SyncedThreads' = SyncedThreads
  BY <1>9 DEF WorkerStep, WorkerReady, WorkerWake, WorkerExtract,
     WorkerSignalNotFull, WakeOneNotFull, OnNotFull, WorkerHandleNop, SignalNop,
     WorkerHandleItem, WorkerRelock, WorkerExit, Free, SyncedThreads, TypeOK
<1>10. QED
  BY <1>4, <1>5, <1>6, <1>7, <1>8, <1>9 DEF Next, Cancel

\* The cache keeps what ItemCollection promises, cancelled threads included.
THEOREM Refinement == Spec => ImplementsItemCollection
<1>1. Init => Spec_Items!Init
  <2> SUFFICES ASSUME Init PROVE Spec_Items!Init
    OBVIOUS
  <2>1. TreeItems = {}
    BY DEF Init, TreeItems
  <2>2. {t \in Threads : pc[t] \in {"flag", "done"}} = {}
    BY DEF Init
  <2>3. QED
    BY <2>1, <2>2 DEF Init, Spec_Items!Init
<1>2. IInv /\ [Next]_vars => [Spec_Items!Next]_(Spec_Items!vars)
  <2> SUFFICES ASSUME IInv, [Next]_vars
               PROVE  Spec_Items!Next \/ UNCHANGED Spec_Items!vars
    OBVIOUS
  <2>1. CASE Next
    <3>1. CASE \E t \in Threads : Put(t)
      BY <3>1, PutSends
    <3>2. CASE WorkerHandleItem
      BY <3>2, HandleItemDelivers
    <3>3. CASE WorkerExtract \/ WorkerHandleNop \/ RingQuiet
      BY <2>1, <3>3, ControlSyncs DEF WorkerExtract, WorkerHandleNop, RingQuiet,
         workerVars
    <3>4. QED
      BY <2>1, <3>1, <3>2, <3>3, StepKinds
  <2>2. CASE UNCHANGED vars
    BY <2>2 DEF vars, workerVars, Spec_Items!vars, TreeItems
  <2>3. QED
    BY <2>1, <2>2
<1>3. QED
  BY <1>1, <1>2, IInvHolds, PTL DEF Spec, ImplementsItemCollection, Spec_Items!Spec
=============================================================================
