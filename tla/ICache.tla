------------------------------- MODULE ICache -------------------------------
(***************************************************************************)
(* The item cache of a probe process (OVAL/probes/probe/icache.c): a       *)
(* bounded ring buffer between the evaluation threads and the one icache   *)
(* worker, a mutex, the conditions notempty and notfull, and a NOP request *)
(* with a condition of its own by which a thread waits until everything it *)
(* collected has been put into its collected object.                       *)
(*                                                                         *)
(* One step is the code between two points where another thread can get in *)
(* the way: taking the mutex, a write to the shared queue by a thread that *)
(* can be cancelled there, pthread_cond_wait, and every                    *)
(* pthread_cond_signal, which the code sends in some places after and in   *)
(* others before it gives the mutex back.                                  *)
(***************************************************************************)
EXTENDS Integers, Sequences

CONSTANTS
  Threads,      \* probe worker threads, each with one collected object
  Contents,     \* item contents: what SEXP_deepcmp compares
  ItemIDs,      \* values of SEXP_ID_v, the hash the cache tree is keyed by
  SEXP_ID_v,    \* the hash of each content, not injective
  queue_max,    \* PROBE_IQUEUE_CAPACITY
  MemThreshold, \* PROBE_RESULT_MEMCHECK_CTRESHOLD
  MaxItems,     \* bound: items one thread hands over
  CancelOn      \* may the signal handler cancel evaluation threads?

CONSTANTS ICacheThread, NoOne   \* the cache's own thread; no thread

ASSUME ICacheAssumption ==
  /\ queue_max \in Nat \ {0}
  /\ MaxItems \in Nat /\ MemThreshold \in Nat
  /\ SEXP_ID_v \in [Contents -> ItemIDs]
  /\ ICacheThread \notin Threads /\ NoOne \notin Threads
  /\ ICacheThread # NoOne
  /\ CancelOn \in BOOLEAN

VARIABLES
  queue_mutex,  \* the thread that holds it, or NoOne
  queue, queue_beg, queue_end, queue_cnt,
  pc,           \* where each evaluation thread is
  request,      \* the call each evaluation thread is in
  sent,         \* sent[t]: contents of the items t put into the queue
  icw,          \* where the icache worker is
  pair,         \* pair_mem, the request the icache worker handles
  tree,         \* tree[h]: cached items with hash h, oldest first
  next_ID,
  cobj,         \* cobj[t]: items of the collected object of t
  incomplete,   \* objects flagged SYSCHAR_FLAG_INCOMPLETE
  freeing       \* probe_icache_free has cancelled the icache worker

queueVars  == <<queue, queue_beg, queue_end, queue_cnt>>
workerVars == <<pair, tree, next_ID, cobj>>
vars == <<queue_mutex, queueVars, pc, request, sent, icw, workerVars,
          incomplete, freeing>>

-----------------------------------------------------------------------------
(* Requests.  An item is named by its number among those its thread sent.  *)

ItemRequest(c) == [kind |-> "item", content |-> c]
MemcheckNop    == [kind |-> "memcheck", content |-> NoOne]
FinalNop       == [kind |-> "final", content |-> NoOne]

IsItem(r) == r.kind = "item"

EmptySlot     == [cobj |-> NoOne, item |-> 0, cond |-> NoOne]
ItemSlot(t, n) == [cobj |-> t, item |-> n, cond |-> NoOne]
NopSlot(t)    == [cobj |-> NoOne, item |-> 0, cond |-> t]

Slots == [cobj : Threads \cup {NoOne}, item : Nat, cond : Threads \cup {NoOne}]

Advance(i) == IF i + 1 = queue_max THEN 0 ELSE i + 1

\* The threads a condition variable can wake.
OnNotFull == {t \in Threads : pc[t] = "full"}

\* Variant: the signal is forgotten.
WakeWorker_Never == UNCHANGED icw

\* pthread_cond_signal(&queue_notempty): only the icache worker waits there.
WakeWorker == icw' = IF icw = "wait" THEN "woken" ELSE icw

\* Variant: the signal is forgotten.
WakeOneNotFull_Never == UNCHANGED pc

\* pthread_cond_signal(&queue_notfull) wakes one of the waiting threads.
WakeOneNotFull ==
  IF OnNotFull = {}
  THEN UNCHANGED pc
  ELSE \E t \in OnNotFull : pc' = [pc EXCEPT ![t] = "refill"]

\* Variant: the worker drops the NOP.
SignalNop_Never(t) == UNCHANGED pc

\* pthread_cond_signal on the condition of the NOP that t put in the queue.
SignalNop(t) == pc' = [pc EXCEPT ![t] = IF @ = "sync" THEN "synced" ELSE @]

-----------------------------------------------------------------------------
Init ==
  /\ queue_mutex = ICacheThread         \* taken before the start barrier
  /\ queue = [i \in 0 .. queue_max - 1 |-> EmptySlot]
  /\ queue_beg = 0 /\ queue_end = 0 /\ queue_cnt = 0
  /\ pc = [t \in Threads |-> "main"]
  /\ request = [t \in Threads |-> FinalNop]
  /\ sent = [t \in Threads |-> <<>>]
  /\ icw = "ready"
  /\ pair = EmptySlot
  /\ tree = [h \in ItemIDs |-> <<>>]
  /\ next_ID = 0
  /\ cobj = [t \in Threads |-> <<>>]
  /\ incomplete = {}
  /\ freeing = FALSE

-----------------------------------------------------------------------------
(* The evaluation threads.                                                 *)

Goto(t, from, to) == pc[t] = from /\ pc' = [pc EXCEPT ![t] = to]

\* probe_item_collect: memory is fine and no filter drops the item, so it
\* goes to probe_icache_add.
CollectItem(t, c) ==
  /\ Goto(t, "main", "lock")
  /\ Len(sent[t]) < MaxItems
  /\ request' = [request EXCEPT ![t] = ItemRequest(c)]
  /\ UNCHANGED <<queue_mutex, queueVars, sent, icw, workerVars, incomplete,
                 freeing>>

\* probe_item_collect: the object is large and memory is low.  Only the
\* first time does it wait for the icache and change the object; later it
\* just returns 2.
MemoryLow(t) ==
  /\ Goto(t, "main", "lock")
  /\ Len(cobj[t]) > MemThreshold
  /\ t \notin incomplete
  /\ request' = [request EXCEPT ![t] = MemcheckNop]
  /\ UNCHANGED <<queue_mutex, queueVars, sent, icw, workerVars, incomplete,
                 freeing>>

\* probe_main returned to probe_worker, which synchronises.
MainReturns(t) ==
  /\ Goto(t, "main", "lock")
  /\ request' = [request EXCEPT ![t] = FinalNop]
  /\ UNCHANGED <<queue_mutex, queueVars, sent, icw, workerVars, incomplete,
                 freeing>>

\* Variant: a caller that goes on without the mutex.
Lock_NoMutex(t) ==
  /\ \/ Goto(t, "lock", "put")
     \/ Goto(t, "refill", "put")
  /\ UNCHANGED <<queue_mutex, queueVars, request, sent, icw, workerVars,
                 incomplete, freeing>>

\* pthread_mutex_lock in probe_icache_add and probe_icache_nop, and the
\* return from pthread_cond_wait(&queue_notfull) to the retry label.
Lock(t) ==
  /\ \/ Goto(t, "lock", "put")
     \/ Goto(t, "refill", "put")
  /\ queue_mutex = NoOne
  /\ queue_mutex' = t
  /\ UNCHANGED <<queueVars, request, sent, icw, workerVars, incomplete,
                 freeing>>

\* __probe_icache_add_nolock: there is room, fill the slot and count it.
NewSlot(t) == IF IsItem(request[t]) THEN ItemSlot(t, Len(sent[t]) + 1)
                                    ELSE NopSlot(t)

\* Variant: off by one.
HasRoom_OneMore == queue_cnt <= queue_max

HasRoom == queue_cnt < queue_max

Put(t) ==
  /\ Goto(t, "put", "end")
  /\ HasRoom
  /\ queue' = [queue EXCEPT ![queue_end] = NewSlot(t)]
  /\ queue_cnt' = queue_cnt + 1
  /\ sent' = [sent EXCEPT ![t] = IF IsItem(request[t])
                                   THEN Append(@, request[t].content)
                                   ELSE @]
  /\ UNCHANGED <<queue_mutex, queue_beg, queue_end, request, icw, workerVars,
                 incomplete, freeing>>

\* ... and advance queue_end past it.
PutEnd(t) ==
  /\ Goto(t, "end", "unlock")
  /\ queue_end' = Advance(queue_end)
  /\ UNCHANGED <<queue_mutex, queue, queue_beg, queue_cnt, request, sent, icw,
                 workerVars, incomplete, freeing>>

\* __probe_icache_add_nolock: no room, pthread_cond_wait(&queue_notfull).
WaitNotFull(t) ==
  /\ Goto(t, "put", "full")
  /\ ~HasRoom
  /\ queue_mutex' = NoOne
  /\ UNCHANGED <<queueVars, request, sent, icw, workerVars, incomplete,
                 freeing>>

\* probe_icache_add gives the mutex back ...
AddUnlock(t) ==
  /\ Goto(t, "unlock", "signal")
  /\ IsItem(request[t])
  /\ queue_mutex' = NoOne
  /\ UNCHANGED <<queueVars, request, sent, icw, workerVars, incomplete,
                 freeing>>

\* ... and only then signals notempty.
AddSignal(t) ==
  /\ Goto(t, "signal", "main")
  /\ WakeWorker
  /\ UNCHANGED <<queue_mutex, queueVars, request, sent, workerVars,
                 incomplete, freeing>>

\* Variant: probe_icache_nop does not wait for its condition.
NopWait_NoWait(t) ==
  /\ Goto(t, "unlock", "synced")
  /\ ~IsItem(request[t])
  /\ WakeWorker
  /\ queue_mutex' = NoOne
  /\ UNCHANGED <<queueVars, request, sent, workerVars, incomplete, freeing>>

\* probe_icache_nop signals notempty with the mutex held and waits on the
\* condition it put into the queue, which gives the mutex back.
NopWait(t) ==
  /\ Goto(t, "unlock", "sync")
  /\ ~IsItem(request[t])
  /\ WakeWorker
  /\ queue_mutex' = NoOne
  /\ UNCHANGED <<queueVars, request, sent, workerVars, incomplete, freeing>>

\* The NOP was handled: pthread_cond_wait takes the mutex, probe_icache_nop
\* gives it back and returns to its caller, which now owns the object.
AfterNop(t) == IF request[t].kind = "memcheck" THEN "flag" ELSE "done"

NopReturn(t) ==
  /\ Goto(t, "synced", AfterNop(t))
  /\ queue_mutex = NoOne
  /\ UNCHANGED <<queue_mutex, queueVars, request, sent, icw, workerVars,
                 incomplete, freeing>>

\* probe_item_collect flags the object and adds a message to it.
FlagIncomplete(t) ==
  /\ Goto(t, "flag", "main")
  /\ incomplete' = incomplete \cup {t}
  /\ UNCHANGED <<queue_mutex, queueVars, request, sent, icw, workerVars,
                 freeing>>

-----------------------------------------------------------------------------
(* Cancellation by the signal handler.  In probe_main the cancel type is   *)
(* asynchronous; the final NOP runs with deferred cancellation, which only *)
(* acts in pthread_cond_wait.  Nothing gives a held mutex back.            *)

InCondWait(t) == pc[t] \in {"full", "refill", "sync", "synced"}

AsyncRegion(t) ==
  \/ pc[t] \in {"main", "flag"}
  \/ pc[t] \in {"lock", "put", "end", "unlock", "signal"} /\ request[t] # FinalNop

CancelAsync(t) ==
  /\ CancelOn
  /\ AsyncRegion(t)
  /\ pc' = [pc EXCEPT ![t] = "dead"]
  /\ UNCHANGED <<queue_mutex, queueVars, request, sent, icw, workerVars,
                 incomplete, freeing>>

\* A cancelled pthread_cond_wait takes the mutex again before the thread
\* ends, and there is no cleanup handler to unlock it.
CancelWaiting(t) ==
  /\ CancelOn
  /\ InCondWait(t)
  /\ queue_mutex = NoOne
  /\ queue_mutex' = t
  /\ pc' = [pc EXCEPT ![t] = "dead"]
  /\ UNCHANGED <<queueVars, request, sent, icw, workerVars, incomplete,
                 freeing>>

-----------------------------------------------------------------------------
(* The icache worker, probe_icache_worker.                                 *)

\* First pthread_cond_wait(&queue_notempty), after the start barrier.
WorkerReady ==
  /\ icw = "ready"
  /\ icw' = "wait"
  /\ queue_mutex' = NoOne
  /\ UNCHANGED <<queueVars, pc, request, sent, workerVars, incomplete,
                 freeing>>

\* pthread_cond_wait returns with the mutex: the queue must not be empty
\* now.  If it is, assume_d aborts the process; a build with NDEBUG wraps
\* queue_cnt and reads a dead slot.  Either way the model ends there.
WorkerWake ==
  /\ icw = "woken"
  /\ queue_mutex = NoOne
  /\ queue_mutex' = ICacheThread
  /\ icw' = IF queue_cnt > 0 THEN "extract" ELSE "failed"
  /\ UNCHANGED <<queueVars, pc, request, sent, workerVars, incomplete,
                 freeing>>

\* Take the oldest request out, clear its slot, release the mutex.
WorkerExtract ==
  /\ icw = "extract"
  /\ icw' = "notfull"
  /\ pair' = queue[queue_beg]
  /\ queue' = [queue EXCEPT ![queue_beg] = EmptySlot]
  /\ queue_cnt' = queue_cnt - 1
  /\ queue_beg' = Advance(queue_beg)
  /\ queue_mutex' = NoOne
  /\ UNCHANGED <<queue_end, pc, request, sent, tree, next_ID, cobj,
                 incomplete, freeing>>

WorkerSignalNotFull ==
  /\ icw = "notfull"
  /\ icw' = "handle"
  /\ WakeOneNotFull
  /\ UNCHANGED <<queue_mutex, queueVars, request, sent, workerVars,
                 incomplete, freeing>>

\* A NOP: signal the condition of the thread that waits for it.
WorkerHandleNop ==
  /\ icw = "handle"
  /\ pair.cobj = NoOne
  /\ icw' = "relock"
  /\ SignalNop(pair.cond)
  /\ UNCHANGED <<queue_mutex, queueVars, request, sent, workerVars,
                 incomplete, freeing>>

\* An item: an equal item that is cached already replaces it, otherwise it
\* gets the next unique id and is cached.  The object gets the cached one.
Cached_Never(c) == {}                            \* variant: never a hit
Cached_SameHash(c) == DOMAIN tree[SEXP_ID_v[c]]  \* variant: no deepcmp

Cached(c) == {i \in DOMAIN tree[SEXP_ID_v[c]] :
                 tree[SEXP_ID_v[c]][i].content = c}

WorkerHandleItem ==
  /\ icw = "handle"
  /\ pair.cobj # NoOne
  /\ icw' = "relock"
  /\ LET c == sent[pair.cobj][pair.item]
         h == SEXP_ID_v[c]
         fresh == [content |-> c, id |-> next_ID]
     IN \/ /\ Cached(c) = {}
           /\ tree' = [tree EXCEPT ![h] = Append(@, fresh)]
           /\ next_ID' = next_ID + 1
           /\ cobj' = [cobj EXCEPT ![pair.cobj] = Append(@, fresh)]
        \/ \E i \in Cached(c) :
              /\ \A j \in Cached(c) : i <= j
              /\ cobj' = [cobj EXCEPT ![pair.cobj] = Append(@, tree[h][i])]
              /\ UNCHANGED <<tree, next_ID>>
  /\ UNCHANGED <<queue_mutex, queueVars, pc, request, sent, pair, incomplete,
                 freeing>>

\* Take the mutex again; go on with the next request or wait for one.
WorkerRelock ==
  /\ icw = "relock"
  /\ queue_mutex = NoOne
  /\ IF queue_cnt > 0
     THEN icw' = "extract" /\ queue_mutex' = ICacheThread
     ELSE icw' = "wait" /\ UNCHANGED queue_mutex
  /\ UNCHANGED <<queueVars, pc, request, sent, workerVars, incomplete,
                 freeing>>

-----------------------------------------------------------------------------
(* The end of the cache: main calls probe_icache_free when the signal      *)
(* handler is done with the evaluation threads.                            *)

Ended(t) == pc[t] \in {"done", "dead"}

Free ==
  /\ \A t \in Threads : Ended(t)
  /\ ~freeing
  /\ freeing' = TRUE
  /\ UNCHANGED <<queue_mutex, queueVars, pc, request, sent, icw, workerVars,
                 incomplete>>

\* Variant: a flag instead of pthread_cancel, read only after a wake-up.
WorkerExit_Flag ==
  /\ freeing
  /\ icw = "woken"
  /\ queue_mutex = NoOne
  /\ queue_mutex' = ICacheThread
  /\ icw' = "exited"
  /\ UNCHANGED <<queueVars, pc, request, sent, workerVars, incomplete,
                 freeing>>

\* pthread_cancel acts in pthread_cond_wait, which takes the mutex first;
\* probe_icache_free joins the thread and frees the cache.
WorkerExit ==
  /\ freeing
  /\ icw \in {"wait", "woken"}
  /\ queue_mutex = NoOne
  /\ queue_mutex' = ICacheThread
  /\ icw' = "exited"
  /\ UNCHANGED <<queueVars, pc, request, sent, workerVars, incomplete,
                 freeing>>

-----------------------------------------------------------------------------
ThreadStep(t) ==
  \/ \E c \in Contents : CollectItem(t, c)
  \/ MemoryLow(t)
  \/ MainReturns(t)
  \/ Lock(t)
  \/ Put(t)
  \/ PutEnd(t)
  \/ WaitNotFull(t)
  \/ AddUnlock(t)
  \/ AddSignal(t)
  \/ NopWait(t)
  \/ NopReturn(t)
  \/ FlagIncomplete(t)

Cancel(t) == CancelAsync(t) \/ CancelWaiting(t)

WorkerStep ==
  \/ WorkerReady
  \/ WorkerWake
  \/ WorkerExtract
  \/ WorkerSignalNotFull
  \/ WorkerHandleNop
  \/ WorkerHandleItem
  \/ WorkerRelock
  \/ WorkerExit

\* Nothing is modelled after the failed assumption.
Running == icw # "failed"

Next == /\ Running
        /\ \/ \E t \in Threads : ThreadStep(t) \/ Cancel(t)
           \/ WorkerStep
           \/ Free

Spec == Init /\ [][Next]_vars

\* Every thread that can go on eventually does.  probe_main is not obliged
\* to collect anything or to return, the signal handler to cancel, memory to
\* run low, and no lock is granted in any order.
FairSpec ==
  /\ Spec
  /\ \A t \in Threads :
        WF_vars(/\ Running
                /\ \/ Lock(t) \/ Put(t) \/ PutEnd(t) \/ WaitNotFull(t)
                   \/ AddUnlock(t) \/ AddSignal(t) \/ NopWait(t)
                   \/ NopReturn(t) \/ FlagIncomplete(t))
  /\ WF_vars(Running /\ WorkerStep)

-----------------------------------------------------------------------------
PCs == {"main", "lock", "put", "end", "unlock", "signal", "full", "refill",
        "sync", "synced", "flag", "done", "dead"}

ICWs == {"ready", "wait", "woken", "extract", "notfull", "handle", "relock",
         "failed", "exited"}

Requests == [kind : {"item"}, content : Contents]
              \cup {MemcheckNop, FinalNop}

Items == [content : Contents, id : Nat]

\* The type of the state, with the ranges of the ring indices.
TypeOK ==
  /\ queue_mutex \in Threads \cup {ICacheThread, NoOne}
  /\ queue \in [0 .. queue_max - 1 -> Slots]
  /\ queue_beg \in 0 .. queue_max - 1
  /\ queue_end \in 0 .. queue_max - 1
  /\ queue_cnt \in 0 .. queue_max
  /\ pc \in [Threads -> PCs]
  /\ request \in [Threads -> Requests]
  /\ sent \in [Threads -> Seq(Contents)]
  /\ icw \in ICWs
  /\ pair \in Slots
  /\ tree \in [ItemIDs -> Seq(Items)]
  /\ next_ID \in Nat
  /\ cobj \in [Threads -> Seq(Items)]
  /\ incomplete \subseteq Threads
  /\ freeing \in BOOLEAN

\* The i-th oldest pending request of the ring and its slot.
Position(i) == IF queue_beg + i < queue_max THEN queue_beg + i
                                            ELSE queue_beg + i - queue_max
Pending(i) == queue[Position(i)]

\* Whoever finds the mutex free finds a ring whose three counters agree and
\* whose pending slots are filled (the assumption on queue_end and queue_beg
\* in probe_icache_worker), whatever thread was cancelled.
RingConsistent ==
  queue_mutex = NoOne =>
     /\ queue_end = Position(queue_cnt)
     /\ \A i \in 0 .. queue_cnt - 1 : Pending(i) # EmptySlot

\* Only the thread that holds the mutex is between taking and releasing it.
MutexExclusion ==
  /\ \A t \in Threads :
        pc[t] \in {"put", "end", "unlock"} => queue_mutex = t
  /\ icw \in {"ready", "extract"} => queue_mutex = ICacheThread

\* Between extracting a request and having handled it the worker holds it.
InHand == icw \in {"notfull", "handle"}

\* The items and the NOPs of t that the cache still has to handle; -1
\* stands for the worker's hand among the positions in the ring.
PendingItems(t) ==
  {Pending(i).item : i \in {j \in 0 .. queue_cnt - 1 : Pending(j).cobj = t}}
    \cup {n \in {pair.item} : InHand /\ pair.cobj = t}

PendingNops(t) ==
  {i \in 0 .. queue_cnt - 1 : Pending(i).cond = t}
    \cup {i \in {-1} : InHand /\ pair.cond = t}

\* "Sync with the icache thread before modifying the collected object": a
\* thread that came back from probe_icache_nop shares its object with nobody
\* and finds every item in it, in the order it collected them.
SyncOwnsObject ==
  \A t \in Threads : pc[t] \in {"flag", "done"} =>
     /\ PendingItems(t) = {}
     /\ Len(cobj[t]) = Len(sent[t])
     /\ \A n \in DOMAIN sent[t] : cobj[t][n].content = sent[t][n]

\* No item is lost, handled twice or overtaken on its way through the ring:
\* the items in the object and the pending ones are those sent.
EachItemOnce ==
  \A t \in Threads :
     PendingItems(t) = Len(cobj[t]) + 1 .. Len(sent[t])

\* An item id stands for one content, and a content for one id, across the
\* objects of all threads, also when two contents share a hash.
UniqueIDs ==
  \A t, u \in Threads : \A i \in DOMAIN cobj[t], j \in DOMAIN cobj[u] :
     cobj[t][i].id = cobj[u][j].id <=> cobj[t][i].content = cobj[u][j].content

\* A thread blocked in probe_icache_nop has its NOP in the queue or in the
\* worker's hands: pthread_cond_wait without a loop cannot miss the signal.
NopNotForgotten ==
  \A t \in Threads : pc[t] = "sync" => PendingNops(t) # {}

\* The worker never sleeps on a filled queue unless somebody is about to
\* wake it; only a thread cancelled before its signal may leave it asleep.
NoLostWakeup ==
  icw = "wait" /\ queue_cnt > 0 =>
     \E t \in Threads : pc[t] \in {"end", "unlock", "signal", "dead"}

\* assume_d(cache->queue_cnt > 0) after pthread_cond_wait.
WokenForWork == icw # "failed"

-----------------------------------------------------------------------------
(* What the invariants above rest on, for the proofs in ICacheProofs.      *)

\* Every request in the ring or in the worker's hand is an item its thread
\* has sent or a NOP.
SlotOK(s) == \/ s.cobj \in Threads /\ s.cond = NoOne /\ s.item \in 1 .. Len(sent[s.cobj])
             \/ s.cobj = NoOne /\ s.cond \in Threads

ExtractsSomething == icw = "extract" => queue_cnt > 0

RingSlots ==
  /\ \A i \in 0 .. queue_cnt - 1 : SlotOK(Pending(i))
  /\ InHand => SlotOK(pair)

\* queue_end is where the pending requests end, except for the thread that
\* has filled a slot and not advanced it yet.
RingEnds ==
  /\ queue_mutex \in {NoOne, ICacheThread} => queue_end = Position(queue_cnt)
  /\ \A t \in Threads :
        /\ pc[t] \in {"put", "unlock"} => queue_end = Position(queue_cnt)
        /\ pc[t] = "end" => /\ queue_cnt > 0
                            /\ queue_end = Position(queue_cnt - 1)

RingInv == RingSlots /\ RingEnds

\* The items of one object wait in the order they were sent.
OrderInv ==
  /\ \A i, j \in 0 .. queue_cnt - 1 :
        i < j /\ Pending(i).cobj # NoOne /\ Pending(i).cobj = Pending(j).cobj
          => Pending(i).item < Pending(j).item
  /\ \A j \in 0 .. queue_cnt - 1 :
        InHand /\ pair.cobj # NoOne /\ pair.cobj = Pending(j).cobj
          => pair.item < Pending(j).item

InOrder == \A t \in Threads : \A n \in DOMAIN cobj[t] :
              /\ n <= Len(sent[t])
              /\ cobj[t][n].content = sent[t][n]

\* A NOP is the last thing its thread sent ...
NopLast ==
  /\ \A i, j \in 0 .. queue_cnt - 1 :
        Pending(i).cond # NoOne /\ i < j
           => /\ Pending(j).cobj # Pending(i).cond
              /\ Pending(j).cond # Pending(i).cond
  /\ \A j \in 0 .. queue_cnt - 1 :
        InHand /\ pair.cond # NoOne
           => /\ Pending(j).cobj # pair.cond
              /\ Pending(j).cond # pair.cond

\* ... the thread waits for it, or still holds the mutex after putting it in
\* the queue ...
Putting(t) == pc[t] \in {"end", "unlock"} /\ ~IsItem(request[t])
Waiting(t) == pc[t] \in {"sync", "dead"}

NopWaits ==
  /\ \A i \in 0 .. queue_cnt - 1 : \A t \in Threads :
        Pending(i).cond = t => Putting(t) \/ Waiting(t)
  /\ \A t \in Threads : InHand /\ pair.cond = t => Waiting(t)

\* ... and as long as it waits the NOP is there.
NopPending ==
  \A t \in Threads :
     Putting(t) \/ pc[t] = "sync" => PendingNops(t) # {}

\* A signalled NOP finds the object complete.
Synced(t) == pc[t] \in {"synced", "flag", "done"}
SyncedFull == \A t \in Threads : Synced(t) => Len(cobj[t]) = Len(sent[t])

\* The cached items: every bucket holds what hashes to it, no two cached
\* items agree in content or id, and objects hold cached items only.
TreeItems == UNION {{tree[h][i] : i \in DOMAIN tree[h]} : h \in ItemIDs}

IdInv ==
  /\ \A h \in ItemIDs : \A i \in DOMAIN tree[h] :
        SEXP_ID_v[tree[h][i].content] = h /\ tree[h][i].id < next_ID
  /\ \A x, y \in TreeItems : x.content = y.content \/ x.id = y.id => x = y
  /\ \A t \in Threads : \A n \in DOMAIN cobj[t] : cobj[t][n] \in TreeItems

IInv == /\ TypeOK
        /\ ExtractsSomething
        /\ MutexExclusion
        /\ RingInv
        /\ OrderInv
        /\ EachItemOnce
        /\ InOrder
        /\ NopLast
        /\ NopWaits
        /\ NopPending
        /\ SyncedFull
        /\ IdInv

-----------------------------------------------------------------------------
(* The promise of the cache to the threads.                                *)

Spec_Items == INSTANCE ItemCollection WITH
  collected <- cobj,
  known <- TreeItems,
  synced <- {t \in Threads : pc[t] \in {"flag", "done"}}

\* The ring, the hash tree and the NOPs implement ItemCollection.
ImplementsItemCollection == Spec_Items!Spec

-----------------------------------------------------------------------------
(* Progress, as long as the worker's assumption did not fail.              *)

\* Every item accepted by probe_icache_add reaches its object.
ItemsArrive ==
  \A t \in Threads : \A n \in 1 .. MaxItems :
     Len(sent[t]) >= n ~> Len(cobj[t]) >= n \/ ~Running

\* probe_icache_add and probe_icache_nop return: no thread waits for room,
\* for the mutex or for its NOP forever.
CallsReturn ==
  \A t \in Threads :
     pc[t] = "lock" ~> pc[t] \in {"main", "done"} \/ ~Running

\* probe_icache_free returns: the worker reaches a cancellation point.
FreeReturns == freeing ~> icw = "exited"
=============================================================================
