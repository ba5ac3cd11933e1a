------------------------------- MODULE Probe -------------------------------
(***************************************************************************)
(* The life of a probe process: the input thread, a worker thread per     *)
(* request, the signal handler and the main thread, the tree of running   *)
(* workers they share, and the commands workers send to the library.      *)
(* From main.c, input_handler.c, signal_handler.c, worker.c of            *)
(* OVAL/probes/probe and from seap.c, seap-command.c below them.          *)
(*                                                                         *)
(* Memory the code may touch after it was freed, or before it was set, is *)
(* recorded in bad; from then on the process may also crash at any time.  *)
(***************************************************************************)
EXTENDS Naturals, Sequences, FiniteSets

CONSTANTS Requests,     \* messages the library sends, each with its own id
          Objects,      \* OVAL objects
          ObjectOf,     \* the object a request is about
          Sets,         \* requests for set objects, evaluated by commands
          Filtered,     \* requests for simple objects with a filter
          Skipped,      \* requests with the attribute skip_eval
          MaxResets,    \* bound on reset commands
          SpawnMayFail  \* whether pthread_create may fail, once and not
                        \* together with a reset: a bound on mishaps

ASSUME ProbeAssumption ==
    /\ ObjectOf \in [Requests -> Objects]
    /\ Sets \subseteq Requests /\ Filtered \subseteq Requests
    /\ Skipped \subseteq Requests
    /\ Sets \cap Filtered = {}
    /\ MaxResets \in Nat /\ SpawnMayFail \in BOOLEAN
    /\ {"none", "input"} \cap Requests = {}

VARIABLES
    calls,      \* the library's open calls, a stack (ProbeComm has it in full)
    serving,    \* the library executes a command of the last of them
    alive,      \* "open", "closing" (the library stops the probe) or "gone"
    down, up,   \* the two directions of the pipe
    input, msg, \* input thread: its place and the request it has in hand
    inputCancel,    \* it has a pending cancellation
    tree,       \* probe->workers
    rec,        \* worker record and its message: "none", "live", "freed"
    pc,         \* place of the worker thread of a request
    cancelled,  \* threads with a pending cancellation
    waitq,      \* commands registered in cmd_w_table, by the thread's request
    hmtx,       \* helper mutex: "none", "worker", "input"
    wlock,      \* holder of the descriptor's w_lock
    known,      \* result cache
    ncache,     \* the global name cache pointer: "live" or "dangling"
    orphan,     \* the item cache's mutex is held by a thread that is gone
    pending,    \* a signal is pending or was taken
    handler,    \* place of the signal handler
    walk, coll, \* tree nodes it has yet to visit, threads it has collected
    exit,       \* how the process ended, "no" while it runs
    answers,    \* answers sent per request
    resets, spawnFailed, bad

libVars == <<calls, serving, alive, down, up>>
memVars == <<known, ncache, orphan>>
ghosts  == <<resets, spawnFailed>>
inpVars == <<input, msg, inputCancel>>
sigVars == <<pending, handler, walk, coll>>
vars == <<calls, serving, alive, down, up, input, msg, inputCancel, tree, rec,
          pc, cancelled, waitq, hmtx, wlock, known, ncache, orphan, pending,
          handler, walk, coll, exit, answers, resets, spawnFailed, bad>>

Running == exit = "no"
\* Threads that exist and still run the code of probe_worker_runfn.
Finished == {"none", "dead", "joined", "ended"}
Working(r) == pc[r] \notin Finished
\* What a worker has left to do with memory the process shares.
UsesCaches(r) == Working(r) /\ pc[r] # "free"

Init ==
    /\ calls = <<>> /\ serving = FALSE /\ alive = "open"
    /\ down = <<>> /\ up = <<>>
    /\ input = "recv" /\ msg = "none" /\ inputCancel = FALSE
    /\ tree = {} /\ rec = [r \in Requests |-> "none"]
    /\ pc = [r \in Requests |-> "none"]
    /\ cancelled = {} /\ waitq = {}
    /\ hmtx = [r \in Requests |-> "none"] /\ wlock = "none"
    /\ known = {} /\ ncache = "live" /\ orphan = FALSE
    /\ pending = FALSE /\ handler = "wait" /\ walk = {} /\ coll = <<>>
    /\ exit = "no" /\ answers = [r \in Requests |-> 0]
    /\ resets = 0 /\ spawnFailed = FALSE /\ bad = {}

-----------------------------------------------------------------------------
(* The library, as far as a probe sees it: one thread, so a new request    *)
(* goes out when no call is open or while a command of the last open call  *)
(* is served; and an object is not asked for while it is being evaluated.  *)

LibVarsRest == <<inpVars, tree, rec, pc, cancelled, waitq, hmtx, wlock, memVars,
                 exit, answers, spawnFailed, bad>>

Top == calls[Len(calls)]

UnderEvaluation == {ObjectOf[calls[k]] : k \in
                        {k \in DOMAIN calls : calls[k] # "none"}}

LibAsk(r) ==
    /\ alive = "open"
    /\ calls = <<>> \/ serving
    /\ rec[r] = "none" /\ answers[r] = 0
    /\ ObjectOf[r] \notin UnderEvaluation
    /\ \A k \in DOMAIN calls : calls[k] # r
    /\ calls' = Append(calls, r) /\ serving' = FALSE
    /\ down' = Append(down, [t |-> "msg", r |-> r])
    /\ UNCHANGED <<alive, up, sigVars, resets, LibVarsRest>>

\* A reset of the session, a synchronous command without arguments.
LibReset ==
    /\ alive = "open" /\ calls = <<>> /\ resets < MaxResets /\ ~spawnFailed
    /\ calls' = <<"none">>
    /\ down' = Append(down, [t |-> "reset", r |-> "none"])
    /\ resets' = resets + 1
    /\ UNCHANGED <<serving, alive, up, sigVars, LibVarsRest>>

\* The library reads a command, or an answer, which ends its call: it is back
\* in the command that made it, if one did.
LibRead ==
    /\ alive = "open" /\ up # <<>> /\ calls # <<>> /\ ~serving
    /\ up' = Tail(up)
    /\ IF Head(up).t = "cmd"
       THEN serving' = TRUE /\ UNCHANGED calls
       ELSE /\ calls' = SubSeq(calls, 1, Len(calls) - 1)
            /\ serving' = (Len(calls) > 1)
    /\ UNCHANGED <<alive, down, sigVars, resets, LibVarsRest>>

LibReply ==
    /\ alive = "open" /\ serving
    /\ serving' = FALSE
    /\ down' = Append(down, [t |-> "reply", r |-> Top])
    /\ UNCHANGED <<calls, alive, up, sigVars, resets, LibVarsRest>>

SignalRest == <<calls, serving, down, up, handler, walk, coll, resets,
                LibVarsRest>>

\* Between queries the library closes the probe: SIGTERM, then it waits.
LibClose ==
    /\ alive = "open" /\ calls = <<>> /\ ~pending
    /\ alive' = "closing" /\ pending' = TRUE
    /\ UNCHANGED SignalRest

\* The library ends, the kernel sends the signal of PR_SET_PDEATHSIG.
LibDies ==
    /\ alive = "open"
    /\ alive' = "gone" /\ pending' = TRUE
    /\ UNCHANGED SignalRest

\* oval_probe_session_abort or a user sends a signal, at any time.
Abort ==
    /\ alive = "open" /\ ~pending
    /\ pending' = TRUE
    /\ UNCHANGED <<SignalRest, alive>>

Library == \/ \E r \in Requests : LibAsk(r)
           \/ LibReset \/ LibRead \/ LibReply \/ LibClose \/ LibDies \/ Abort

-----------------------------------------------------------------------------
(* The input thread. It can be cancelled in SEAP_recvmsg only.             *)

\* SEAP_recvmsg returns a request or processes a command; the reply to a
\* worker's command is handed over in InputWake.
InputRecv ==
    /\ input = "recv" /\ down # <<>> /\ Head(down).t # "reset"
    /\ down' = Tail(down)
    /\ LET m == Head(down) IN
         /\ input' = IF m.t = "msg" THEN "handle"
                     ELSE IF m.r \in waitq THEN "wake" ELSE "recv"
         /\ msg' = m.r
    /\ UNCHANGED <<calls, serving, alive, up, inputCancel, tree, rec, pc, cancelled, waitq, hmtx,
                   wlock, memVars, sigVars, exit, answers, ghosts, bad>>

\* probe_reset, and the reply to the command.
InputReset ==
    /\ input = "recv" /\ down # <<>> /\ Head(down).t = "reset"
    /\ wlock = "none"
    /\ down' = Tail(down)
    /\ known' = {}
    /\ ncache' = "dangling"
    /\ up' = Append(up, [t |-> "done", r |-> "none"])
    /\ bad' = bad \union (IF \E r \in Requests : UsesCaches(r)
                          THEN {"caches"} ELSE {})
    /\ UNCHANGED <<calls, serving, alive, inpVars, tree, rec, pc, cancelled,
                   waitq, hmtx, wlock, orphan, sigVars, exit, answers, ghosts>>

\* A variant that signals without the mutex.
InputWake_Unlocked ==
    /\ input = "wake"
    /\ LET r == msg IN
         /\ bad' = bad \union (IF Working(r) THEN {} ELSE {"helper"})
         /\ pc' = [pc EXCEPT ![r] = IF @ = "wait" THEN "woken" ELSE @]
         /\ input' = "unregister"
    /\ UNCHANGED <<libVars, msg, inputCancel, tree, rec, cancelled, waitq, hmtx, wlock, memVars,
                   sigVars, exit, answers, ghosts>>

\* __SEAP_cmd_sync_handler: store the answer, lock, signal, unlock. The helper
\* is a variable of the waiting thread, which may go on at once.
InputWake ==
    /\ input = "wake"
    /\ LET r == msg IN
         /\ hmtx[r] = "none" \/ ~Working(r)
         /\ bad' = bad \union (IF Working(r) THEN {} ELSE {"helper"})
         /\ pc' = [pc EXCEPT ![r] = IF @ = "wait" THEN "woken" ELSE @]
         /\ input' = "unregister"
    /\ UNCHANGED <<libVars, msg, inputCancel, tree, rec, cancelled, waitq, hmtx, wlock, memVars,
                   sigVars, exit, answers, ghosts>>

\* SEAP_cmd_exec goes on: the command leaves the table. Its record is on the
\* heap; the helper it points to may be gone by now and is not looked at.
InputUnregister ==
    /\ input = "unregister"
    /\ waitq' = waitq \ {msg}
    /\ input' = "recv"
    /\ UNCHANGED <<libVars, msg, inputCancel, tree, rec, pc, cancelled, hmtx, wlock, memVars,
                   sigVars, exit, answers, ghosts, bad>>

\* A request: from the cache, skipped, or for a new worker, which is in the
\* tree before its thread exists. Message ids are unique, so the tree has
\* no entry for it. A tree that changes under the signal handler's walk:
WalkRace == IF handler = "walk" THEN {"tree"} ELSE {}

\* A variant that does not look into the result cache.
InputHandle_NoLookup ==
    /\ input = "handle"
    /\ LET r == msg IN
         IF r \in Skipped
         THEN /\ known' = known \union {ObjectOf[r]}
              /\ input' = "answer"
              /\ UNCHANGED <<tree, rec, bad>>
         ELSE /\ rec' = [rec EXCEPT ![r] = "live"]
              /\ tree' = tree \union {r}
              /\ bad' = bad \union WalkRace
              /\ input' = "spawn"
              /\ UNCHANGED known
    /\ UNCHANGED <<libVars, msg, inputCancel, pc, cancelled, waitq, hmtx, wlock,
                   ncache, orphan, sigVars, exit, answers, ghosts>>

InputHandle ==
    /\ input = "handle"
    /\ LET r == msg IN
         IF ObjectOf[r] \in known \/ r \in Skipped
         THEN /\ known' = known \union {ObjectOf[r]}
              /\ input' = "answer"
              /\ UNCHANGED <<tree, rec, bad>>
         ELSE /\ rec' = [rec EXCEPT ![r] = "live"]
              /\ tree' = tree \union {r}
              /\ bad' = bad \union WalkRace
              /\ input' = "spawn"
              /\ UNCHANGED known
    /\ UNCHANGED <<libVars, msg, inputCancel, pc, cancelled, waitq, hmtx, wlock,
                   ncache, orphan, sigVars, exit, answers, ghosts>>

InputSpawn ==
    /\ input = "spawn"
    /\ pc' = [pc EXCEPT ![msg] = "start"]
    /\ input' = "recv" /\ msg' = "none"
    /\ UNCHANGED <<libVars, inputCancel, tree, rec, cancelled, waitq, hmtx, wlock, memVars, sigVars, exit, answers, ghosts, bad>>

\* A variant that leaves the entry in the tree.
InputSpawnFails_Entry ==
    /\ input = "spawn" /\ SpawnMayFail /\ ~spawnFailed /\ resets = 0
    /\ spawnFailed' = TRUE
    /\ tree' = tree
    /\ rec' = [rec EXCEPT ![msg] = "freed"]
    /\ bad' = bad \union WalkRace \union {"message"}
    /\ input' = "answer"
    /\ UNCHANGED <<libVars, msg, inputCancel, pc, cancelled, waitq, hmtx, wlock,
                   memVars, sigVars, exit, answers, resets>>

\* pthread_create fails: the worker and the message are freed, the error
\* reply uses the message again.
InputSpawnFails ==
    /\ input = "spawn" /\ SpawnMayFail /\ ~spawnFailed /\ resets = 0
    /\ spawnFailed' = TRUE
    /\ tree' = tree \ {msg}
    /\ rec' = [rec EXCEPT ![msg] = "freed"]
    /\ bad' = bad \union WalkRace \union {"message"}
    /\ input' = "answer"
    /\ UNCHANGED <<libVars, msg, inputCancel, pc, cancelled, waitq, hmtx, wlock,
                   memVars, sigVars, exit, answers, resets>>

\* The reply from the cache or of an error; the loop ends if it cannot go.
InputAnswer ==
    /\ input = "answer" /\ wlock = "none"
    /\ IF alive = "gone"
       THEN input' = "over" /\ UNCHANGED <<msg, up, answers>>
       ELSE /\ input' = "recv" /\ msg' = "none"
            /\ up' = Append(up, [t |-> "answer", r |-> msg])
            /\ answers' = [answers EXCEPT ![msg] = @ + 1]
    /\ UNCHANGED <<calls, serving, alive, down, inputCancel, tree, rec, pc,
                   cancelled, waitq, hmtx, wlock, memVars, sigVars, exit,
                   ghosts, bad>>

\* End of file, or the cancellation.
InputEnds ==
    /\ input = "recv"
    /\ \/ alive = "gone" /\ down = <<>>
       \/ inputCancel
    /\ input' = "over"
    /\ UNCHANGED <<libVars, msg, inputCancel, tree, rec, pc, cancelled, waitq, hmtx, wlock,
                   memVars, sigVars, exit, answers, ghosts, bad>>

InputThread == \/ InputRecv \/ InputReset \/ InputWake \/ InputUnregister
               \/ InputHandle \/ InputSpawn \/ InputAnswer \/ InputEnds

-----------------------------------------------------------------------------
(* Worker threads: evaluate, leave the tree, cache, reply, free, detach.   *)

InputRest == <<calls, serving, alive, down, inpVars, sigVars, ghosts>>

Step(r, from, to) == pc[r] = from /\ pc' = [pc EXCEPT ![r] = to]

\* Set objects and filters need the library: SEAP_cmd_exec locks its helper,
\* registers it and sends.
Start(r) ==
    /\ pc[r] = "start"
    /\ IF r \in Sets \union Filtered
       THEN /\ hmtx' = [hmtx EXCEPT ![r] = "worker"]
            /\ waitq' = waitq \union {r}
            /\ pc' = [pc EXCEPT ![r] = "send"]
       ELSE pc' = [pc EXCEPT ![r] = "main"] /\ UNCHANGED <<hmtx, waitq>>
    /\ UNCHANGED <<InputRest, up, tree, rec, cancelled, wlock, memVars, exit,
                   answers, bad>>

\* SEAP_packet_send: the write lock, then the write, in which a thread can be
\* cancelled.
Lock(r) ==
    /\ wlock = "none"
    /\ Step(r, "send", "write") \/ Step(r, "reply", "rwrite")
    /\ wlock' = r
    /\ UNCHANGED <<InputRest, up, tree, rec, cancelled, waitq, hmtx, memVars,
                   exit, answers, bad>>

\* A variant that leaves the command in the table when it cannot be sent.
SendCmd_Registered(r) ==
    /\ r \notin cancelled
    /\ wlock' = "none"
    /\ IF alive = "gone"
       THEN /\ Step(r, "write", IF r \in Sets THEN "done" ELSE "main")
            /\ UNCHANGED <<waitq, up>>
       ELSE /\ Step(r, "write", "sent")
            /\ up' = Append(up, [t |-> "cmd", r |-> r])
            /\ UNCHANGED waitq
    /\ UNCHANGED <<InputRest, tree, rec, cancelled, hmtx, memVars, exit,
                   answers, bad>>

\* Once the command is sent the thread waits, still holding the helper; if it
\* cannot be sent, it leaves the table and the evaluation has no answer.
SendCmd(r) ==
    /\ r \notin cancelled
    /\ wlock' = "none"
    /\ IF alive = "gone"
       THEN /\ Step(r, "write", IF r \in Sets THEN "done" ELSE "main")
            /\ waitq' = waitq \ {r}
            /\ UNCHANGED up
       ELSE /\ Step(r, "write", "sent")
            /\ up' = Append(up, [t |-> "cmd", r |-> r])
            /\ UNCHANGED waitq
    /\ UNCHANGED <<InputRest, tree, rec, cancelled, hmtx, memVars, exit,
                   answers, bad>>

\* pthread_cond_wait lets the mutex go, and takes it again when it returns.
Wait(r) ==
    /\ Step(r, "sent", "wait")
    /\ hmtx' = [hmtx EXCEPT ![r] = "none"]
    /\ UNCHANGED <<InputRest, up, tree, rec, cancelled, waitq, wlock, memVars,
                   exit, answers, bad>>

Woken(r) ==
    /\ r \notin cancelled
    /\ Step(r, "woken", IF r \in Sets THEN "done" ELSE "main")
    /\ UNCHANGED <<InputRest, up, tree, rec, cancelled, waitq, hmtx, wlock,
                   memVars, exit, answers, bad>>

\* Nobody has the item cache's mutex.
ItemCacheFree == ~orphan /\ \A r \in Requests : pc[r] # "put"

\* probe_main: makes items, with names from the name cache, and puts them
\* into the item cache (ICache has the details), then waits for its NOP.
MakeItem(r) ==
    /\ ItemCacheFree
    /\ Step(r, "main", "put")
    /\ bad' = bad \union (IF ncache = "live" THEN {} ELSE {"names"})
    /\ UNCHANGED <<InputRest, up, tree, rec, cancelled, waitq, hmtx, wlock,
                   memVars, exit, answers>>

PutItem(r) ==
    /\ Step(r, "put", "sync")
    /\ UNCHANGED <<InputRest, up, tree, rec, cancelled, waitq, hmtx, wlock,
                   memVars, exit, answers, bad>>

Synced(r) ==
    /\ ~orphan /\ r \notin cancelled
    /\ Step(r, "sync", "done")
    /\ UNCHANGED <<InputRest, up, tree, rec, cancelled, waitq, hmtx, wlock,
                   memVars, exit, answers, bad>>

\* A variant that forgets rbt_i32_del.
LeaveTree_Stays(r) ==
    /\ Step(r, "done", "cache")
    /\ tree' = tree
    /\ bad' = bad \union WalkRace
    /\ UNCHANGED <<InputRest, up, rec, cancelled, waitq, hmtx, wlock, memVars,
                   exit, answers>>

\* rbt_i32_del. The signal handler never removes an entry, so it is found.
LeaveTree(r) ==
    /\ Step(r, "done", "cache")
    /\ tree' = tree \ {r}
    /\ bad' = bad \union WalkRace
    /\ UNCHANGED <<InputRest, up, rec, cancelled, waitq, hmtx, wlock, memVars,
                   exit, answers>>

\* A variant that caches under the id of the message.
CacheResult_ById(r) ==
    /\ Step(r, "cache", "reply")
    /\ known' = known \union {r}
    /\ exit' = IF ObjectOf[r] \in known THEN "abort" ELSE exit
    /\ UNCHANGED <<InputRest, up, tree, rec, cancelled, waitq, hmtx, wlock,
                   ncache, orphan, answers, bad>>

\* Sort and add to the result cache; abort() if the object is in it.
CacheResult(r) ==
    /\ Step(r, "cache", "reply")
    /\ known' = known \union {ObjectOf[r]}
    /\ exit' = IF ObjectOf[r] \in known THEN "abort" ELSE exit
    /\ UNCHANGED <<InputRest, up, tree, rec, cancelled, waitq, hmtx, wlock,
                   ncache, orphan, answers, bad>>

\* A variant in which the write is no cancellation point.
Reply_Cancelled(r) ==
    /\ Step(r, "rwrite", "free")
    /\ wlock' = "none"
    /\ IF alive = "gone"
       THEN exit' = "error" /\ UNCHANGED <<up, answers>>
       ELSE /\ up' = Append(up, [t |-> "answer", r |-> r])
            /\ answers' = [answers EXCEPT ![r] = @ + 1]
            /\ UNCHANGED exit
    /\ UNCHANGED <<InputRest, tree, rec, cancelled, waitq, hmtx, memVars, bad>>

\* The reply, result or error; exit() if it cannot be sent.
Reply(r) ==
    /\ r \notin cancelled
    /\ Step(r, "rwrite", "free")
    /\ wlock' = "none"
    /\ IF alive = "gone"
       THEN exit' = "error" /\ UNCHANGED <<up, answers>>
       ELSE /\ up' = Append(up, [t |-> "answer", r |-> r])
            /\ answers' = [answers EXCEPT ![r] = @ + 1]
            /\ UNCHANGED exit
    /\ UNCHANGED <<InputRest, tree, rec, cancelled, waitq, hmtx, memVars, bad>>

\* Free message and record, detach, return.
FreeRecord(r) ==
    /\ Step(r, "free", "ended")
    /\ rec' = [rec EXCEPT ![r] = "freed"]
    /\ UNCHANGED <<InputRest, up, tree, cancelled, waitq, hmtx, wlock, memVars,
                   exit, answers, bad>>

\* A cancelled thread ends: anywhere in probe_main, else in a write or a
\* wait. It unlocks nothing; a wait takes its mutex first.
Die(r) ==
    /\ r \in cancelled
    /\ pc[r] \in {"main", "put", "sync", "write", "wait", "woken", "rwrite"}
    /\ pc[r] \in {"wait", "woken"} => hmtx[r] = "none"
    /\ pc[r] = "sync" => ItemCacheFree
    /\ pc' = [pc EXCEPT ![r] = "dead"]
    /\ hmtx' = [hmtx EXCEPT ![r] = IF pc[r] \in {"wait", "woken"}
                                   THEN "worker" ELSE @]
    /\ orphan' = (orphan \/ pc[r] \in {"put", "sync"})
    /\ UNCHANGED <<InputRest, up, tree, rec, cancelled, waitq, wlock, known,
                   ncache, exit, answers, bad>>

Worker(r) ==
    \/ Start(r) \/ Lock(r) \/ SendCmd(r) \/ Wait(r) \/ Woken(r)
    \/ MakeItem(r) \/ PutItem(r) \/ Synced(r)
    \/ LeaveTree(r) \/ CacheResult(r) \/ Reply(r) \/ FreeRecord(r) \/ Die(r)

-----------------------------------------------------------------------------
(* The signal handler: cancel the input thread, walk over the tree without *)
(* its lock and cancel the workers, wait for each, free its record.        *)

WorkRest == <<libVars, pending, tree, waitq, hmtx, wlock, memVars, answers, ghosts>>

Signal ==
    /\ handler = "wait" /\ pending
    /\ inputCancel' = TRUE
    /\ handler' = "walk" /\ walk' = tree
    /\ UNCHANGED <<WorkRest, input, msg, coll, rec, pc, cancelled, exit, bad>>

\* __abort_cb on a node of the tree as it was, or as it has become.
Visit(r) ==
    /\ handler = "walk"
    /\ r \in walk \union tree
    /\ \A k \in DOMAIN coll : coll[k] # r
    /\ cancelled' = IF Working(r) THEN cancelled \union {r} ELSE cancelled
    /\ walk' = walk \ {r} /\ coll' = Append(coll, r)
    /\ bad' = bad \union (IF pc[r] = "none" THEN {"tid"} ELSE {})
                  \union (IF rec[r] = "freed" THEN {"record"} ELSE {})
    /\ UNCHANGED <<WorkRest, inpVars, handler, rec, pc, exit>>

\* A variant that waits until the workers themselves have left the tree.
WalkEnds_Empty ==
    /\ handler = "walk" /\ tree = {}
    /\ handler' = "join"
    /\ UNCHANGED <<WorkRest, inpVars, walk, coll, rec, pc, cancelled, exit, bad>>

WalkEnds ==
    /\ handler = "walk" /\ walk \cap tree = {}
    /\ handler' = "join"
    /\ UNCHANGED <<WorkRest, inpVars, walk, coll, rec, pc, cancelled, exit, bad>>

\* pthread_timedjoin_np, from the last collected to the first.
LastCollected == coll[Len(coll)]
Dropped == SubSeq(coll, 1, Len(coll) - 1)

Join ==
    /\ handler = "join" /\ coll # <<>> /\ ~Working(LastCollected)
    /\ LET r == LastCollected IN
         /\ bad' = bad \union (IF rec[r] = "live" THEN {} ELSE {"record"})
         /\ rec' = [rec EXCEPT ![r] = "freed"]
         /\ pc' = [pc EXCEPT ![r] = "joined"]
    /\ coll' = Dropped
    /\ UNCHANGED <<WorkRest, inpVars, handler, walk, cancelled, exit>>

\* After 60 seconds the record is left alone.
JoinTimesOut ==
    /\ handler = "join" /\ coll # <<>> /\ Working(LastCollected)
    /\ coll' = Dropped
    /\ UNCHANGED <<WorkRest, inpVars, handler, walk, rec, pc, cancelled, exit, bad>>

SignalHandlerEnds ==
    /\ handler = "join" /\ coll = <<>>
    /\ handler' = "over"
    /\ UNCHANGED <<WorkRest, inpVars, walk, coll, rec, pc, cancelled, exit, bad>>

\* main: after the input thread the caches are freed. Freeing the item cache
\* joins its thread, which never comes if its mutex is orphaned.
CleanUp ==
    /\ handler = "over" /\ input = "over"
    /\ handler' = "clean"
    /\ bad' = bad \union (IF \E r \in Requests : UsesCaches(r)
                          THEN {"caches"} ELSE {})
    /\ exit' = IF orphan THEN exit ELSE "clean"
    /\ UNCHANGED <<WorkRest, inpVars, walk, coll, rec, pc, cancelled>>

\* Three seconds are enough for an input thread that waits where it can be
\* cancelled, or that has only the table to update before it does: a timing
\* assumption. One with a message in hand may take longer.
EndsInTime == input = "unregister" \/ (input = "recv" /\ inputCancel)

InputTimesOut ==
    /\ handler = "over" /\ input # "over" /\ ~EndsInTime
    /\ exit' = "fail"
    /\ UNCHANGED <<WorkRest, inpVars, handler, walk, coll, rec, pc, cancelled, bad>>

Shutdown ==
    \/ Signal \/ (\E r \in Requests : Visit(r)) \/ WalkEnds
    \/ Join \/ JoinTimesOut \/ SignalHandlerEnds \/ CleanUp \/ InputTimesOut

\* Undefined behaviour may end the process.
Crash ==
    /\ bad # {}
    /\ exit' = "crash"
    /\ UNCHANGED <<WorkRest, inpVars, handler, walk, coll, rec, pc, cancelled, bad>>

\* What goes wrong without any signal: a failed thread creation
\* (input_handler.c:178-190) and names after a reset (main.c:76-80).
Tolerated == (IF spawnFailed THEN {"message"} ELSE {})
             \union (IF resets > 0 THEN {"names"} ELSE {})

\* These two are followed further; what comes after the others is not.
Defined == Running /\ bad \subseteq Tolerated

Next == \/ /\ Defined
           /\ \/ Library \/ InputThread \/ InputSpawnFails
              \/ (\E r \in Requests : Worker(r))
              \/ Shutdown
        \/ Running /\ Crash

Spec == Init /\ [][Next]_vars

\* The scheduler runs every thread that can run, the library reads and
\* replies, waits end. Nobody has to ask, to reset, to signal, to die or to
\* crash, and no thread creation has to fail.
FairSpec ==
    /\ Spec
    /\ WF_vars(Defined /\ (LibRead \/ LibReply))
    /\ WF_vars(Defined /\ InputThread)
    /\ \A r \in Requests : WF_vars(Defined /\ Worker(r))
    /\ WF_vars(Defined /\ Shutdown)

-----------------------------------------------------------------------------
(* Properties                                                              *)

Places == {"none", "start", "send", "write", "sent", "wait", "woken", "main",
           "put", "sync", "done", "cache", "reply", "rwrite", "free", "ended",
           "dead", "joined"}

\* Whom a message, a call or a lock is about: a request, or "none" for a reset.
Senders == Requests \union {"none"}
Requested == [t : {"msg", "reset", "reply"}, r : Senders]
Answered == [t : {"answer", "done", "cmd"}, r : Senders]

\* The state has the shape the declarations of probe.h, worker.h and the
\* local variables of the threads give it.
TypeOK ==
    /\ calls \in Seq(Senders) /\ serving \in BOOLEAN
    /\ alive \in {"open", "closing", "gone"}
    /\ down \in Seq(Requested) /\ up \in Seq(Answered)
    /\ input \in {"recv", "wake", "unregister", "handle", "spawn",
                "answer", "over"}
    /\ msg \in Senders /\ inputCancel \in BOOLEAN
    /\ tree \subseteq Requests /\ waitq \subseteq Requests
    /\ cancelled \subseteq Requests
    /\ rec \in [Requests -> {"none", "live", "freed"}]
    /\ pc \in [Requests -> Places]
    /\ hmtx \in [Requests -> {"none", "worker"}]
    /\ wlock \in Senders
    /\ known \subseteq Objects /\ ncache \in {"live", "dangling"}
    /\ orphan \in BOOLEAN
    /\ pending \in BOOLEAN
    /\ handler \in {"wait", "walk", "join", "over", "clean"}
    /\ walk \subseteq Requests /\ coll \in Seq(Requests)
    /\ exit \in {"no", "clean", "abort", "error", "fail", "crash"}
    /\ answers \in [Requests -> Nat]
    /\ resets \in Nat /\ spawnFailed \in BOOLEAN
    /\ bad \subseteq {"caches", "helper", "tree", "message", "names", "tid",
                      "record"}

\* Until somebody stops the process, no thread touches a record, a helper or a
\* cache another one has freed, and no worker finds its object cached already
\* and aborts (worker.c:89).
SafeInService ==
    ~pending => bad \subseteq Tolerated /\ (exit = "no" \/ bad # {})

\* When the library closes a probe between two queries, as it does at the end
\* of a session, the shutdown of signal_handler.c and main.c is in order: no
\* worker is still using what main frees, the input thread ends in time.
CleanClose ==
    alive = "closing" =>
        bad \subseteq Tolerated /\ (exit \in {"no", "clean"} \/ bad # {})

\* A command in cmd_w_table points to a variable on the stack of the thread
\* that executes it (seap-command.c:295, 321). Whenever the input thread may
\* look a command up, that thread is inside SEAP_cmd_exec or was cancelled
\* there: a command outlives its helper only between the signal and its
\* removal (220, 303), by the thread that removes it.
RegisteredHelperLives ==
    \A r \in waitq : \/ pc[r] \in {"send", "write", "sent", "wait"}
                     \/ r \in cancelled
                     \/ input = "unregister" /\ msg = r

\* The places of a worker that has its object to evaluate, and the request
\* whose thread is about to be created.
Evaluating == {"start", "send", "write", "sent", "wait", "woken", "main",
               "put", "sync", "done"}
Spawning(r) == pc[r] = "none" /\ input = "spawn" /\ msg = r

\* The tree has an entry for exactly the threads that evaluate an object, and
\* the one about to be created; but the entry of a worker that was cancelled
\* stays behind. What the handler finds before it frees records itself is a
\* record nobody has freed (signal_handler.c:46-59).
TreeHoldsRunningWorkers ==
    /\ \A r \in Requests :
          (pc[r] \in Evaluating \/ Spawning(r)) => r \in tree
    /\ \A r \in tree :
          \/ pc[r] \in Evaluating
          \/ Spawning(r)
          \/ r \in cancelled /\ pc[r] \in {"dead", "joined"}
    /\ handler \in {"wait", "walk"} => \A r \in tree : rec[r] = "live"

\* A request is answered at most once, and not at all once its worker was
\* cancelled (the comment worker.c:57-62 fears a second answer).
statusBar ==
    [r \in Requests |->
        IF answers[r] > 1 THEN "answered twice"
        ELSE IF answers[r] = 1 THEN "answered"
        ELSE IF r \in cancelled THEN "cancelled"
        ELSE IF \E k \in DOMAIN calls : calls[k] = r THEN "asked" ELSE "new"]

Service == INSTANCE ProbeService WITH status <- statusBar

ImplementsService == Service!Spec

\* Every request is answered, or the process was told to stop, or it ended
\* because of a failed thread creation or of a reset.
RequestsAnswered ==
    \A r \in Requests :
        (input = "handle" /\ msg = r)
            ~> (answers[r] > 0 \/ pending \/ bad # {})

\* A process that is told to stop ends: every wait of the shutdown has a
\* time-out, except for the join of the item cache's thread, which hangs if a
\* worker was cancelled with the cache's mutex (icache.c:568-569).
ShutdownEnds == pending ~> (~Running \/ orphan \/ ~(bad \subseteq Tolerated))
=============================================================================
