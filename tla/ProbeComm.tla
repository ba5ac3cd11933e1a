----------------------------- MODULE ProbeComm -----------------------------
(***************************************************************************)
(* How the library collects OVAL objects: oval_probe.c and oval_probe_ext.c*)
(* on one side, the probe processes (input_handler.c, worker.c, rcache.c)  *)
(* on the other, SEAP messages in between.                                 *)
(*                                                                         *)
(* The library is one thread.  While it waits for the answer to an object  *)
(* the probe may send it commands: evaluate a member of the set I work on, *)
(* send me the states I filter with.  Serving them makes the library query *)
(* more objects, from the same probe or from others, so its state is a     *)
(* stack of unfinished calls.  Probe processes die at any moment; the      *)
(* library notices it when it next uses the descriptor, and starts another *)
(* process with empty caches for the next object of that type.             *)
(*                                                                         *)
(* A descriptor number is taken when a query starts to wait and is the     *)
(* lowest free one when a process is started, so a number can come to      *)
(* stand for another process while a call still waits on it.               *)
(***************************************************************************)
EXTENDS Naturals, FiniteSets, Sequences

CONSTANTS
  Probes,        \* object types, each with a probe program
  Objects, States, Variables,
  ProbeOf,       \* the type of each object
  Members,       \* objects a set refers to; <<>> for a simple object
  Filters,       \* states an object filters with
  VarRefs,       \* variables the entities of an object refer to
  StateVars,     \* variables the entities of a state refer to
  TestVars,      \* variables the states of the test of an object refer to
  VarObject,     \* the object a local variable takes its values from
  Rank,          \* a document refers to objects of lower rank only
  Supported,     \* object types with an installed probe
  CollectFlags,  \* flags a probe computes for what it collected
  MaxQueries,    \* bound: tests the library evaluates
  MaxCrashes     \* bound: processes that die or do not start

Flags == {"complete", "incomplete", "does_not_exist", "error", "not_collected"}

\* Objects that the evaluation of o, or of a state, asks for.
SeqRange(s) == {s[i] : i \in DOMAIN s}
VarObjects(vs) == {VarObject[v] : v \in SeqRange(vs)}
StateObjects(s) == VarObjects(StateVars[s])
Needs(o) == SeqRange(Members[o]) \cup VarObjects(VarRefs[o])
              \cup UNION {StateObjects(s) : s \in SeqRange(Filters[o])}

ASSUME DocumentAssumption ==
  /\ ProbeOf \in [Objects -> Probes] /\ Supported \subseteq Probes
  /\ Members \in [Objects -> Seq(Objects)] /\ Filters \in [Objects -> Seq(States)]
  /\ VarRefs \in [Objects -> Seq(Variables)]
  /\ TestVars \in [Objects -> Seq(Variables)]
  /\ StateVars \in [States -> Seq(Variables)]
  /\ VarObject \in [Variables -> Objects]
  /\ Rank \in [Objects -> Nat]
  /\ \A o \in Objects : \A u \in Needs(o) : Rank[u] < Rank[o]
  /\ \A o \in Objects : \A m \in SeqRange(Members[o]) : ProbeOf[m] = ProbeOf[o]
  /\ \A o \in Objects : Members[o] # <<>> => VarRefs[o] = <<>>
  /\ Objects \cap States = {}
  /\ CollectFlags \subseteq Flags /\ CollectFlags # {}
  /\ IsFiniteSet(Probes) /\ MaxQueries \in Nat /\ MaxCrashes \in Nat

VARIABLES
  stack,      \* unfinished calls of the library, the innermost last
  ret,        \* what the call that just ended returned
  oscap_err,  \* the library's error queue is not empty
  flag,       \* collection flag of the syschar of each object
  varflag,    \* collection flag of each variable
  pd,         \* descriptor number of each probe, NoSd when not connected
  proc,       \* the process behind each descriptor number
  queries, crashes

vars == <<stack, ret, oscap_err, flag, varflag, pd, proc, queries, crashes>>

-----------------------------------------------------------------------------
(* Descriptors and processes.                                              *)

NoSd == 0
Sds == 1 .. Cardinality(Probes)

\* rcache holds results of objects and, by the same key space, states.
NoProcess == [open |-> FALSE, alive |-> FALSE, reaped |-> FALSE,
              to |-> <<>>, from |-> <<>>, next_id |-> 0,
              rcache |-> [k \in Objects \cup States |-> "none"],
              workers |-> {}]

NewProcess == [NoProcess EXCEPT !.open = TRUE, !.alive = TRUE]

\* A process that has ended: only what it has sent is left.
Dead(p) == [NoProcess EXCEPT !.open = TRUE, !.from = p.from, !.next_id = p.next_id]

Cached(n, k) == proc[n].rcache[k] # "none"

\* Messages to a probe: an object to evaluate, the reply to a command.
ObjectMsg(id, o, skip) == [type |-> "object", id |-> id, obj |-> o, ok |-> ~skip]
CommandReply(id, ok) == [type |-> "reply", id |-> id, obj |-> "none", ok |-> ok]

\* Messages from a probe: a result, an error, the commands.  args are the
\* ids the command carries.
Result(id, f) == [type |-> "result", id |-> id, flag |-> f, args |-> <<>>]
ProbeError(id) == [type |-> "error", id |-> id, flag |-> "error", args |-> <<>>]
ObjEval(id, o) == [type |-> "obj_eval", id |-> id, flag |-> "none", args |-> <<o>>]
SteFetch(id, ss) == [type |-> "ste_fetch", id |-> id, flag |-> "none", args |-> ss]

Send(n, m) == proc' = [proc EXCEPT ![n].to = Append(@, m)]

-----------------------------------------------------------------------------
Init ==
  /\ stack = <<>> /\ ret = "none" /\ oscap_err = FALSE
  /\ flag = [o \in Objects |-> "none"]
  /\ varflag = [v \in Variables |-> "unknown"]
  /\ pd = [p \in Probes |-> NoSd]
  /\ proc = [n \in Sds |-> NoProcess]
  /\ queries = 0 /\ crashes = 0

(* The calls of the library.  call names the function; pc is where it is:  *)
(* "start", "vars" (turning the referenced variables into values), "send", *)
(* "recv" (in SEAP_recvmsg), "call" (waiting for the call above it).       *)
(* states are what oval_probe_cmd_ste_fetch has still to convert.          *)

Frame == [call : {"criterion", "query", "obj_eval", "ste_fetch"},
          obj : Objects \cup {"none"}, pc : {"start", "vars", "send", "recv", "call"},
          slave : BOOLEAN, skip : BOOLEAN, vars : Seq(Variables),
          states : Seq(States), sd : Sds \cup {NoSd}, id : Nat]

NewCall(call, o, pc) ==
  [call |-> call, obj |-> o, pc |-> pc, slave |-> FALSE, skip |-> FALSE,
   vars |-> <<>>, states |-> <<>>, sd |-> NoSd, id |-> 0]

Query(o) == NewCall("query", o, "start")
SlaveQuery(o) == [Query(o) EXCEPT !.slave = TRUE]

Top == stack[Len(stack)]
Below == SubSeq(stack, 1, Len(stack) - 1)

\* The innermost call is at pc and nothing has returned to it.
At(call, pc) == stack # <<>> /\ Top.call = call /\ Top.pc = pc /\ ret = "none"

\* The innermost call is at pc and the call it made has returned.
Returned(call, pc) ==
  stack # <<>> /\ Top.call = call /\ Top.pc = pc /\ ret # "none"

Become(f) == stack' = Append(Below, f)
Call(f) == stack' = Append(stack, f)
Return(r) == stack' = Below /\ ret' = r

-----------------------------------------------------------------------------
(* Tests and variables.                                                    *)

\* oval_probe_query_criteria for one criterion: query the object ...
Evaluate(o) ==
  /\ stack = <<>>
  /\ queries < MaxQueries
  /\ queries' = queries + 1
  /\ stack' = <<NewCall("criterion", o, "call"), Query(o)>>
  /\ UNCHANGED <<ret, oscap_err, flag, varflag, pd, proc, crashes>>

\* ... stop on -1, but not on 1 or -2, and go on with the variables of the
\* states.
ObjectQueried ==
  /\ Returned("criterion", "call")
  /\ IF ret = "fail"
     THEN stack' = Below
     ELSE Become([Top EXCEPT !.pc = "vars", !.vars = TestVars[Top.obj]])
  /\ ret' = "none"
  /\ UNCHANGED <<oscap_err, flag, varflag, pd, proc, queries, crashes>>

\* oval_probe_query_variable, not known yet: query its object, not as slave.
Reading == stack # <<>> /\ Top.pc = "vars" /\ Top.vars # <<>>

ReadVariable ==
  /\ Reading /\ ret = "none"
  /\ varflag[Head(Top.vars)] = "unknown"
  /\ Call(Query(VarObject[Head(Top.vars)]))
  /\ UNCHANGED <<ret, oscap_err, flag, varflag, pd, proc, queries, crashes>>

Usable(f) == f \in {"complete", "incomplete"}

\* Variant: the return code of the query is taken for the flag.
ReadFlags_Code(r, f) == IF r = "ok" THEN {f} ELSE {r}

\* A query that did not return 0 leaves SYSCHAR_FLAG_ERROR; a flag that
\* promises values turns to it when there are none or they do not convert.
ReadFlags(r, f) ==
  CASE r # "ok" -> {"error"}
    [] r = "ok" /\ Usable(f) -> {f, "error"}
    [] OTHER -> {f}

VariableRead ==
  /\ Reading /\ ret # "none"
  /\ LET v == Head(Top.vars)
     IN \E g \in ReadFlags(ret, flag[VarObject[v]]) :
           varflag' = [varflag EXCEPT ![v] = g]
  /\ ret' = "none"
  /\ UNCHANGED <<stack, oscap_err, flag, pd, proc, queries, crashes>>

\* oval_state_to_sexp sends no values for a variable that has none;
\* oval_object_to_sexp gives up, marks the syschar and asks the probe to
\* skip the object; a criterion is done.
UseVariable ==
  /\ Reading /\ ret = "none"
  /\ LET f == varflag[Head(Top.vars)]
         rest == [Top EXCEPT !.vars = Tail(@)]
     IN /\ f # "unknown"
        /\ IF Usable(f) \/ Top.call = "ste_fetch"
           THEN Become(rest) /\ UNCHANGED flag
           ELSE /\ Become([Top EXCEPT !.vars = <<>>, !.skip = TRUE])
                /\ flag' = IF Top.call = "query"
                           THEN [flag EXCEPT ![Top.obj] = "does_not_exist"]
                           ELSE flag
  /\ UNCHANGED <<ret, oscap_err, varflag, pd, proc, queries, crashes>>

CriterionDone ==
  /\ At("criterion", "vars") /\ Top.vars = <<>>
  /\ stack' = Below
  /\ UNCHANGED <<ret, oscap_err, flag, varflag, pd, proc, queries, crashes>>

-----------------------------------------------------------------------------
(* oval_probe_query_object up to the message to the probe.                 *)

\* Variant: look only for a syschar, not for its flag.
Known_Never(o, slave) == slave /\ flag[o] # "none"

\* The syschar exists and its flag is known, or the caller wants no reply.
Known(o, slave) == flag[o] # "none" /\ (flag[o] # "unknown" \/ slave)

QueryKnown ==
  /\ At("query", "start")
  /\ Known(Top.obj, Top.slave)
  /\ Return("ok")
  /\ UNCHANGED <<oscap_err, flag, varflag, pd, proc, queries, crashes>>

QueryUnsupported ==
  /\ At("query", "start")
  /\ ~Known(Top.obj, Top.slave) /\ ProbeOf[Top.obj] \notin Supported
  /\ flag' = [flag EXCEPT ![Top.obj] = "not_collected"]
  /\ Return("warn")
  /\ UNCHANGED <<oscap_err, varflag, pd, proc, queries, crashes>>

QueryNew ==
  /\ At("query", "start")
  /\ ~Known(Top.obj, Top.slave) /\ ProbeOf[Top.obj] \in Supported
  /\ flag' = [flag EXCEPT ![Top.obj] = IF @ = "none" THEN "unknown" ELSE @]
  /\ Become([Top EXCEPT !.pc = "vars", !.vars = VarRefs[Top.obj]])
  /\ UNCHANGED <<ret, oscap_err, varflag, pd, proc, queries, crashes>>

ObjectConverted ==
  /\ At("query", "vars") /\ Top.vars = <<>>
  /\ Become([Top EXCEPT !.pc = "send"])
  /\ UNCHANGED <<ret, oscap_err, flag, varflag, pd, proc, queries, crashes>>

-----------------------------------------------------------------------------
(* oval_probe_comm.                                                        *)

Probe == ProbeOf[Top.obj]
Fail == Return("fail") /\ oscap_err' = TRUE

\* SEAP_connect starts the probe on the lowest free number ...
FreeSd == {n \in Sds : ~proc[n].open}

Connect ==
  /\ At("query", "send")
  /\ pd[Probe] = NoSd
  /\ \E n \in FreeSd :
        /\ \A k \in FreeSd : n <= k
        /\ pd' = [pd EXCEPT ![Probe] = n]
        /\ proc' = [proc EXCEPT ![n] = NewProcess]
  /\ UNCHANGED <<stack, ret, oscap_err, flag, varflag, queries, crashes>>

\* ... or fails, which is not tried again (OVAL_PROBE_MAXRETRY is 0).
ConnectFails ==
  /\ At("query", "send")
  /\ pd[Probe] = NoSd
  /\ crashes < MaxCrashes
  /\ crashes' = crashes + 1
  /\ Fail
  /\ UNCHANGED <<flag, varflag, pd, proc, queries>>

\* Variant: a slave query does not wait, there is nothing to receive.
SendObject_NoWait ==
  /\ At("query", "send")
  /\ pd[Probe] # NoSd
  /\ LET n == pd[Probe] IN
        /\ proc[n].alive
        /\ proc' = [proc EXCEPT ![n].next_id = @ + 1,
                                ![n].to = Append(@, ObjectMsg(proc[n].next_id,
                                                              Top.obj, Top.skip))]
        /\ IF Top.slave
           THEN Return("ok")
           ELSE /\ Become([Top EXCEPT !.pc = "recv", !.sd = n,
                                      !.id = proc[n].next_id])
                /\ UNCHANGED ret
  /\ UNCHANGED <<oscap_err, flag, varflag, pd, queries, crashes>>

\* Send the object and start to wait on the descriptor.
SendObject ==
  /\ At("query", "send")
  /\ pd[Probe] # NoSd
  /\ LET n == pd[Probe] IN
        /\ proc[n].alive
        /\ proc' = [proc EXCEPT ![n].next_id = @ + 1,
                                ![n].to = Append(@, ObjectMsg(proc[n].next_id,
                                                              Top.obj, Top.skip))]
        /\ Become([Top EXCEPT !.pc = "recv", !.sd = n, !.id = proc[n].next_id])
  /\ UNCHANGED <<ret, oscap_err, flag, varflag, pd, queries, crashes>>

\* SEAP_close of the descriptor the probe has now, and pd->sd = -1.
ClosePd(p) ==
  /\ pd' = [pd EXCEPT ![p] = NoSd]
  /\ proc' = IF pd[p] = NoSd THEN proc ELSE [proc EXCEPT ![pd[p]] = NoProcess]

\* waitpid in check_child has collected the process: it is gone for every
\* later use of the descriptor, SEAP_close included.
Reap(n) == proc' = [proc EXCEPT ![n].reaped = proc[n].open]

\* The process is found dead before the write.  A slave query leaves the
\* descriptor as it is, any other one closes it.
SendFails ==
  /\ At("query", "send")
  /\ pd[Probe] # NoSd
  /\ ~proc[pd[Probe]].alive
  /\ IF Top.slave THEN Reap(pd[Probe]) /\ UNCHANGED pd ELSE ClosePd(Probe)
  /\ Fail
  /\ UNCHANGED <<flag, varflag, queries, crashes>>

-----------------------------------------------------------------------------
(* SEAP_recvmsg in oval_probe_comm.                                        *)

Receiving == At("query", "recv")
Arrived(type) == /\ ~proc[Top.sd].reaped
                 /\ proc[Top.sd].from # <<>>
                 /\ Head(proc[Top.sd].from).type = type
Message == Head(proc[Top.sd].from)
TakeMessage == proc' = [proc EXCEPT ![Top.sd].from = Tail(@)]

\* Whatever result comes first is taken for the answer.  The answer to a
\* slave query is empty and only ends the wait.
RecvResult ==
  /\ Receiving /\ Arrived("result")
  /\ TakeMessage
  /\ flag' = IF Top.slave THEN flag
                          ELSE [flag EXCEPT ![Top.obj] = Message.flag]
  /\ Return("ok")
  /\ UNCHANGED <<oscap_err, varflag, pd, queries, crashes>>

RecvError ==
  /\ Receiving /\ Arrived("error")
  /\ TakeMessage
  /\ Fail
  /\ UNCHANGED <<flag, varflag, pd, queries, crashes>>

\* oval_probe_cmd_obj_eval clears the error queue and queries the member as
\* slave without reply.
RecvObjEval ==
  /\ Receiving /\ Arrived("obj_eval")
  /\ TakeMessage
  /\ stack' = stack \o <<[NewCall("obj_eval", Message.args[1], "call")
                            EXCEPT !.sd = Top.sd, !.id = Message.id],
                         SlaveQuery(Message.args[1])>>
  /\ oscap_err' = FALSE
  /\ UNCHANGED <<ret, flag, varflag, pd, queries, crashes>>

\* oval_probe_cmd_ste_fetch converts one state after the other ...
RecvSteFetch ==
  /\ Receiving /\ Arrived("ste_fetch")
  /\ TakeMessage
  /\ Call([NewCall("ste_fetch", "none", "vars")
             EXCEPT !.states = Message.args, !.sd = Top.sd, !.id = Message.id])
  /\ UNCHANGED <<ret, oscap_err, flag, varflag, pd, queries, crashes>>

\* ... its variables included.
FetchState ==
  /\ At("ste_fetch", "vars") /\ Top.vars = <<>> /\ Top.states # <<>>
  /\ Become([Top EXCEPT !.vars = StateVars[Head(Top.states)], !.states = Tail(@)])
  /\ UNCHANGED <<ret, oscap_err, flag, varflag, pd, proc, queries, crashes>>

\* The process is found dead by waitpid; what it sent last is not read.
\* SEAP_close cannot collect it a second time and fails.
RecvDead ==
  /\ Receiving
  /\ ~proc[Top.sd].alive
  /\ IF Top.slave THEN Reap(Top.sd) /\ UNCHANGED pd ELSE ClosePd(Probe)
  /\ Fail
  /\ UNCHANGED <<flag, varflag, queries, crashes>>

\* End of file while waitpid does not report the process yet.  Only a slave
\* query sets an error, and oval_probe_ext_eval closes the descriptor.
RecvEOF ==
  /\ Receiving
  /\ proc[Top.sd].open /\ ~proc[Top.sd].alive /\ ~proc[Top.sd].reaped
  /\ proc[Top.sd].from = <<>>
  /\ ClosePd(Probe)
  /\ IF Top.slave THEN Fail ELSE Return("aborted") /\ UNCHANGED oscap_err
  /\ UNCHANGED <<flag, varflag, queries, crashes>>

-----------------------------------------------------------------------------
(* The reply to a command, __SEAP_cmdexec_reply.  When it cannot be sent,  *)
(* the receive of the call below fails and with it that query.             *)

Outer == stack[Len(stack) - 1]

Reply(ok) ==
  /\ proc[Top.sd].alive
  /\ Send(Top.sd, CommandReply(Top.id, ok))
  /\ stack' = Below
  /\ ret' = "none"
  /\ UNCHANGED pd

ReplyFails ==
  /\ ~proc[Top.sd].alive
  /\ stack' = SubSeq(stack, 1, Len(stack) - 2)
  /\ ret' = "fail"
  /\ IF Outer.slave THEN Reap(Top.sd) /\ UNCHANGED pd
                    ELSE ClosePd(ProbeOf[Outer.obj])

\* Variant: no reply when the evaluation failed.
ObjEvalDone_DropsFailure ==
  /\ Returned("obj_eval", "call")
  /\ oscap_err' = FALSE
  /\ \/ ~oscap_err /\ Reply(TRUE)
     \/ oscap_err /\ stack' = Below /\ ret' = "none" /\ UNCHANGED <<pd, proc>>
     \/ ReplyFails
  /\ UNCHANGED <<flag, varflag, queries, crashes>>

\* Any error the query left behind, even of a variable, turns the reply
\* into the empty one; a query that returned 1 does not.
ObjEvalDone ==
  /\ Returned("obj_eval", "call")
  /\ \/ Reply(~oscap_err) /\ oscap_err' = FALSE
     \/ ReplyFails /\ oscap_err' = TRUE
  /\ UNCHANGED <<flag, varflag, queries, crashes>>

SteFetchDone ==
  /\ At("ste_fetch", "vars") /\ Top.vars = <<>> /\ Top.states = <<>>
  /\ \/ Reply(TRUE) /\ UNCHANGED oscap_err
     \/ ReplyFails /\ oscap_err' = TRUE
  /\ UNCHANGED <<flag, varflag, queries, crashes>>

-----------------------------------------------------------------------------
(* A probe process: the input handler.  libraryVars is what it never sees. *)

libraryVars == <<stack, ret, oscap_err, flag, varflag, pd, queries>>

\* Variant: no look into the result cache.
Hit_Never(n, o) == FALSE

Hit(n, o) == Cached(n, o)

Input(n, type) == /\ proc[n].alive
                  /\ proc[n].to # <<>>
                  /\ Head(proc[n].to).type = type

InputHit(n) ==
  /\ Input(n, "object")
  /\ LET m == Head(proc[n].to) IN
        /\ Hit(n, m.obj)
        /\ proc' = [proc EXCEPT
             ![n].to = Tail(@),
             ![n].from = Append(@, Result(m.id, proc[n].rcache[m.obj]))]
  /\ UNCHANGED <<libraryVars, crashes>>

\* skip_eval: the flag is cached and sent without evaluation.
InputSkip(n) ==
  /\ Input(n, "object")
  /\ LET m == Head(proc[n].to) IN
        /\ ~Hit(n, m.obj) /\ ~m.ok
        /\ proc' = [proc EXCEPT
             ![n].to = Tail(@),
             ![n].rcache[m.obj] = "does_not_exist",
             ![n].from = Append(@, Result(m.id, "does_not_exist"))]
  /\ UNCHANGED <<libraryVars, crashes>>

\* A worker thread for the object.  todo are the members a set still has to
\* look up and then its filters, missing the filters it fetches (filters_req
\* of a set); answer is what the library replied.
NewWorker(id, o) ==
  [id |-> id, obj |-> o, pc |-> IF Members[o] = <<>> THEN "filters" ELSE "members",
   todo |-> IF Members[o] = <<>> THEN Filters[o] ELSE Members[o], missing |-> <<>>,
   answer |-> FALSE, flag |-> "none"]

InputNew(n) ==
  /\ Input(n, "object")
  /\ LET m == Head(proc[n].to) IN
        /\ ~Hit(n, m.obj) /\ m.ok
        /\ proc' = [proc EXCEPT ![n].to = Tail(@),
                                ![n].workers = @ \cup {NewWorker(m.id, m.obj)}]
  /\ UNCHANGED <<libraryVars, crashes>>

\* The reply to a command wakes the worker that waits for it; one that
\* nobody waits for is dropped.
InputReply(n) ==
  /\ Input(n, "reply")
  /\ LET m == Head(proc[n].to)
         Woken(w) == IF w.id = m.id
                     THEN [w EXCEPT !.pc = "answered", !.answer = m.ok] ELSE w
     IN proc' = [proc EXCEPT ![n].to = Tail(@),
                             ![n].workers = {Woken(w) : w \in @}]
  /\ UNCHANGED <<libraryVars, crashes>>

-----------------------------------------------------------------------------
(* A probe process: the worker threads.                                    *)

IsSet(w) == Members[w.obj] # <<>>
Step(n, w, next) == proc' = [proc EXCEPT ![n].workers = (@ \ {w}) \cup {next}]
Command(n, w, m) ==
  proc' = [proc EXCEPT
             ![n].workers = (@ \ {w}) \cup {[w EXCEPT !.pc = "wait"]},
             ![n].from = Append(@, m)]

\* probe_set_eval, one object reference after the other: a result in the
\* cache is taken, any other is asked for by probe_obj_eval.
SetMember(n, w) ==
  /\ w.pc = "members" /\ w.todo # <<>>
  /\ IF Cached(n, Head(w.todo))
     THEN Step(n, w, [w EXCEPT !.todo = Tail(@)])
     ELSE Command(n, w, ObjEval(w.id, Head(w.todo)))

\* Variant: the reply alone is trusted.
MemberFound_NoLookup(n, w) == w.answer

\* An empty reply compares unequal to the id; otherwise the cache decides.
MemberFound(n, w) == w.answer /\ Cached(n, Head(w.todo))

SetMemberAnswered(n, w) ==
  /\ w.pc = "answered" /\ w.missing = <<>>
  /\ Step(n, w, IF MemberFound(n, w)
                THEN [w EXCEPT !.pc = "members", !.todo = Tail(@)]
                ELSE [w EXCEPT !.pc = "result", !.flag = "error", !.answer = TRUE])

SetMembersDone(n, w) ==
  /\ w.pc = "members" /\ w.todo = <<>>
  /\ Step(n, w, [w EXCEPT !.pc = "filters", !.todo = Filters[w.obj]])

\* A filter is looked up like a member.  Those that are not cached are
\* fetched: by a set all with one command, by a simple object
\* (probe_prepare_filters) one after the other.
LookUpFilter(n, w) ==
  /\ w.pc = "filters" /\ w.todo # <<>>
  /\ IsSet(w) \/ w.missing = <<>>
  /\ Step(n, w, [w EXCEPT !.todo = Tail(@),
                         !.missing = IF Cached(n, Head(w.todo)) THEN @
                                     ELSE Append(@, Head(w.todo))])

FetchFilters(n, w) ==
  /\ w.pc = "filters" /\ w.missing # <<>>
  /\ IsSet(w) => w.todo = <<>>
  /\ Command(n, w, SteFetch(w.id, w.missing))

\* probe_ste_fetch caches the states from the last to the first, up to one
\* that is in the cache already (or twice in the list), which makes it fail.
\* A set then ends with an error, a simple object goes on without the filter.
Collisions(n, w) ==
  {i \in DOMAIN w.missing :
     \/ Cached(n, w.missing[i])
     \/ \E j \in DOMAIN w.missing : i < j /\ w.missing[i] = w.missing[j]}
Fetched(n, w) ==
  {w.missing[i] : i \in {j \in DOMAIN w.missing :
                           w.answer /\ \A k \in Collisions(n, w) : k < j}}
FetchFailed(n, w) == ~w.answer \/ Collisions(n, w) # {}

FiltersAnswered(n, w) ==
  /\ w.pc = "answered" /\ w.missing # <<>>
  /\ LET next == IF IsSet(w) /\ FetchFailed(n, w)
                 THEN [w EXCEPT !.pc = "result", !.flag = "error", !.answer = TRUE]
                 ELSE [w EXCEPT !.pc = "filters", !.missing = <<>>]
     IN proc' = [proc EXCEPT
          ![n].workers = (@ \ {w}) \cup {next},
          ![n].rcache = [k \in DOMAIN @ |->
                           IF k \in Fetched(n, w) THEN "state" ELSE @[k]]]

\* probe_set_combine or probe_main and what it collects; probe_main may
\* return an error, which a set never does.
Collect(n, w) ==
  /\ w.pc = "filters" /\ w.todo = <<>> /\ w.missing = <<>>
  /\ \E f \in CollectFlags, ok \in BOOLEAN :
        /\ IsSet(w) => ok
        /\ Step(n, w, [w EXCEPT !.pc = "result", !.flag = f, !.answer = ok])

\* probe_worker_runfn caches the result, whatever the return code, before
\* it replies; a result that is cached already aborts the process.
StoreResult(n, w) ==
  /\ w.pc = "result"
  /\ proc' = IF Cached(n, w.obj)
             THEN [proc EXCEPT ![n] = Dead(@)]
             ELSE [proc EXCEPT
                     ![n].workers = (@ \ {w}) \cup {[w EXCEPT !.pc = "reply"]},
                     ![n].rcache[w.obj] = w.flag]

SendReply(n, w) ==
  /\ w.pc = "reply"
  /\ proc' = [proc EXCEPT
                ![n].workers = @ \ {w},
                ![n].from = Append(@, IF w.answer THEN Result(w.id, w.flag)
                                                  ELSE ProbeError(w.id))]

WorkerStep(n, w) ==
  /\ \/ SetMember(n, w)
     \/ SetMemberAnswered(n, w)
     \/ SetMembersDone(n, w)
     \/ LookUpFilter(n, w)
     \/ FetchFilters(n, w)
     \/ FiltersAnswered(n, w)
     \/ Collect(n, w)
     \/ StoreResult(n, w)
     \/ SendReply(n, w)
  /\ UNCHANGED <<libraryVars, crashes>>

\* A process ends on its own; what it has sent can still be read.
Crash(n) ==
  /\ proc[n].alive
  /\ crashes < MaxCrashes
  /\ crashes' = crashes + 1
  /\ proc' = [proc EXCEPT ![n] = Dead(@)]
  /\ UNCHANGED libraryVars

-----------------------------------------------------------------------------
LibraryStep ==
  \/ ObjectQueried \/ ReadVariable \/ VariableRead \/ UseVariable
  \/ CriterionDone
  \/ QueryKnown \/ QueryUnsupported \/ QueryNew \/ ObjectConverted
  \/ Connect \/ SendObject \/ SendFails
  \/ RecvResult \/ RecvError \/ RecvObjEval \/ RecvSteFetch
  \/ RecvDead \/ RecvEOF
  \/ ObjEvalDone \/ FetchState \/ SteFetchDone

InputStep(n) == InputHit(n) \/ InputSkip(n) \/ InputNew(n) \/ InputReply(n)

WorkersStep(n) == \E w \in proc[n].workers : WorkerStep(n, w)

Next ==
  \/ \E o \in Objects : Evaluate(o)
  \/ LibraryStep
  \/ ConnectFails
  \/ \E n \in Sds : InputStep(n) \/ WorkersStep(n) \/ Crash(n)

Spec == Init /\ [][Next]_vars

\* Every process that can go on does; nobody has to start a test, to crash
\* or to fail to start.
FairSpec ==
  /\ Spec
  /\ WF_vars(LibraryStep)
  /\ \A n \in Sds : WF_vars(InputStep(n)) /\ WF_vars(WorkersStep(n))

-----------------------------------------------------------------------------
Results == CollectFlags \cup {"error", "does_not_exist"}

Workers == [id : Nat, obj : Objects, answer : BOOLEAN,
            pc : {"members", "filters", "wait", "answered", "result", "reply"},
            todo : Seq(Objects \cup States), missing : Seq(States), flag : Results \cup {"none"}]

Inbound == [type : {"object"}, id : Nat, obj : Objects, ok : BOOLEAN]
             \cup [type : {"reply"}, id : Nat, obj : {"none"}, ok : BOOLEAN]
Outbound == [type : {"result", "error", "obj_eval", "ste_fetch"}, id : Nat,
             flag : Results \cup {"none"}, args : Seq(Objects \cup States)]

Processes ==
  [open : BOOLEAN, alive : BOOLEAN, reaped : BOOLEAN, next_id : Nat,
   to : Seq(Inbound), from : Seq(Outbound), workers : SUBSET Workers,
   rcache : [Objects \cup States -> Results \cup {"none", "state"}]]

TypeOK ==
  /\ stack \in Seq(Frame)
  /\ ret \in {"none", "ok", "warn", "fail", "aborted"}
  /\ oscap_err \in BOOLEAN
  /\ flag \in [Objects -> Flags \cup {"none", "unknown"}]
  /\ varflag \in [Variables -> Flags \cup {"unknown"}]
  /\ pd \in [Probes -> Sds \cup {NoSd}]
  /\ proc \in [Sds -> Processes]
  /\ queries \in 0 .. MaxQueries /\ crashes \in 0 .. MaxCrashes

-----------------------------------------------------------------------------
(* Properties.                                                             *)

\* The answer taken for a query is the one to the message it sent, though
\* nothing compares reply ids: a result at the head of a descriptor carries
\* the id of the innermost call that waits on it.
ReplyMatches ==
  Receiving /\ (Arrived("result") \/ Arrived("error")) => Message.id = Top.id

\* When no test is evaluated every probe that still runs is idle: nothing is
\* on the way to or from it and no worker waits, so the next test starts
\* from a clean connection whatever failed in the one before.
QuietWhenIdle ==
  stack = <<>> => \A n \in Sds :
     proc[n].alive => /\ proc[n].to = <<>> /\ proc[n].from = <<>>
                      /\ proc[n].workers = {}

\* No object is evaluated twice by one process: the assumption behind the
\* abort() calls next to probe_rcache_sexp_add.
NoDoubleEvaluation ==
  \A n \in Sds : \A w \in proc[n].workers :
     /\ w.pc = "result" => ~Cached(n, w.obj)
     /\ \A u \in proc[n].workers : u.obj = w.obj => u = w

\* What the library reports for an object is what the running probe has in
\* its cache, and what sets of that probe are computed from.
ReportsCachedResult ==
  \A o \in Objects :
     LET n == pd[ProbeOf[o]] IN
        n # NoSd /\ Cached(n, o) /\ flag[o] \in Flags
           => flag[o] = proc[n].rcache[o]

\* A set has a result other than an error only if the process that computed
\* it has the results of all members.
SetsSeeMembers ==
  \A n \in Sds : \A o \in Objects :
     proc[n].rcache[o] \notin {"none", "error"}
        => \A m \in SeqRange(Members[o]) : Cached(n, m)

\* The flag of an object, once known, is final: a later query, a restarted
\* probe or a nested evaluation never changes it.
FlagsAreFinal ==
  [][\A o \in Objects : flag[o] \in Flags => flag'[o] = flag[o]]_vars

\* Every test ends, whatever probe dies in the middle of it.
QueriesReturn == stack # <<>> ~> stack = <<>>
=============================================================================
