-------------------------- MODULE ProbeCommProofs --------------------------
EXTENDS ProbeComm, TLAPS, SequenceTheorems, FiniteSetTheorems

Pos == DOMAIN stack
IsQuery(i) == stack[i].call = "query"
\* The query at i waits in SEAP_recvmsg, or for a command it executes.
Waits(i) == IsQuery(i) /\ stack[i].pc = "recv"

\* What a call may look like.
FrameOK(f) ==
  /\ f.call = "criterion" => f.pc \in {"call", "vars"}
  /\ f.call = "query" => f.pc \in {"start", "vars", "send", "recv"}
  /\ f.call = "obj_eval" => f.pc = "call" /\ f.sd \in Sds
  /\ f.call = "ste_fetch" => f.pc = "vars" /\ f.sd \in Sds
  /\ f.call # "ste_fetch" => f.obj \in Objects
  /\ f.pc = "recv" => f.sd \in Sds
  /\ f.pc # "vars" => f.vars = <<>>

\* Which call f makes which call g.
Makes(f, g) ==
  \/ /\ f.call = "criterion" /\ f.pc = "call"
     /\ g.call = "query"
  \/ /\ f.pc = "vars" /\ f.vars # <<>> /\ varflag[Head(f.vars)] = "unknown"
     /\ g.call = "query" /\ ~g.slave /\ g.obj = VarObject[Head(f.vars)]
  \/ /\ f.call = "query" /\ f.pc = "recv"
     /\ g.call \in {"obj_eval", "ste_fetch"} /\ g.sd = f.sd /\ g.id = f.id
     /\ g.call = "obj_eval" => g.obj \in SeqRange(Members[f.obj])
     /\ VarObjects(g.vars) \subseteq Needs(f.obj)
     /\ SeqRange(g.states) \subseteq SeqRange(Filters[f.obj])
  \/ /\ f.call = "obj_eval"
     /\ g.call = "query" /\ g.obj = f.obj

\* The call f waits for the result of another.
Expects(f) ==
  \/ f.call = "criterion" /\ f.pc = "call"
  \/ f.call = "obj_eval"
  \/ f.pc = "vars" /\ f.vars # <<>> /\ varflag[Head(f.vars)] = "unknown"

ShapeInv ==
  /\ \A i \in Pos : FrameOK(stack[i]) /\ (i > 1 <=> stack[i].call # "criterion")
  /\ \A i \in Pos : i > 1 => Makes(stack[i - 1], stack[i])
  /\ ret # "none" => stack # <<>> /\ Expects(Top)

\* Calls are about objects of lower and lower rank.
RankInv ==
  \A i, j \in Pos : IsQuery(i) /\ IsQuery(j) /\ i < j
     => Rank[stack[j].obj] < Rank[stack[i].obj]

AllUsable(o) == \A v \in SeqRange(VarRefs[o]) : Usable(varflag[v])
Unusable(o) == \E v \in SeqRange(VarRefs[o]) :
                  varflag[v] # "unknown" /\ ~Usable(varflag[v])

\* A variable is read from an object whose flag is known.
ReturnInv ==
  ret = "ok" /\ Reading => flag[VarObject[Head(Top.vars)]] \in Flags

\* A query that asks for a supported object: skipped, or with the values of
\* all variables it has read.
QueryOK(f) ==
  /\ f.pc = "start" => ~f.skip
  /\ f.pc # "start" => ProbeOf[f.obj] \in Supported
  /\ f.pc # "start" /\ f.skip =>
       f.vars = <<>> /\ flag[f.obj] = "does_not_exist" /\ Unusable(f.obj)
  /\ f.pc # "start" /\ ~f.skip =>
       /\ flag[f.obj] = "unknown"
       /\ SeqRange(f.vars) \subseteq SeqRange(VarRefs[f.obj])
       /\ \A v \in SeqRange(VarRefs[f.obj]) :
            Usable(varflag[v]) \/ v \in SeqRange(f.vars)
QueryInv == \A i \in Pos : IsQuery(i) => QueryOK(stack[i])

DescInv ==
  /\ \A p \in Probes : pd[p] # NoSd => p \in Supported /\ proc[pd[p]].open
  /\ \A p1, p2 \in Probes : pd[p1] = pd[p2] /\ pd[p1] # NoSd => p1 = p2
  /\ \A n \in Sds :
       /\ proc[n].alive => proc[n].open /\ ~proc[n].reaped
       /\ ~proc[n].alive => /\ proc[n].to = <<>> /\ proc[n].workers = {}
                            /\ \A k \in Objects \cup States : ~Cached(n, k)
       /\ ~proc[n].open => proc[n].from = <<>>

\* Worker w of the process at n works on the query at i.
Serves(w, i, n) ==
  Waits(i) /\ stack[i].sd = n /\ stack[i].id = w.id /\ stack[i].obj = w.obj
Served(i, n) == \E w \in proc[n].workers : Serves(w, i, n)

\* The innermost call waits for a message from n.
ReceivesOn(n) == stack # <<>> /\ Waits(Len(stack)) /\ Top.sd = n

\* No worker of n can go on; nothing is on the way to it or from it.
Quiet(n) == \A w \in proc[n].workers : w.pc = "wait"
Calm(n) == /\ proc[n].to = <<>> /\ (proc[n].from = <<>> \/ proc[n].reaped)
           /\ Quiet(n)

\* What is on the way to a process is one message: the object of the
\* innermost call, or the reply that a worker for it waits for.
ToOK(n) ==
  proc[n].to # <<>> =>
     LET m == proc[n].to[1] IN
     /\ Len(proc[n].to) = 1 /\ proc[n].from = <<>> /\ Quiet(n)
     /\ ReceivesOn(n) /\ m.id = Top.id
     /\ m.type = "object" =>
          /\ pd[Probe] = n /\ m.obj = Top.obj /\ m.ok = ~Top.skip
          /\ m.id < proc[n].next_id
          /\ \A w \in proc[n].workers : w.id # m.id
     /\ m.type = "reply" => Served(Len(stack), n) \/ proc[n].workers = {}

\* What is on the way from a process is one message, the answer to the
\* innermost call or a command of the worker for it.
FromOK(n) ==
  proc[n].from # <<>> /\ ~proc[n].reaped =>
     LET m == proc[n].from[1] IN
     /\ Len(proc[n].from) = 1 /\ Quiet(n)
     /\ ReceivesOn(n) /\ m.id = Top.id /\ pd[Probe] = n
     /\ m.type = "result" =>
          /\ m.flag \in Results
          /\ Top.skip => m.flag = "does_not_exist"
          /\ proc[n].alive => proc[n].rcache[Top.obj] = m.flag
     /\ m.type \in {"result", "error"} => ~Served(Len(stack), n)
     /\ m.type = "obj_eval" =>
          Len(m.args) = 1 /\ m.args[1] \in SeqRange(Members[Top.obj])
     /\ m.type = "ste_fetch" =>
          m.args \in Seq(States) /\ SeqRange(m.args) \subseteq SeqRange(Filters[Top.obj])
     /\ m.type \in {"obj_eval", "ste_fetch"} /\ proc[n].alive => Served(Len(stack), n)

\* Every query above i that waits on n has a worker, but for the innermost
\* one while its object or its answer is on the way.
Pending(n) ==
  proc[n].from # <<>> \/ (proc[n].to # <<>> /\ proc[n].to[1].type = "object")
ServedAbove(i, n) ==
  \A j \in Pos : j > i /\ Waits(j) /\ stack[j].sd = n =>
     Served(j, n) \/ (j = Len(stack) /\ Pending(n))

\* Each worker works for one query, those that can go on for the innermost
\* call.
WorkersOK(n) ==
  \A w \in proc[n].workers :
     /\ pd[ProbeOf[w.obj]] = n /\ w.id < proc[n].next_id
     /\ \A u \in proc[n].workers : (u.id = w.id \/ u.obj = w.obj) => u = w
     /\ w.pc # "wait" => stack # <<>> /\ Serves(w, Len(stack), n)
     /\ \E i \in Pos : Serves(w, i, n) /\ ~stack[i].skip /\ ServedAbove(i, n)

LinkOK(n) == ToOK(n) /\ FromOK(n) /\ WorkersOK(n)
LinkInv == \A n \in Sds : LinkOK(n)

SeesMembers(n, o) == \A m \in SeqRange(Members[o]) : Cached(n, m)

\* What is left of the members of w, if it is not yet at its filters.
MembersLeft(n, w) ==
  /\ SeqRange(w.todo) \subseteq SeqRange(Members[w.obj])
  /\ \A m \in SeqRange(Members[w.obj]) : Cached(n, m) \/ m \in SeqRange(w.todo)
FiltersLeft(n, w) ==
  SeqRange(w.todo) \subseteq SeqRange(Filters[w.obj]) /\ SeesMembers(n, w.obj)

\* What a worker has done and what it has left to do.
TodoOK(n, w) ==
  /\ SeqRange(w.missing) \subseteq SeqRange(Filters[w.obj])
  /\ w.pc = "members" => w.missing = <<>> /\ MembersLeft(n, w)
  /\ w.pc = "filters" => FiltersLeft(n, w)
  /\ w.pc \in {"wait", "answered"} =>
       IF w.missing = <<>> THEN w.todo # <<>> /\ MembersLeft(n, w)
                           ELSE FiltersLeft(n, w)
  /\ w.pc \in {"result", "reply"} =>
       w.flag \in Results /\ (w.flag = "error" \/ SeesMembers(n, w.obj))
TodoInv == \A n \in Sds : \A w \in proc[n].workers : TodoOK(n, w)

\* The cache of a process fits its workers and the flags of the variables.
WorkersCached(n) ==
  \A w \in proc[n].workers :
     IF w.pc = "reply" THEN proc[n].rcache[w.obj] = w.flag ELSE ~Cached(n, w.obj)
CacheOK(n) ==
  \A o \in Objects :
     /\ proc[n].rcache[o] # "state"
     /\ Cached(n, o) /\ proc[n].rcache[o] # "does_not_exist" => AllUsable(o)
CacheInv == \A n \in Sds : WorkersCached(n) /\ CacheOK(n)

StackInv == ShapeInv /\ RankInv /\ ReturnInv /\ QueryInv

IInv == /\ TypeOK /\ StackInv /\ DescInv /\ LinkInv /\ TodoInv /\ CacheInv
        /\ ReportsCachedResult /\ SetsSeeMembers

-----------------------------------------------------------------------------
(* The stack of calls.                                                     *)

\* Positions of the stack and the call at the last one.
LEMMA StackFacts ==
  ASSUME TypeOK
  PROVE  /\ Len(stack) \in Nat /\ Pos = 1 .. Len(stack)
         /\ \A i \in Pos : stack[i] \in Frame
         /\ stack # <<>> => /\ Len(stack) \in Pos /\ Len(stack) >= 1
                            /\ Top = stack[Len(stack)] /\ Top \in Frame
         /\ stack = <<>> => Len(stack) = 0
<1>1. stack \in Seq(Frame)
  BY DEF TypeOK
<1>2. QED
  BY <1>1, LenProperties, EmptySeq DEF Pos, Top

\* What a call leaves on the stack when it, and maybe some above it, ends.
LEMMA PopFacts ==
  ASSUME TypeOK, NEW k \in 0 .. Len(stack), stack' = SubSeq(stack, 1, k)
  PROVE  /\ stack' \in Seq(Frame) /\ Len(stack') = k /\ Pos' = 1 .. k
         /\ \A i \in 1 .. k : i \in Pos /\ stack'[i] = stack[i]
         /\ k > 0 => stack' # <<>> /\ Top' = stack[k]
         /\ k = 0 => stack' = <<>>
<1>1. \A i \in 1 .. k : stack[i] \in Frame /\ i \in Pos
  BY StackFacts
<1>2. /\ stack' \in Seq(Frame)
      /\ Len(stack') = IF 1 <= k THEN k - 1 + 1 ELSE 0
      /\ \A i \in 1 .. k - 1 + 1 : stack'[i] = stack[1 + i - 1]
  <2> DEFINE s == SubSeq(stack, 1, k)
  <2>1. /\ s \in Seq(Frame)
        /\ Len(s) = IF 1 <= k THEN k - 1 + 1 ELSE 0
        /\ \A i \in 1 .. k - 1 + 1 : s[i] = stack[1 + i - 1]
    BY <1>1, SubSeqProperties, StackFacts
  <2>2. QED
    BY <2>1
<1>3. k \in Nat
  BY StackFacts
<1>4. Len(stack') = k
  BY <1>2, <1>3
<1>5. \A i \in 1 .. k : stack'[i] = stack[i]
  BY <1>2, <1>3
<1>6. Pos' = 1 .. k
  BY <1>2, <1>4, LenProperties DEF Pos
<1>7. k > 0 => stack' # <<>> /\ Top' = stack[k]
  BY <1>3, <1>4, <1>5, EmptySeq DEF Top
<1>8. k = 0 => stack' = <<>>
  BY <1>2, <1>4, EmptySeq
<1>9. QED
  BY <1>1, <1>2, <1>4, <1>5, <1>6, <1>7, <1>8

\* The innermost call goes on as f.
LEMMA BecomeFacts ==
  ASSUME TypeOK, stack # <<>>, NEW f \in Frame, Become(f)
  PROVE  /\ stack' \in Seq(Frame) /\ Len(stack') = Len(stack) /\ Pos' = Pos
         /\ \A i \in Pos : i # Len(stack) => stack'[i] = stack[i]
         /\ stack' # <<>> /\ Top' = f /\ stack'[Len(stack)] = f
<1>1. Len(stack) \in Nat /\ Len(stack) >= 1
  BY StackFacts
<1>2. \A i \in 1 .. Len(stack) - 1 : stack[i] \in Frame
  BY StackFacts
<1>3. /\ Below \in Seq(Frame) /\ Len(Below) = Len(stack) - 1
      /\ \A i \in 1 .. Len(stack) - 1 : Below[i] = stack[i]
  <2>1. /\ Below \in Seq(Frame)
        /\ Len(Below) = IF 1 <= Len(stack) - 1 THEN (Len(stack) - 1) - 1 + 1 ELSE 0
        /\ \A i \in 1 .. (Len(stack) - 1) - 1 + 1 : Below[i] = stack[1 + i - 1]
    BY <1>1, <1>2, SubSeqProperties DEF Below
  <2>2. \A l \in Nat : l >= 1 => (IF 1 <= l - 1 THEN (l - 1) - 1 + 1 ELSE 0) = l - 1
    OBVIOUS
  <2>3. (Len(stack) - 1) - 1 + 1 = Len(stack) - 1 
        /\ \A i \in 1 .. Len(stack) - 1 : 1 + i - 1 = i
    BY <1>1
  <2>4. Len(Below) = Len(stack) - 1
    BY <1>1, <2>1, <2>2
  <2>5. QED
    BY <2>1, <2>3, <2>4
<1>4. stack' = Append(Below, f)
  BY DEF Become
<1>5. /\ stack' \in Seq(Frame) /\ stack' # <<>>
      /\ Len(stack') = Len(Below) + 1
      /\ \A i \in 1 .. Len(Below) : stack'[i] = Below[i]
      /\ stack'[Len(Below) + 1] = f
  BY <1>3, <1>4, AppendProperties
<1>6. Len(stack') = Len(stack) /\ stack'[Len(stack)] = f
  BY <1>1, <1>3, <1>5
<1>7. Pos' = Pos
  BY <1>5, <1>6, LenProperties, StackFacts DEF Pos
<1>8. \A i \in Pos : i # Len(stack) => stack'[i] = stack[i]
  BY <1>1, <1>3, <1>5, StackFacts
<1>9. QED
  BY <1>5, <1>6, <1>7, <1>8 DEF Top

\* A call g is made.
LEMMA CallFacts ==
  ASSUME TypeOK, NEW f \in Frame, Call(f)
  PROVE  /\ stack' \in Seq(Frame) /\ Len(stack') = Len(stack) + 1
         /\ Pos' = 1 .. Len(stack) + 1
         /\ \A i \in Pos : stack'[i] = stack[i]
         /\ stack' # <<>> /\ Top' = f /\ stack'[Len(stack) + 1] = f
<1>1. stack \in Seq(Frame)
  BY DEF TypeOK
<1>2. /\ stack' \in Seq(Frame) /\ stack' # <<>>
      /\ Len(stack') = Len(stack) + 1
      /\ \A i \in 1 .. Len(stack) : stack'[i] = stack[i]
      /\ stack'[Len(stack) + 1] = f
  BY <1>1, AppendProperties DEF Call
<1>3. QED
  BY <1>2, LenProperties, StackFacts DEF Pos, Top

\* The elements of a sequence.
LEMMA RangeFacts ==
  ASSUME NEW T, NEW s \in Seq(T)
  PROVE  /\ SeqRange(s) \subseteq T
         /\ \A i \in 1 .. Len(s) : s[i] \in SeqRange(s)
         /\ s = <<>> => SeqRange(s) = {}
         /\ s # <<>> =>
              /\ Head(s) = s[1] /\ Head(s) \in SeqRange(s)
              /\ Tail(s) \in Seq(T) /\ Len(Tail(s)) = Len(s) - 1
              /\ SeqRange(s) = {Head(s)} \cup SeqRange(Tail(s))
<1>1. DOMAIN s = 1 .. Len(s) /\ Len(s) \in Nat
  BY LenProperties
<1>2. SeqRange(s) \subseteq T /\ \A i \in 1 .. Len(s) : s[i] \in SeqRange(s)
  BY <1>1, ElementOfSeq DEF SeqRange
<1>3. s = <<>> => SeqRange(s) = {}
  BY <1>1, EmptySeq DEF SeqRange
<1>4. ASSUME s # <<>>
      PROVE  /\ Head(s) = s[1] /\ Head(s) \in SeqRange(s)
             /\ Tail(s) \in Seq(T) /\ Len(Tail(s)) = Len(s) - 1
             /\ SeqRange(s) = {Head(s)} \cup SeqRange(Tail(s))
  <2>1. Len(s) >= 1 /\ Head(s) = s[1]
    BY <1>1, <1>4, EmptySeq
  <2>2. /\ Tail(s) \in Seq(T) /\ Len(Tail(s)) = Len(s) - 1
        /\ \A i \in 1 .. Len(s) - 1 : Tail(s)[i] = s[i + 1]
    BY <1>4, HeadTailProperties
  <2>3. DOMAIN Tail(s) = 1 .. Len(s) - 1
    BY <2>2, LenProperties
  <2>4. SeqRange(s) = {Head(s)} \cup SeqRange(Tail(s))
    <3>1. ASSUME NEW x \in SeqRange(s)
          PROVE  x \in {Head(s)} \cup SeqRange(Tail(s))
      <4>1. PICK i \in 1 .. Len(s) : x = s[i]
        BY <3>1, <1>1 DEF SeqRange
      <4>2. CASE i = 1
        BY <4>1, <4>2, <2>1
      <4>3. CASE i > 1
        <5>1. i - 1 \in DOMAIN Tail(s) /\ Tail(s)[i - 1] = x
          BY <4>1, <4>3, <2>2, <2>3, <1>1
        <5>2. QED
          BY <5>1 DEF SeqRange
      <4>4. QED
        BY <4>1, <4>2, <4>3, <1>1
    <3>2. ASSUME NEW x \in {Head(s)} \cup SeqRange(Tail(s))
          PROVE  x \in SeqRange(s)
      <4>1. CASE x = Head(s)
        BY <4>1, <2>1, <1>2, <1>1
      <4>2. ASSUME NEW i \in DOMAIN Tail(s), x = Tail(s)[i]
            PROVE  x \in SeqRange(s)
        <5>1. i + 1 \in 1 .. Len(s) /\ x = s[i + 1]
          BY <4>2, <2>2, <2>3, <1>1
        <5>2. QED
          BY <5>1, <1>2
      <4>3. QED
        BY <3>2, <4>1, <4>2 DEF SeqRange
    <3>3. QED
      BY <3>1, <3>2
  <2>5. QED
    BY <2>1, <2>2, <2>4, <1>1, <1>2
<1>5. QED
  BY <1>2, <1>3, <1>4
-----------------------------------------------------------------------------
(* Processes and messages.                                                 *)

\* The process behind one number is replaced.
LEMMA ProcessFacts ==
  ASSUME TypeOK, NEW n \in Sds, NEW x \in Processes, proc' = [proc EXCEPT ![n] = x]
  PROVE  /\ proc' \in [Sds -> Processes] /\ proc'[n] = x
         /\ \A k \in Sds : k # n => proc'[k] = proc[k]
<1>1. proc \in [Sds -> Processes]
  BY DEF TypeOK
<1>2. QED
  BY <1>1

\* The fields of a process.
LEMMA FieldFacts ==
  ASSUME NEW x \in Processes
  PROVE  /\ x.open \in BOOLEAN /\ x.alive \in BOOLEAN /\ x.reaped \in BOOLEAN
         /\ x.to \in Seq(Inbound) /\ x.from \in Seq(Outbound) /\ x.next_id \in Nat
         /\ x.workers \in SUBSET Workers
         /\ x.rcache \in [Objects \cup States -> Results \cup {"none", "state"}]
BY DEF Processes

\* A process with some of its fields replaced.
LEMMA RecordFacts ==
  ASSUME NEW x \in Processes
  PROVE  /\ \A t \in Seq(Inbound) : [x EXCEPT !.to = t] \in Processes
         /\ \A f \in Seq(Outbound) : [x EXCEPT !.from = f] \in Processes
         /\ \A i \in Nat : [x EXCEPT !.next_id = i] \in Processes
         /\ \A r \in BOOLEAN : [x EXCEPT !.reaped = r] \in Processes
         /\ \A ws \in SUBSET Workers : [x EXCEPT !.workers = ws] \in Processes
         /\ \A c \in [Objects \cup States -> Results \cup {"none", "state"}] :
              [x EXCEPT !.rcache = c] \in Processes
BY DEF Processes

\* Processes that have not started or have ended.
LEMMA NewFacts ==
  /\ NoProcess \in Processes /\ NewProcess \in Processes
  /\ \A x \in Processes : Dead(x) \in Processes
<1>1. <<>> \in Seq(Inbound) /\ <<>> \in Seq(Outbound)
  BY EmptySeq
<1>2. [k \in Objects \cup States |-> "none"] \in [Objects \cup States -> Results \cup {"none", "state"}]
  OBVIOUS
<1>3. NoProcess \in Processes
  BY <1>1, <1>2 DEF NoProcess, Processes
<1>4. NewProcess \in Processes
  BY <1>3 DEF NewProcess, Processes
<1>5. ASSUME NEW x \in Processes
      PROVE  Dead(x) \in Processes
  <2>1. x.from \in Seq(Outbound) /\ x.next_id \in Nat
    BY FieldFacts
  <2>2. QED
    BY <1>3, <2>1 DEF Dead, Processes
<1>6. QED
  BY <1>3, <1>4, <1>5

\* A queue that holds one message.
LEMMA OneFacts ==
  ASSUME NEW T, NEW s \in Seq(T)
  PROVE  /\ \A m \in T : s = <<>> => /\ Append(s, m) \in Seq(T) /\ Append(s, m) # <<>>
                                     /\ Len(Append(s, m)) = 1 /\ Append(s, m)[1] = m
         /\ s # <<>> => Head(s) = s[1] /\ Head(s) \in T /\ Tail(s) \in Seq(T)
         /\ s # <<>> /\ Len(s) = 1 => Tail(s) = <<>>
<1>1. ASSUME NEW m \in T, s = <<>>
      PROVE  /\ Append(s, m) \in Seq(T) /\ Append(s, m) # <<>>
             /\ Len(Append(s, m)) = 1 /\ Append(s, m)[1] = m
  <2>1. Len(s) = 0
    BY <1>1, EmptySeq
  <2>2. /\ Append(s, m) \in Seq(T) /\ Append(s, m) # <<>>
        /\ Len(Append(s, m)) = Len(s) + 1
        /\ Append(s, m)[Len(s) + 1] = m
    BY AppendProperties
  <2>3. QED
    BY <2>1, <2>2
<1>2. ASSUME s # <<>>
      PROVE  Head(s) = s[1] /\ Head(s) \in T /\ Tail(s) \in Seq(T) /\ Len(Tail(s)) = Len(s) - 1
  BY <1>2, HeadTailProperties, RangeFacts
<1>3. ASSUME s # <<>>, Len(s) = 1
      PROVE  Tail(s) = <<>>
  <2>1. Len(Tail(s)) = 0 /\ Tail(s) \in Seq(T)
    BY <1>2, <1>3
  <2>2. QED
    BY <2>1, EmptySeq
<1>4. QED
  BY <1>1, <1>2, <1>3

\* The calls the library can make.
LEMMA FrameFacts ==
  ASSUME NEW o \in Objects
  PROVE  /\ Query(o) \in Frame /\ SlaveQuery(o) \in Frame
         /\ NewCall("criterion", o, "call") \in Frame
         /\ \A n \in Sds, i \in Nat :
              [NewCall("obj_eval", o, "call") EXCEPT !.sd = n, !.id = i] \in Frame
         /\ \A n \in Sds, i \in Nat, ss \in Seq(States) :
              [NewCall("ste_fetch", "none", "vars")
                 EXCEPT !.states = ss, !.sd = n, !.id = i] \in Frame
<1>1. <<>> \in Seq(Variables) /\ <<>> \in Seq(States)
  BY EmptySeq
<1>2. Query(o) \in Frame /\ SlaveQuery(o) \in Frame /\ NewCall("criterion", o, "call") \in Frame
  BY <1>1 DEF Query, SlaveQuery, NewCall, Frame
<1>3. \A n \in Sds, i \in Nat :
        [NewCall("obj_eval", o, "call") EXCEPT !.sd = n, !.id = i] \in Frame
  BY <1>1 DEF NewCall, Frame
<1>4. \A n \in Sds, i \in Nat, ss \in Seq(States) :
        [NewCall("ste_fetch", "none", "vars")
           EXCEPT !.states = ss, !.sd = n, !.id = i] \in Frame
  BY <1>1 DEF NewCall, Frame
<1>5. QED
  BY <1>2, <1>3, <1>4

\* The innermost call with some of its fields replaced.
LEMMA TopFacts ==
  ASSUME NEW f \in Frame, NEW vs \in Seq(Variables), NEW ss \in Seq(States),
         NEW n \in Sds, NEW i \in Nat
  PROVE  /\ [f EXCEPT !.pc = "vars", !.vars = vs] \in Frame
         /\ [f EXCEPT !.vars = vs] \in Frame
         /\ [f EXCEPT !.vars = vs, !.skip = TRUE] \in Frame
         /\ [f EXCEPT !.pc = "send"] \in Frame
         /\ [f EXCEPT !.pc = "recv", !.sd = n, !.id = i] \in Frame
         /\ [f EXCEPT !.vars = vs, !.states = ss] \in Frame
         /\ f.call \in {"criterion", "query", "obj_eval", "ste_fetch"}
         /\ f.obj \in Objects \cup {"none"} /\ f.slave \in BOOLEAN /\ f.skip \in BOOLEAN
         /\ f.vars \in Seq(Variables) /\ f.states \in Seq(States)
         /\ f.sd \in Sds \cup {NoSd} /\ f.id \in Nat
<1>1. [f EXCEPT !.pc = "vars", !.vars = vs] \in Frame
  BY DEF Frame
<1>2. [f EXCEPT !.vars = vs] \in Frame /\ [f EXCEPT !.vars = vs, !.skip = TRUE] \in Frame
  BY DEF Frame
<1>3. [f EXCEPT !.pc = "send"] \in Frame /\ [f EXCEPT !.pc = "recv", !.sd = n, !.id = i] \in Frame
  BY DEF Frame
<1>4. [f EXCEPT !.vars = vs, !.states = ss] \in Frame
  BY DEF Frame
<1>5. QED
  BY <1>1, <1>2, <1>3, <1>4 DEF Frame

\* The descriptors are numbers, and none of them is NoSd.
LEMMA SdFacts == NoSd \notin Sds /\ Sds \subseteq Nat
<1>1. Cardinality(Probes) \in Nat
  BY DocumentAssumption, FS_CardinalityType
<1>2. QED
  BY <1>1 DEF NoSd, Sds
-----------------------------------------------------------------------------
(* What the library does to the stack of calls.                            *)

\* The innermost call when it is a query.
LEMMA QueryTop ==
  ASSUME TypeOK, StackInv, stack # <<>>, Top.call = "query"
  PROVE  /\ Len(stack) \in Nat /\ Len(stack) >= 2 /\ Len(stack) \in Pos
         /\ Len(stack) - 1 \in Pos /\ IsQuery(Len(stack))
         /\ Top \in Frame /\ Top.obj \in Objects /\ Probe \in Probes
         /\ FrameOK(Top) /\ Makes(stack[Len(stack) - 1], Top)
<1>1. Len(stack) \in Nat /\ Len(stack) >= 1 /\ Len(stack) \in Pos /\ Top = stack[Len(stack)]
      /\ Top \in Frame /\ Pos = 1 .. Len(stack)
  BY StackFacts
<1>2. FrameOK(Top) /\ (Len(stack) > 1 <=> Top.call # "criterion")
  BY <1>1 DEF StackInv, ShapeInv
<1>3. Len(stack) > 1
  BY <1>2
<1>4. Len(stack) >= 2
  BY <1>1, <1>3
<1>5. Makes(stack[Len(stack) - 1], Top)
  BY <1>1, <1>4 DEF StackInv, ShapeInv
<1>6. Top.obj \in Objects
  BY <1>2 DEF FrameOK
<1>7. Probe \in Probes
  BY <1>6, DocumentAssumption DEF Probe
<1>8. Len(stack) - 1 \in Pos
  BY <1>1, <1>4
<1>9. QED
  BY <1>1, <1>2, <1>4, <1>5, <1>6, <1>7, <1>8 DEF IsQuery

\* The innermost call when it serves a command, and the query below it.
LEMMA CommandTop ==
  ASSUME TypeOK, StackInv, stack # <<>>, Top.call \in {"obj_eval", "ste_fetch"}
  PROVE  /\ Len(stack) \in Nat /\ Len(stack) >= 3 /\ Len(stack) \in Pos
         /\ Len(stack) - 1 \in Pos /\ Len(stack) - 2 \in Pos
         /\ Top \in Frame /\ FrameOK(Top) /\ Top.sd \in Sds /\ Top.id \in Nat
         /\ Outer = stack[Len(stack) - 1] /\ Outer \in Frame /\ FrameOK(Outer)
         /\ Outer.obj \in Objects /\ Waits(Len(stack) - 1)
         /\ Makes(Outer, Top) /\ Makes(stack[Len(stack) - 2], Outer)
         /\ Outer.sd = Top.sd /\ Outer.id = Top.id /\ ~Waits(Len(stack))
<1>1. Len(stack) \in Nat /\ Len(stack) >= 1 /\ Len(stack) \in Pos /\ Top = stack[Len(stack)]
      /\ Top \in Frame /\ Pos = 1 .. Len(stack)
  BY StackFacts
<1>2. FrameOK(Top) /\ (Len(stack) > 1 <=> Top.call # "criterion")
  BY <1>1 DEF StackInv, ShapeInv
<1>3. Len(stack) > 1
  BY <1>2
<1>4. Len(stack) >= 2
  BY <1>1, <1>3
<1>5. Makes(Outer, Top) /\ Len(stack) - 1 \in Pos
  BY <1>1, <1>4 DEF StackInv, ShapeInv, Outer
<1>6. /\ Outer.call = "query" /\ Outer.pc = "recv"
      /\ Outer.sd = Top.sd /\ Outer.id = Top.id
  BY <1>5 DEF Makes
<1>7. /\ Outer = stack[Len(stack) - 1] /\ Outer \in Frame
      /\ FrameOK(Outer) /\ (Len(stack) - 1 > 1 <=> Outer.call # "criterion")
  BY <1>5, StackFacts DEF StackInv, ShapeInv, Outer
<1>8. Len(stack) - 1 > 1
  BY <1>6, <1>7
<1>9. Len(stack) >= 3
  BY <1>1, <1>4, <1>8
<1>10. Len(stack) - 2 \in Pos /\ Makes(stack[Len(stack) - 2], Outer)
  <2>1. Len(stack) - 2 \in Pos /\ Len(stack) - 1 > 1 /\ (Len(stack) - 1) - 1 = Len(stack) - 2
    BY <1>1, <1>9
  <2>2. Makes(stack[(Len(stack) - 1) - 1], stack[Len(stack) - 1])
    BY <2>1, <1>5 DEF StackInv, ShapeInv
  <2>3. QED
    BY <2>1, <2>2, <1>7
<1>11. Top.sd \in Sds /\ Top.id \in Nat /\ Outer.obj \in Objects
  BY <1>1, <1>2, <1>6, <1>7 DEF FrameOK, Frame
<1>12. Waits(Len(stack) - 1) /\ ~Waits(Len(stack))
  BY <1>1, <1>6, <1>7 DEF Waits, IsQuery
<1>13. QED
  BY <1>1, <1>2, <1>5, <1>6, <1>7, <1>9, <1>10, <1>11, <1>12

\* What a query, or a state sent to a probe, depends on has a lower rank than
\* any query that is not finished.
LEMMA ReadsLower ==
  ASSUME TypeOK, StackInv, stack # <<>>, Top.pc = "vars", Top.vars # <<>>
  PROVE  /\ Head(Top.vars) \in Variables /\ VarObject[Head(Top.vars)] \in Objects
         /\ \A i \in Pos : IsQuery(i) =>
              Rank[VarObject[Head(Top.vars)]] < Rank[stack[i].obj]
<1> DEFINE v == Head(Top.vars)
           u == VarObject[v]
<1>1. Top \in Frame /\ Top.vars \in Seq(Variables) /\ Len(stack) \in Nat /\ Len(stack) \in Pos
      /\ Pos = 1 .. Len(stack) /\ Top = stack[Len(stack)] /\ FrameOK(Top)
      /\ (Len(stack) > 1 <=> Top.call # "criterion")
  BY StackFacts DEF Frame, StackInv, ShapeInv
<1>2. v \in Variables /\ v \in SeqRange(Top.vars) /\ u \in Objects
  BY <1>1, RangeFacts, DocumentAssumption
<1>3. \A i \in Pos : IsQuery(i) => stack[i].obj \in Objects /\ Rank[stack[i].obj] \in Nat
  BY DocumentAssumption DEF StackInv, ShapeInv, FrameOK, IsQuery
<1>4. Rank[u] \in Nat
  BY <1>2, DocumentAssumption
<1>5. CASE Top.call = "criterion"
  <2>1. \A i \in Pos : ~IsQuery(i)
    BY <1>1, <1>5 DEF StackInv, ShapeInv, IsQuery
  <2>2. QED
    BY <1>2, <2>1
<1>6. ASSUME NEW k \in Pos, IsQuery(k), u \in Needs(stack[k].obj),
             \A i \in Pos : IsQuery(i) => i <= k
      PROVE  \A i \in Pos : IsQuery(i) => Rank[u] < Rank[stack[i].obj]
  <2>1. Rank[u] < Rank[stack[k].obj]
    BY <1>6, <1>3, DocumentAssumption
  <2>2. \A i \in Pos : IsQuery(i) /\ i < k => Rank[stack[k].obj] < Rank[stack[i].obj]
    BY <1>6 DEF StackInv, RankInv
  <2>3. k \in Nat /\ \A i \in Pos : i \in Nat /\ (i <= k => i = k \/ i < k)
    BY <1>1
  <2>4. QED
    BY <2>1, <2>2, <2>3, <1>3, <1>4, <1>6
<1>7. CASE Top.call = "query"
  <2>1. v \in SeqRange(VarRefs[Top.obj])
    BY <1>1, <1>2, <1>7, RangeFacts DEF StackInv, QueryInv, QueryOK, IsQuery
  <2>2. u \in Needs(Top.obj)
    BY <2>1 DEF Needs, VarObjects
  <2>3. \A i \in Pos : i <= Len(stack)
    BY <1>1
  <2>4. QED
    BY <1>1, <1>2, <1>6, <1>7, <2>2, <2>3 DEF IsQuery
<1>8. CASE Top.call = "ste_fetch"
  <2>1. Len(stack) - 1 \in Pos /\ Makes(stack[Len(stack) - 1], Top)
        /\ IsQuery(Len(stack) - 1)
    BY <1>8, CommandTop DEF Waits
  <2>2. u \in Needs(stack[Len(stack) - 1].obj)
    BY <2>1, <1>2, <1>8 DEF Makes, VarObjects
  <2>3. \A i \in Pos : IsQuery(i) => i <= Len(stack) - 1
    BY <1>1, <1>8 DEF IsQuery
  <2>4. QED
    BY <1>2, <1>6, <2>1, <2>2, <2>3
<1>9. Top.call # "obj_eval"
  BY <1>1 DEF FrameOK
<1>10. QED
  BY <1>1, <1>5, <1>7, <1>8, <1>9 DEF Frame

\* Calls end: the innermost k remain.
LEMMA StackPopped ==
  ASSUME TypeOK, StackInv, NEW k \in 0 .. Len(stack), stack' = SubSeq(stack, 1, k),
         varflag' = varflag,
         \A i \in 1 .. k : IsQuery(i) => flag'[stack[i].obj] = flag[stack[i].obj],
         ret' # "none" => k > 0 /\ Expects(stack[k]),
         ret' = "ok" /\ k > 0 /\ stack[k].pc = "vars"
            => flag'[VarObject[Head(stack[k].vars)]] \in Flags
  PROVE  StackInv'
<1>1. /\ stack' \in Seq(Frame) /\ Len(stack') = k /\ Pos' = 1 .. k
      /\ \A i \in 1 .. k : i \in Pos /\ stack'[i] = stack[i]
      /\ k > 0 => stack' # <<>> /\ Top' = stack[k]
  BY PopFacts
<1>2. ShapeInv'
  <2>1. \A i \in Pos' : FrameOK(stack'[i]) /\ (i > 1 <=> stack'[i].call # "criterion")
    BY <1>1 DEF StackInv, ShapeInv
  <2>2. \A i \in Pos' : i > 1 => Makes(stack[i - 1], stack[i])
    BY <1>1 DEF StackInv, ShapeInv
  <2>3. \A f, g : Makes(f, g)' <=> Makes(f, g)
    BY DEF Makes
  <2>4. \A i \in Pos' : i > 1 => Makes(stack[i - 1], stack[i])'
    <3>1. ASSUME NEW i \in Pos', i > 1
          PROVE  Makes(stack[i - 1], stack[i])'
      <4>1. i \in 1 .. k /\ i - 1 \in 1 .. k
        BY <1>1, <3>1
      <4>2. stack'[i] = stack[i] /\ stack'[i - 1] = stack[i - 1]
        BY <1>1, <4>1
      <4>3. QED
        BY <4>2, <2>2, <2>3, <3>1
    <3>2. QED
      BY <3>1
  <2>5. ret' # "none" => stack' # <<>> /\ Expects(Top)'
    BY <1>1 DEF Expects
  <2>6. QED
    BY <2>1, <2>4, <2>5 DEF ShapeInv
<1>3. RankInv'
  BY <1>1 DEF StackInv, RankInv, IsQuery
<1>4. QueryInv'
  <2>1. ASSUME NEW i \in Pos', IsQuery(i)'
        PROVE  QueryOK(stack[i])'
    <3>1. i \in Pos /\ stack'[i] = stack[i] /\ IsQuery(i) /\ i \in 1 .. k
      BY <1>1, <2>1 DEF IsQuery
    <3>2. QueryOK(stack[i]) /\ flag'[stack[i].obj] = flag[stack[i].obj]
      BY <3>1 DEF StackInv, QueryInv
    <3>3. QED
      BY <3>1, <3>2 DEF QueryOK, Unusable, Usable
  <2>2. QED
    BY <2>1 DEF QueryInv
<1>5. ReturnInv'
  BY <1>1 DEF ReturnInv, Reading
<1>6. QED
  BY <1>2, <1>3, <1>4, <1>5 DEF StackInv

\* The innermost call goes on as f.
LEMMA StackChanged ==
  ASSUME TypeOK, StackInv, stack # <<>>, NEW f \in Frame, Become(f),
         varflag' = varflag, ret' = "none",
         \A i \in Pos : IsQuery(i) /\ i < Len(stack)
            => flag'[stack[i].obj] = flag[stack[i].obj],
         FrameOK(f), f.call = Top.call, f.obj = Top.obj,
         Len(stack) > 1 => Makes(stack[Len(stack) - 1], f),
         f.call = "query" => QueryOK(f)'
  PROVE  StackInv'
<1>1. /\ stack' \in Seq(Frame) /\ Len(stack') = Len(stack) /\ Pos' = Pos
      /\ \A i \in Pos : i # Len(stack) => stack'[i] = stack[i]
      /\ stack' # <<>> /\ Top' = f /\ stack'[Len(stack)] = f
  BY BecomeFacts
<1>2. /\ Pos = 1 .. Len(stack) /\ Len(stack) \in Nat /\ Len(stack) \in Pos
      /\ Top = stack[Len(stack)]
  BY StackFacts
<1>3. \A i \in Pos : stack'[i].call = stack[i].call /\ stack'[i].obj = stack[i].obj
  BY <1>1, <1>2
<1>4. ShapeInv'
  <2>1. \A i \in Pos' : FrameOK(stack'[i]) /\ (i > 1 <=> stack'[i].call # "criterion")
    BY <1>1, <1>3 DEF StackInv, ShapeInv
  <2>2. \A g, h : Makes(g, h)' <=> Makes(g, h)
    BY DEF Makes
  <2>3. ASSUME NEW i \in Pos', i > 1
        PROVE  Makes(stack[i - 1], stack[i])'
    <3>1. i \in Pos /\ i - 1 \in Pos /\ i - 1 # Len(stack) /\ Makes(stack[i - 1], stack[i])
      BY <1>1, <1>2, <2>3 DEF StackInv, ShapeInv
    <3>2. stack'[i - 1] = stack[i - 1]
      BY <1>1, <3>1
    <3>3. CASE i = Len(stack)
      <4>1. Makes(stack[i - 1], stack'[i])
        BY <1>1, <2>3, <3>3
      <4>2. QED
        BY <2>2, <3>2, <4>1
    <3>4. CASE i # Len(stack)
      <4>1. stack'[i] = stack[i]
        BY <1>1, <3>1, <3>4
      <4>2. QED
        BY <2>2, <3>1, <3>2, <4>1
    <3>5. QED
      BY <3>3, <3>4
  <2>4. QED
    BY <2>1, <2>3, <1>1 DEF ShapeInv
<1>5. RankInv'
  BY <1>1, <1>3 DEF StackInv, RankInv, IsQuery
<1>6. QueryInv'
  <2>1. ASSUME NEW i \in Pos', IsQuery(i)'
        PROVE  QueryOK(stack[i])'
    <3>1. CASE i = Len(stack)
      BY <1>1, <2>1, <3>1 DEF IsQuery
    <3>2. CASE i # Len(stack)
      <4>1. stack'[i] = stack[i] /\ i \in Pos /\ i < Len(stack) /\ IsQuery(i)
        BY <1>1, <1>2, <2>1, <3>2 DEF IsQuery
      <4>2. QueryOK(stack[i]) /\ flag'[stack[i].obj] = flag[stack[i].obj]
        BY <4>1 DEF StackInv, QueryInv
      <4>3. QED
        BY <4>1, <4>2 DEF QueryOK, Unusable, Usable
    <3>3. QED
      BY <3>1, <3>2
  <2>2. QED
    BY <2>1 DEF QueryInv
<1>7. ReturnInv'
  BY DEF ReturnInv
<1>8. QED
  BY <1>4, <1>5, <1>6, <1>7 DEF StackInv

\* Calls are made, at most one of them a query.
LEMMA StackGrown ==
  ASSUME TypeOK, StackInv, stack' \in Seq(Frame), Pos' = 1 .. Len(stack'),
         Len(stack') \in Nat, Len(stack') >= Len(stack), Len(stack') > 0,
         \A i \in Pos : stack'[i] = stack[i],
         varflag' = varflag, flag' = flag, ret' = "none",
         \A i \in Pos' : i > Len(stack) =>
            /\ FrameOK(stack'[i])
            /\ i > 1 <=> stack'[i].call # "criterion"
            /\ i > 1 => Makes(stack'[i - 1], stack'[i])
            /\ stack'[i].call = "query" =>
                 /\ QueryOK(stack'[i])
                 /\ \A j \in Pos' : j > Len(stack) /\ stack'[j].call = "query" => j = i
                 /\ \A j \in Pos : IsQuery(j)
                      => Rank[stack'[i].obj] < Rank[stack[j].obj]
  PROVE  StackInv'
<1>1. Pos = 1 .. Len(stack) /\ Len(stack) \in Nat
  BY StackFacts
<1>2. \A i \in Pos' : (i \in Pos /\ i <= Len(stack)) \/ i > Len(stack)
  BY <1>1
<1>3. ShapeInv'
  <2>1. \A i \in Pos' : FrameOK(stack'[i]) /\ (i > 1 <=> stack'[i].call # "criterion")
    BY <1>2 DEF StackInv, ShapeInv
  <2>2. \A g, h : Makes(g, h)' <=> Makes(g, h)
    BY DEF Makes
  <2>3. ASSUME NEW i \in Pos', i > 1
        PROVE  Makes(stack[i - 1], stack[i])'
    <3>1. CASE i > Len(stack)
      BY <2>2, <2>3, <3>1
    <3>2. CASE i \in Pos
      <4>1. i - 1 \in Pos /\ Makes(stack[i - 1], stack[i])
        BY <1>1, <2>3, <3>2 DEF StackInv, ShapeInv
      <4>2. stack'[i - 1] = stack[i - 1] /\ stack'[i] = stack[i]
        BY <3>2, <4>1
      <4>3. QED
        BY <2>2, <4>1, <4>2
    <3>3. QED
      BY <1>2, <3>1, <3>2
  <2>4. stack' # <<>>
    BY EmptySeq
  <2>5. QED
    BY <2>1, <2>3, <2>4 DEF ShapeInv
<1>4. RankInv'
  <2>1. ASSUME NEW i \in Pos', NEW j \in Pos', IsQuery(i)', IsQuery(j)', i < j
        PROVE  Rank[stack'[j].obj] < Rank[stack'[i].obj]
    <3>1. stack'[i].call = "query" /\ stack'[j].call = "query"
      BY <2>1 DEF IsQuery
    <3>2. CASE i \in Pos /\ j \in Pos
      BY <2>1, <3>1, <3>2 DEF StackInv, RankInv, IsQuery
    <3>3. CASE j > Len(stack)
      <4>1. i \in Pos
        <5>1. SUFFICES ASSUME i > Len(stack)
                       PROVE  FALSE
          BY <1>2
        <5>2. i = j
          BY <3>1, <3>3, <5>1
        <5>3. QED
          BY <2>1, <5>2, <1>1
      <4>2. QED
        BY <3>1, <3>3, <4>1 DEF IsQuery
    <3>4. i \in Nat /\ j \in Nat
      BY <1>1
    <3>5. QED
      BY <1>1, <1>2, <2>1, <3>2, <3>3, <3>4
  <2>2. QED
    BY <2>1 DEF RankInv
<1>5. QueryInv'
  <2>1. ASSUME NEW i \in Pos', IsQuery(i)'
        PROVE  QueryOK(stack[i])'
    <3>1. QueryOK(stack'[i])
      BY <1>2, <2>1 DEF StackInv, QueryInv, IsQuery
    <3>2. QED
      BY <3>1 DEF QueryOK, Unusable, Usable
  <2>2. QED
    BY <2>1 DEF QueryInv
<1>6. ReturnInv'
  BY DEF ReturnInv
<1>7. QED
  BY <1>3, <1>4, <1>5, <1>6 DEF StackInv
-----------------------------------------------------------------------------
(* What the steps of the library do to the processes.                      *)

\* The descriptor of a probe that is connected.
LEMMA PdFacts ==
  ASSUME TypeOK, NEW p \in Probes, pd[p] # NoSd
  PROVE  pd[p] \in Sds /\ proc[pd[p]] \in Processes
BY DEF TypeOK

\* A message that has arrived for the innermost call.
LEMMA Arrival ==
  ASSUME IInv, Receiving, proc[Top.sd].from # <<>>, ~proc[Top.sd].reaped
  PROVE  /\ Top.sd \in Sds /\ Top.sd = pd[Probe] /\ Message = proc[Top.sd].from[1]
         /\ Message \in Outbound /\ Message.id = Top.id /\ Tail(proc[Top.sd].from) = <<>>
         /\ proc[Top.sd].to = <<>> /\ Quiet(Top.sd) /\ ReceivesOn(Top.sd)
         /\ Message.type = "result" =>
              /\ Message.flag \in Results
              /\ Top.skip => Message.flag = "does_not_exist"
              /\ proc[Top.sd].alive => proc[Top.sd].rcache[Top.obj] = Message.flag
         /\ Message.type \in {"result", "error"} => ~Served(Len(stack), Top.sd)
         /\ Message.type = "obj_eval" =>
              Len(Message.args) = 1 /\ Message.args[1] \in SeqRange(Members[Top.obj])
         /\ Message.type = "ste_fetch" =>
              /\ Message.args \in Seq(States)
              /\ SeqRange(Message.args) \subseteq SeqRange(Filters[Top.obj])
         /\ Message.type \in {"obj_eval", "ste_fetch"} /\ proc[Top.sd].alive
              => Served(Len(stack), Top.sd)
<1> DEFINE n == Top.sd
<1>1. TypeOK /\ StackInv /\ LinkInv /\ Top.call = "query" /\ Top.pc = "recv" /\ stack # <<>>
  BY DEF IInv, Receiving, At
<1>2. n \in Sds
  BY <1>1, QueryTop DEF FrameOK
<1>3. proc[n] \in Processes /\ proc[n].from \in Seq(Outbound)
  BY <1>1, <1>2, FieldFacts DEF TypeOK
<1>4. FromOK(n) /\ ToOK(n)
  BY <1>1, <1>2 DEF LinkInv, LinkOK
<1>5. Len(proc[n].from) = 1 /\ Message = proc[n].from[1] /\ Message \in Outbound
      /\ Tail(proc[n].from) = <<>>
  BY <1>3, <1>4, OneFacts DEF FromOK, Message
<1>6. proc[n].to = <<>>
  BY <1>4 DEF ToOK
<1>7. QED
  BY <1>2, <1>4, <1>5, <1>6 DEF FromOK

\* A message is taken.
LEMMA Taken ==
  ASSUME IInv, Receiving, proc[Top.sd].from # <<>>, ~proc[Top.sd].reaped, TakeMessage
  PROVE  /\ proc' \in [Sds -> Processes]
         /\ proc'[Top.sd] = [proc[Top.sd] EXCEPT !.from = <<>>]
         /\ \A k \in Sds : k # Top.sd => proc'[k] = proc[k]
<1>1. TypeOK /\ Top.sd \in Sds /\ Tail(proc[Top.sd].from) = <<>>
  BY Arrival DEF IInv
<1>2. proc[Top.sd] \in Processes /\ <<>> \in Seq(Outbound)
  BY <1>1, EmptySeq DEF TypeOK
<1>3. [proc[Top.sd] EXCEPT !.from = <<>>] \in Processes
  BY <1>2, RecordFacts, FieldFacts
<1>4. proc' = [proc EXCEPT ![Top.sd] = [proc[Top.sd] EXCEPT !.from = <<>>]]
  BY <1>1 DEF TakeMessage, TypeOK
<1>5. QED
  BY <1>1, <1>3, <1>4, ProcessFacts

\* The descriptor of a probe is closed.
LEMMA Closed ==
  ASSUME TypeOK, NEW p \in Probes, ClosePd(p)
  PROVE  /\ proc' \in [Sds -> Processes] /\ pd' \in [Probes -> Sds \cup {NoSd}]
         /\ pd'[p] = NoSd /\ \A q \in Probes : q # p => pd'[q] = pd[q]
         /\ \A k \in Sds : proc'[k] = IF k = pd[p] THEN NoProcess ELSE proc[k]
<1>1. pd' \in [Probes -> Sds \cup {NoSd}] /\ pd'[p] = NoSd
      /\ \A q \in Probes : q # p => pd'[q] = pd[q]
  BY DEF TypeOK, ClosePd
<1>2. CASE pd[p] = NoSd
  BY <1>1, <1>2, SdFacts DEF ClosePd, TypeOK
<1>3. CASE pd[p] # NoSd
  <2>1. pd[p] \in Sds
    BY <1>3, PdFacts
  <2>2. proc' = [proc EXCEPT ![pd[p]] = NoProcess]
    BY <1>3 DEF ClosePd
  <2>3. QED
    BY <1>1, <2>1, <2>2, ProcessFacts, NewFacts
<1>4. QED
  BY <1>2, <1>3

\* The end of a process is noticed.
LEMMA Reaped ==
  ASSUME TypeOK, NEW n \in Sds, Reap(n)
  PROVE  /\ proc' \in [Sds -> Processes]
         /\ proc'[n] = [proc[n] EXCEPT !.reaped = proc[n].open]
         /\ \A k \in Sds : k # n => proc'[k] = proc[k]
<1>1. proc[n] \in Processes
  BY DEF TypeOK
<1>2. [proc[n] EXCEPT !.reaped = proc[n].open] \in Processes
  BY <1>1, FieldFacts, RecordFacts
<1>3. QED
  BY <1>2, ProcessFacts DEF Reap

\* A probe is started.
LEMMA Connected ==
  ASSUME IInv, Connect
  PROVE  \E n \in Sds :
           /\ ~proc[n].open /\ pd[Probe] = NoSd /\ Probe \in Probes
           /\ proc' \in [Sds -> Processes] /\ pd' \in [Probes -> Sds \cup {NoSd}]
           /\ pd'[Probe] = n /\ \A q \in Probes : q # Probe => pd'[q] = pd[q]
           /\ proc'[n] = NewProcess
           /\ \A k \in Sds : k # n => proc'[k] = proc[k]
<1>1. TypeOK /\ Probe \in Probes
  BY QueryTop DEF IInv, Connect, At
<1>2. PICK n \in FreeSd : pd' = [pd EXCEPT ![Probe] = n] /\ proc' = [proc EXCEPT ![n] = NewProcess]
  BY DEF Connect
<1>3. n \in Sds /\ ~proc[n].open /\ pd[Probe] = NoSd
  BY <1>2 DEF FreeSd, Connect
<1>4. pd' \in [Probes -> Sds \cup {NoSd}] /\ pd'[Probe] = n
      /\ \A q \in Probes : q # Probe => pd'[q] = pd[q]
  BY <1>1, <1>2, <1>3 DEF TypeOK
<1>5. QED
  BY <1>1, <1>2, <1>3, <1>4, ProcessFacts, NewFacts

\* An object is sent to a probe that nothing else is on the way to.
LEMMA ObjectSent ==
  ASSUME IInv, SendObject, proc[pd[Probe]].to = <<>>
  PROVE  LET n == pd[Probe]
             m == ObjectMsg(proc[n].next_id, Top.obj, Top.skip)
         IN /\ n \in Sds /\ proc[n].alive /\ m \in Inbound
            /\ proc' \in [Sds -> Processes]
            /\ \A k \in Sds : k # n => proc'[k] = proc[k]
            /\ proc'[n].to # <<>> /\ Len(proc'[n].to) = 1 /\ proc'[n].to[1] = m
            /\ proc[n].next_id \in Nat /\ proc'[n].next_id = proc[n].next_id + 1
            /\ proc'[n].from = proc[n].from /\ proc'[n].workers = proc[n].workers
            /\ proc'[n].rcache = proc[n].rcache /\ proc'[n].open = proc[n].open
            /\ proc'[n].alive = proc[n].alive /\ proc'[n].reaped = proc[n].reaped
<1> DEFINE n == pd[Probe]
           m == ObjectMsg(proc[n].next_id, Top.obj, Top.skip)
           s == Append(proc[n].to, m)
<1>1. TypeOK /\ Probe \in Probes /\ Top \in Frame /\ Top.obj \in Objects
  BY QueryTop DEF IInv, SendObject, At
<1>2. n \in Sds /\ proc[n] \in Processes /\ proc[n].alive
  BY <1>1, PdFacts DEF SendObject
<1>3. proc[n].next_id \in Nat /\ proc[n].next_id + 1 \in Nat /\ proc[n].to \in Seq(Inbound)
  BY <1>2, FieldFacts
<1>4. m \in Inbound
  <2>1. Top.skip \in BOOLEAN
    BY <1>1 DEF Frame
  <2>2. QED
    BY <1>1, <1>3, <2>1 DEF ObjectMsg, Inbound
<1>5. s \in Seq(Inbound) /\ s # <<>> /\ Len(s) = 1 /\ s[1] = m
  BY <1>3, <1>4, OneFacts
<1> DEFINE x == [[proc[n] EXCEPT !.next_id = proc[n].next_id + 1] EXCEPT !.to = s]
<1>6. x \in Processes
  <2>1. [proc[n] EXCEPT !.next_id = proc[n].next_id + 1] \in Processes
    BY <1>2, <1>3, RecordFacts, FieldFacts
  <2>2. QED
    BY <2>1, <1>5, RecordFacts, FieldFacts
<1>7. proc' = [proc EXCEPT ![n] = x]
  BY <1>2 DEF SendObject, TypeOK, Processes
<1>8. /\ x.to = s /\ x.next_id = proc[n].next_id + 1 /\ x.from = proc[n].from
      /\ x.workers = proc[n].workers /\ x.rcache = proc[n].rcache /\ x.open = proc[n].open
      /\ x.alive = proc[n].alive /\ x.reaped = proc[n].reaped
  BY <1>2 DEF Processes
<1>9. proc' \in [Sds -> Processes] /\ proc'[n] = x /\ \A k \in Sds : k # n => proc'[k] = proc[k]
  BY <1>1, <1>2, <1>6, <1>7, ProcessFacts
<1> HIDE DEF x, s
<1>10. QED
  BY <1>2, <1>3, <1>4, <1>5, <1>8, <1>9

\* A command is answered.
LEMMA Replied ==
  ASSUME TypeOK, NEW n \in Sds, NEW id \in Nat, NEW ok \in BOOLEAN,
         proc[n].to = <<>>, Send(n, CommandReply(id, ok))
  PROVE  /\ proc' \in [Sds -> Processes]
         /\ \A k \in Sds : k # n => proc'[k] = proc[k]
         /\ proc'[n].to # <<>> /\ Len(proc'[n].to) = 1
         /\ proc'[n].to[1] = CommandReply(id, ok) /\ CommandReply(id, ok) \in Inbound
         /\ proc'[n].next_id = proc[n].next_id
         /\ proc'[n].from = proc[n].from /\ proc'[n].workers = proc[n].workers
         /\ proc'[n].rcache = proc[n].rcache /\ proc'[n].open = proc[n].open
         /\ proc'[n].alive = proc[n].alive /\ proc'[n].reaped = proc[n].reaped
<1> DEFINE m == CommandReply(id, ok)
           s == Append(proc[n].to, m)
           x == [proc[n] EXCEPT !.to = s]
<1>1. proc[n] \in Processes /\ proc[n].to \in Seq(Inbound)
  BY FieldFacts DEF TypeOK
<1>2. m \in Inbound
  BY DEF CommandReply, Inbound
<1>3. s \in Seq(Inbound) /\ s # <<>> /\ Len(s) = 1 /\ s[1] = m
  BY <1>1, <1>2, OneFacts
<1>4. x \in Processes
  BY <1>1, <1>3, RecordFacts, FieldFacts
<1>5. proc' = [proc EXCEPT ![n] = x]
  BY DEF Send
<1>6. /\ x.to = s /\ x.next_id = proc[n].next_id /\ x.from = proc[n].from
      /\ x.workers = proc[n].workers /\ x.rcache = proc[n].rcache /\ x.open = proc[n].open
      /\ x.alive = proc[n].alive /\ x.reaped = proc[n].reaped
  BY <1>1 DEF Processes
<1>7. proc' \in [Sds -> Processes] /\ proc'[n] = x /\ \A k \in Sds : k # n => proc'[k] = proc[k]
  BY <1>4, <1>5, ProcessFacts
<1> HIDE DEF x, s
<1>8. QED
  BY <1>2, <1>3, <1>6, <1>7
-----------------------------------------------------------------------------
(* Each step of the library keeps the invariant of the stack.              *)

StackOK == stack \in Seq(Frame) /\ StackInv

\* Queries that wait go on waiting, but for the innermost one maybe, and no
\* other begins to.
WaitsStay ==
  /\ \A i \in Pos' : Waits(i)' => i \in Pos /\ stack'[i] = stack[i]
  /\ \A i \in Pos : Waits(i) /\ i < Len(stack) => i \in Pos' /\ stack'[i] = stack[i]

\* The call below one that ends waits for it.
LEMMA Awaited ==
  ASSUME NEW f, NEW g, Makes(f, g), g.call = "query"
  PROVE  Expects(f)
BY DEF Makes, Expects

\* A query ends; only the flag of its object has changed.
LEMMA QueryReturns ==
  ASSUME TypeOK, StackInv, stack # <<>>, Top.call = "query", stack' = Below,
         varflag' = varflag,
         \A o \in Objects : o # Top.obj => flag'[o] = flag[o],
         ret' = "ok" /\ ~Top.slave => flag'[Top.obj] \in Flags
  PROVE  /\ StackOK' /\ WaitsStay
         /\ Len(stack') = Len(stack) - 1 /\ Pos' = 1 .. Len(stack) - 1
         /\ \A i \in Pos' : i \in Pos /\ stack'[i] = stack[i]
<1>1. /\ Len(stack) \in Nat /\ Len(stack) >= 2 /\ Len(stack) \in Pos /\ Pos = 1 .. Len(stack)
      /\ Top = stack[Len(stack)] /\ IsQuery(Len(stack))
      /\ Makes(stack[Len(stack) - 1], Top)
  BY QueryTop, StackFacts
<1> DEFINE k == Len(stack) - 1
<1>2. k \in 0 .. Len(stack) /\ k > 0 /\ stack' = SubSeq(stack, 1, k)
  BY <1>1 DEF Below
<1>3. Expects(stack[k])
  BY <1>1, Awaited
<1>4. \A i \in 1 .. k : IsQuery(i) => flag'[stack[i].obj] = flag[stack[i].obj]
  <2>1. ASSUME NEW i \in 1 .. k, IsQuery(i)
        PROVE  flag'[stack[i].obj] = flag[stack[i].obj]
    <3>1. i \in Pos /\ i < Len(stack)
      BY <1>1
    <3>2. Rank[Top.obj] < Rank[stack[i].obj]
      BY <1>1, <2>1, <3>1 DEF StackInv, RankInv
    <3>3. stack[i].obj \in Objects
      BY <2>1, <3>1 DEF StackInv, ShapeInv, FrameOK, IsQuery
    <3>4. Rank[stack[i].obj] \in Nat
      BY <3>3, DocumentAssumption
    <3>5. stack[i].obj # Top.obj
      BY <3>2, <3>4
    <3>6. QED
      BY <3>3, <3>5
  <2>2. QED
    BY <2>1
<1>5. StackInv'
  <2>1. stack[k].pc = "vars" =>
          ~Top.slave /\ Top.obj = VarObject[Head(stack[k].vars)]
    <3>1. FrameOK(stack[k])
      BY <1>1 DEF StackInv, ShapeInv
    <3>2. QED
      BY <1>1, <3>1 DEF Makes, FrameOK
  <2> HIDE DEF k
  <2>2. QED
    BY <1>2, <1>3, <1>4, <2>1, StackPopped
<1>6. stack' \in Seq(Frame) /\ Len(stack') = k /\ Pos' = 1 .. k
      /\ \A i \in 1 .. k : i \in Pos /\ stack'[i] = stack[i]
  BY <1>2, PopFacts
<1>7. WaitsStay
  BY <1>1, <1>6 DEF WaitsStay
<1>8. QED
  BY <1>5, <1>6, <1>7 DEF StackOK

\* Calls end and nothing is returned.
LEMMA CallsEnd ==
  ASSUME TypeOK, StackInv, stack # <<>>, stack' = Below, ret' = "none",
         varflag' = varflag, flag' = flag
  PROVE  /\ StackOK' /\ WaitsStay
         /\ Len(stack') = Len(stack) - 1 /\ Pos' = 1 .. Len(stack) - 1
         /\ \A i \in Pos' : i \in Pos /\ stack'[i] = stack[i]
<1> DEFINE k == Len(stack) - 1
<1>1. k \in 0 .. Len(stack) /\ stack' = SubSeq(stack, 1, k)
  BY StackFacts DEF Below
<1>2. StackInv'
  <2> HIDE DEF k
  <2>1. QED
    BY <1>1, StackPopped
<1>3. stack' \in Seq(Frame) /\ Len(stack') = k /\ Pos' = 1 .. k
      /\ \A i \in 1 .. k : i \in Pos /\ stack'[i] = stack[i]
  BY <1>1, PopFacts
<1>4. WaitsStay
  BY <1>3, StackFacts DEF WaitsStay
<1>5. QED
  BY <1>2, <1>3, <1>4 DEF StackOK

\* A test begins.
LEMMA EvaluateStack ==
  ASSUME IInv, NEW o \in Objects, Evaluate(o)
  PROVE  StackOK' /\ WaitsStay
<1> DEFINE f == NewCall("criterion", o, "call")
<1>1. TypeOK /\ StackInv /\ stack = <<>> /\ ret = "none" /\ Len(stack) <= 0 /\ Len(stack) \in Nat
      /\ Pos = {}
  <2>1. TypeOK /\ StackInv /\ stack = <<>>
    BY DEF IInv, Evaluate
  <2>2. Len(stack) = 0 /\ Pos = 1 .. Len(stack)
    BY <2>1, StackFacts
  <2>3. ret = "none"
    BY <2>1 DEF StackInv, ShapeInv
  <2>4. QED
    BY <2>1, <2>2, <2>3
<1>2. stack' = <<f, Query(o)>> /\ f \in Frame /\ Query(o) \in Frame
  BY FrameFacts DEF Evaluate
<1>3. stack' \in Seq(Frame) /\ Len(stack') = 2 /\ stack'[1] = f /\ stack'[2] = Query(o)
      /\ Pos' = 1 .. 2
  <2> HIDE DEF f
  <2>1. stack' \in Seq(Frame) /\ Len(stack') = 2 /\ stack'[1] = f /\ stack'[2] = Query(o)
    BY <1>2
  <2>2. QED
    BY <2>1, LenProperties DEF Pos
<1>4. f.call = "criterion" /\ f.pc = "call" /\ f.obj = o /\ f.vars = <<>>
  BY DEF NewCall
<1>5. /\ Query(o).call = "query" /\ Query(o).pc = "start" /\ Query(o).obj = o
      /\ Query(o).vars = <<>> /\ Query(o).skip = FALSE
  BY DEF Query, NewCall
<1> HIDE DEF f
<1>6. FrameOK(f) /\ FrameOK(Query(o)) /\ Makes(f, Query(o)) /\ QueryOK(Query(o))
  BY <1>4, <1>5 DEF FrameOK, Makes, QueryOK
<1>7. \A i \in Pos' : (i = 1 \/ i = 2) /\ i > Len(stack)
  BY <1>1, <1>3
<1>8. \A i \in Pos' : FrameOK(stack'[i])
  BY <1>3, <1>6, <1>7
<1>9. \A i \in Pos' : i > 1 <=> stack'[i].call # "criterion"
  BY <1>3, <1>4, <1>5, <1>7
<1>10. \A i \in Pos' : i > 1 => Makes(stack'[i - 1], stack'[i])
  <2>1. Makes(stack'[1], stack'[2]) /\ 2 - 1 = 1
    BY <1>3, <1>6
  <2>2. QED
    BY <2>1, <1>7
<1>11. \A i \in Pos' : stack'[i].call = "query" => i = 2 /\ QueryOK(stack'[i])
  BY <1>3, <1>4, <1>6, <1>7
<1>12. varflag' = varflag /\ flag' = flag /\ ret' = "none"
  BY <1>1 DEF Evaluate
<1>13. StackInv'
  <2>1. Len(stack') >= Len(stack) /\ Len(stack') > 0 /\ Len(stack') \in Nat
        /\ Pos' = 1 .. Len(stack')
    BY <1>1, <1>3
  <2>2. QED
    BY <1>1, <1>3, <1>8, <1>9, <1>10, <1>11, <1>12, <2>1, StackGrown
<1>14. QED
  BY <1>1, <1>3, <1>4, <1>5, <1>7, <1>13 DEF StackOK, Waits, IsQuery, WaitsStay

\* The innermost call, not a query that waits, goes on as f, which does not
\* wait either.
LEMMA GoesOn ==
  ASSUME TypeOK, StackInv, stack # <<>>, NEW f \in Frame, Become(f),
         varflag' = varflag, ret' = "none",
         \A o \in Objects : o # Top.obj => flag'[o] = flag[o],
         Top.call = "query" \/ flag' = flag,
         FrameOK(f), f.call = Top.call, f.obj = Top.obj,
         Top.pc # "recv", f.pc # "recv",
         Len(stack) > 1 => Makes(stack[Len(stack) - 1], f),
         f.call = "query" => QueryOK(f)'
  PROVE  StackOK' /\ WaitsStay
<1>1. /\ stack' \in Seq(Frame) /\ Len(stack') = Len(stack) /\ Pos' = Pos
      /\ \A i \in Pos : i # Len(stack) => stack'[i] = stack[i]
      /\ stack'[Len(stack)] = f
  BY BecomeFacts
<1>2. /\ Pos = 1 .. Len(stack) /\ Len(stack) \in Nat /\ Len(stack) \in Pos
      /\ Top = stack[Len(stack)]
  BY StackFacts
<1>3. ASSUME NEW i \in Pos, IsQuery(i), i < Len(stack)
      PROVE  flag'[stack[i].obj] = flag[stack[i].obj]
  <2>1. stack[i].obj \in Objects /\ Rank[stack[i].obj] \in Nat
    BY <1>3, DocumentAssumption DEF StackInv, ShapeInv, FrameOK, IsQuery
  <2>2. CASE Top.call = "query"
    <3>1. Rank[Top.obj] < Rank[stack[i].obj]
      BY <1>2, <1>3, <2>2 DEF StackInv, RankInv, IsQuery
    <3>2. QED
      BY <2>1, <3>1
  <2>3. QED
    BY <2>2
<1>4. StackInv'
  BY <1>3, StackChanged
<1>5. WaitsStay
  BY <1>1, <1>2 DEF WaitsStay, Waits
<1>6. QED
  BY <1>1, <1>4, <1>5 DEF StackOK

\* What made a call also makes the one it becomes.
LEMMA MadeBy ==
  ASSUME TypeOK, StackInv, stack # <<>>, Len(stack) > 1
  PROVE  Makes(stack[Len(stack) - 1], Top)
<1>1. Len(stack) \in Pos /\ Top = stack[Len(stack)]
  BY StackFacts
<1>2. QED
  BY <1>1 DEF StackInv, ShapeInv

\* The variables of an object, a state or a test.
LEMMA VarsFacts ==
  /\ \A o \in Objects : VarRefs[o] \in Seq(Variables) /\ TestVars[o] \in Seq(Variables)
                        /\ Members[o] \in Seq(Objects) /\ Filters[o] \in Seq(States)
  /\ \A s \in States : StateVars[s] \in Seq(Variables)
BY DocumentAssumption

\* The object of a test has been queried.
LEMMA ObjectQueriedStack ==
  ASSUME IInv, ObjectQueried
  PROVE  StackOK' /\ WaitsStay
<1>1. TypeOK /\ StackInv /\ stack # <<>> /\ Top.call = "criterion" /\ Top.pc = "call"
      /\ varflag' = varflag /\ flag' = flag /\ ret' = "none"
  BY DEF IInv, ObjectQueried, Returned
<1>2. Top \in Frame /\ FrameOK(Top) /\ Top.obj \in Objects /\ Len(stack) <= 1
  BY <1>1, StackFacts DEF StackInv, ShapeInv, FrameOK
<1>3. CASE ret = "fail"
  <2>1. stack' = Below
    BY <1>3 DEF ObjectQueried
  <2>2. QED
    BY <1>1, <2>1, CallsEnd
<1>4. CASE ret # "fail"
  <2> DEFINE vs == TestVars[Top.obj]
             f == [Top EXCEPT !.pc = "vars", !.vars = vs]
  <2>1. Become(f)
    BY <1>4 DEF ObjectQueried
  <2>2. vs \in Seq(Variables)
    BY <1>2, VarsFacts
  <2>3. f \in Frame /\ f.call = "criterion" /\ f.pc = "vars" /\ f.obj = Top.obj
    BY <1>1, <1>2, <2>2 DEF Frame
  <2> HIDE DEF f, vs
  <2>4. FrameOK(f)
    BY <1>2, <2>3 DEF FrameOK
  <2>5. ~(Len(stack) > 1)
    BY <1>2, StackFacts, <1>1
  <2>6. QED
    BY <1>1, <2>1, <2>3, <2>4, <2>5, GoesOn
<1>5. QED
  BY <1>3, <1>4

\* An object is queried for a variable.
LEMMA ReadVariableStack ==
  ASSUME IInv, ReadVariable
  PROVE  StackOK' /\ WaitsStay
<1> DEFINE u == VarObject[Head(Top.vars)]
           f == Query(u)
<1>1. TypeOK /\ StackInv /\ stack # <<>> /\ Top.pc = "vars" /\ Top.vars # <<>>
      /\ varflag' = varflag /\ flag' = flag /\ ret' = "none"
      /\ varflag[Head(Top.vars)] = "unknown" /\ Call(f)
  BY DEF IInv, ReadVariable, Reading
<1>2. u \in Objects /\ \A i \in Pos : IsQuery(i) => Rank[u] < Rank[stack[i].obj]
  BY <1>1, ReadsLower
<1>3. f \in Frame
  BY <1>2, FrameFacts
<1>4. f.call = "query" /\ f.pc = "start" /\ f.obj = u /\ f.slave = FALSE /\ f.skip = FALSE
      /\ f.vars = <<>>
  BY DEF Query, NewCall
<1> HIDE DEF f
<1>5. FrameOK(f) /\ QueryOK(f) /\ Makes(Top, f)
  BY <1>1, <1>2, <1>4 DEF FrameOK, QueryOK, Makes
<1>6. /\ stack' \in Seq(Frame) /\ Len(stack') = Len(stack) + 1
      /\ Pos' = 1 .. Len(stack) + 1 /\ stack'[Len(stack) + 1] = f
      /\ \A i \in Pos : stack'[i] = stack[i]
  BY <1>1, <1>3, CallFacts
<1>7. Len(stack) \in Nat /\ Len(stack) >= 1 /\ Pos = 1 .. Len(stack) /\ Len(stack) \in Pos
      /\ Top = stack[Len(stack)]
  BY <1>1, StackFacts
<1>8. \A i \in Pos' : i > Len(stack) => i = Len(stack) + 1 /\ i - 1 = Len(stack) /\ i > 1
  BY <1>6, <1>7
<1>9. StackInv'
  <2>1. \A i \in Pos' : i > Len(stack) =>
           /\ FrameOK(stack'[i])
           /\ i > 1 <=> stack'[i].call # "criterion"
           /\ i > 1 => Makes(stack'[i - 1], stack'[i])
    BY <1>4, <1>5, <1>6, <1>7, <1>8
  <2>2. \A i \in Pos' : i > Len(stack) =>
           /\ QueryOK(stack'[i])
           /\ \A j \in Pos' : j > Len(stack) /\ stack'[j].call = "query" => j = i
           /\ \A j \in Pos : IsQuery(j) => Rank[stack'[i].obj] < Rank[stack[j].obj]
    BY <1>2, <1>4, <1>5, <1>6, <1>8
  <2>3. Len(stack') >= Len(stack) /\ Len(stack') > 0 /\ Len(stack') \in Nat
        /\ Pos' = 1 .. Len(stack')
    BY <1>6, <1>7
  <2>4. QED
    BY <1>1, <1>6, <2>1, <2>2, <2>3, StackGrown
<1>10. WaitsStay
  <2>1. \A i \in Pos' : Waits(i)' => i \in Pos
    BY <1>4, <1>6, <1>7 DEF Waits
  <2>2. QED
    BY <2>1, <1>6, <1>7 DEF WaitsStay
<1>11. QED
  BY <1>6, <1>9, <1>10 DEF StackOK

\* The object of a variable has been queried: the flag of the variable, which
\* no other unfinished call is about, is known.
LEMMA VariableReadStack ==
  ASSUME IInv, VariableRead
  PROVE  /\ StackOK' /\ WaitsStay
         /\ varflag' \in [Variables -> Flags \cup {"unknown"}]
         /\ \A v \in Variables : varflag[v] # "unknown" => varflag'[v] = varflag[v]
<1> DEFINE v == Head(Top.vars)
           u == VarObject[v]
<1>1. TypeOK /\ StackInv /\ stack # <<>> /\ Top.pc = "vars" /\ Top.vars # <<>>
      /\ flag' = flag /\ ret' = "none" /\ stack' = stack /\ ret # "none"
  BY DEF IInv, VariableRead, Reading
<1>2. v \in Variables /\ u \in Objects
      /\ \A i \in Pos : IsQuery(i) => Rank[u] < Rank[stack[i].obj]
  BY <1>1, ReadsLower
<1>3. varflag[v] = "unknown"
  <2>1. Expects(Top) /\ FrameOK(Top)
    BY <1>1, StackFacts DEF StackInv, ShapeInv
  <2>2. QED
    BY <2>1, <1>1 DEF Expects, FrameOK
<1>4. PICK g \in ReadFlags(ret, flag[u]) : varflag' = [varflag EXCEPT ![v] = g]
  BY DEF VariableRead
<1>5. g \in Flags
  <2>1. flag[u] \in Flags \cup {"none", "unknown"} /\ ret \in {"none", "ok", "warn", "fail", "aborted"}
    BY <1>1, <1>2 DEF TypeOK
  <2>2. ret = "ok" => flag[u] \in Flags
    BY <1>1 DEF StackInv, ReturnInv, Reading
  <2>3. QED
    BY <1>4, <2>1, <2>2 DEF ReadFlags, Flags
<1>6. /\ varflag' \in [Variables -> Flags \cup {"unknown"}]
      /\ \A x \in Variables : x # v => varflag'[x] = varflag[x]
      /\ varflag'[v] = g /\ \A x \in Variables : varflag[x] # "unknown" => x # v
  BY <1>1, <1>2, <1>3, <1>4, <1>5 DEF TypeOK
<1>7. ShapeInv'
  <2>1. ASSUME NEW i \in Pos, i > 1, Makes(stack[i - 1], stack[i])
        PROVE  Makes(stack[i - 1], stack[i])'
    <3>1. CASE stack[i - 1].vars # <<>> /\ Head(stack[i - 1].vars) = v
               /\ stack[i - 1].pc = "vars" /\ stack[i].call = "query"
               /\ stack[i].obj = VarObject[Head(stack[i - 1].vars)]
      <4>1. Rank[u] < Rank[stack[i].obj]
        BY <1>2, <3>1 DEF IsQuery
      <4>2. Rank[u] \in Nat
        BY <1>2, DocumentAssumption
      <4>3. QED
        BY <3>1, <4>1, <4>2
    <3>2. CASE ~(stack[i - 1].vars # <<>> /\ Head(stack[i - 1].vars) = v
                 /\ stack[i - 1].pc = "vars" /\ stack[i].call = "query"
                 /\ stack[i].obj = VarObject[Head(stack[i - 1].vars)])
      <4>1. stack[i - 1].vars # <<>> => Head(stack[i - 1].vars) \in Variables
        <5>1. i - 1 \in Pos
          BY <1>1, <2>1, StackFacts
        <5>2. stack[i - 1].vars \in Seq(Variables)
          BY <1>1, <5>1, StackFacts DEF Frame
        <5>3. QED
          BY <5>2, RangeFacts
      <4>2. QED
        BY <1>1, <1>6, <2>1, <3>2, <4>1 DEF Makes
    <3>3. QED
      BY <3>1, <3>2
  <2>2. Pos' = Pos
    BY <1>1 DEF Pos
  <2>3. QED
    BY <1>1, <2>1, <2>2 DEF StackInv, ShapeInv
<1>8. RankInv' /\ ReturnInv'
  BY <1>1 DEF StackInv, RankInv, ReturnInv, IsQuery, Pos
<1>9. QueryInv'
  <2>1. ASSUME NEW i \in Pos, IsQuery(i)
        PROVE  QueryOK(stack[i])'
    <3>1. QueryOK(stack[i]) /\ stack[i].obj \in Objects
      BY <1>1, <2>1 DEF StackInv, QueryInv, ShapeInv, FrameOK, IsQuery
    <3>2. SeqRange(VarRefs[stack[i].obj]) \subseteq Variables
      BY <3>1, VarsFacts, RangeFacts
    <3>3. \A x \in Variables : varflag[x] # "unknown" => varflag'[x] = varflag[x]
      BY <1>6
    <3>4. Usable("unknown") = FALSE
      BY DEF Usable
    <3>5. \A x \in Variables : Usable(varflag[x]) => Usable(varflag'[x])
      BY <3>3, <3>4
    <3>6. Unusable(stack[i].obj) => Unusable(stack[i].obj)'
      BY <1>1, <3>2, <3>3 DEF Unusable
    <3>7. QED
      BY <1>1, <3>1, <3>2, <3>5, <3>6 DEF QueryOK
  <2>2. Pos' = Pos /\ \A i \in Pos : IsQuery(i)' = IsQuery(i)
    BY <1>1 DEF Pos, IsQuery
  <2>3. QED
    BY <2>1, <2>2 DEF QueryInv
<1>10. WaitsStay /\ stack' \in Seq(Frame)
  BY <1>1 DEF WaitsStay, TypeOK, Pos
<1>11. QED
  BY <1>6, <1>7, <1>8, <1>9, <1>10 DEF StackOK, StackInv

\* A variable is taken over, or ends the conversion of an object.
LEMMA UseVariableStack ==
  ASSUME IInv, UseVariable
  PROVE  StackOK' /\ WaitsStay /\ flag' \in [Objects -> Flags \cup {"none", "unknown"}]
<1> DEFINE v == Head(Top.vars)
<1>1. TypeOK /\ StackInv /\ stack # <<>> /\ Top.pc = "vars" /\ Top.vars # <<>>
      /\ varflag' = varflag /\ ret' = "none" /\ varflag[v] # "unknown"
  BY DEF IInv, UseVariable, Reading
<1>2. Top \in Frame /\ FrameOK(Top) /\ Top.vars \in Seq(Variables) /\ Len(stack) \in Pos
      /\ Top = stack[Len(stack)] /\ (Len(stack) > 1 => Makes(stack[Len(stack) - 1], Top))
      /\ (Len(stack) > 1 <=> Top.call # "criterion")
  BY <1>1, StackFacts, MadeBy DEF Frame, StackInv, ShapeInv
<1>3. /\ Tail(Top.vars) \in Seq(Variables) /\ <<>> \in Seq(Variables)
      /\ SeqRange(Top.vars) = {v} \cup SeqRange(Tail(Top.vars))
  BY <1>1, <1>2, RangeFacts, EmptySeq
<1>4. Top.call = "query" => QueryOK(Top)
  <2>1. ASSUME Top.call = "query"
        PROVE  QueryOK(Top)
    <3>1. QueryOK(stack[Len(stack)])
      BY <1>1, <1>2, <2>1 DEF StackInv, QueryInv, IsQuery
    <3>2. QED
      BY <1>2, <3>1 DEF QueryOK
  <2>2. QED
    BY <2>1
<1>5. CASE Usable(varflag[v]) \/ Top.call = "ste_fetch"
  <2>1. PICK f \in Frame : f = [Top EXCEPT !.vars = Tail(Top.vars)]
    BY <1>2, <1>3 DEF Frame
  <2>2. Become(f) /\ flag' = flag
    BY <1>5, <2>1 DEF UseVariable
  <2>3. /\ f.call = Top.call /\ f.pc = "vars" /\ f.obj = Top.obj /\ f.sd = Top.sd
        /\ f.vars = Tail(Top.vars) /\ f.slave = Top.slave /\ f.id = Top.id
        /\ f.states = Top.states /\ f.skip = Top.skip
    BY <1>1, <1>2, <2>1 DEF Frame
  <2>4. FrameOK(f)
    BY <1>1, <1>2, <2>3 DEF FrameOK
  <2>5. VarObjects(f.vars) \subseteq VarObjects(Top.vars)
    BY <1>3, <2>3 DEF VarObjects
  <2>6. Len(stack) > 1 => Makes(stack[Len(stack) - 1], f)
    BY <1>2, <2>3, <2>5 DEF Makes
  <2>7. f.call = "query" => QueryOK(f)'
    BY <1>1, <1>3, <1>4, <1>5, <2>2, <2>3 DEF QueryOK, Unusable
  <2>8. QED
    BY <1>1, <2>1, <2>2, <2>3, <2>4, <2>6, <2>7, GoesOn DEF TypeOK
<1>6. CASE ~(Usable(varflag[v]) \/ Top.call = "ste_fetch")
  <2>1. PICK g \in Frame : g = [Top EXCEPT !.vars = <<>>, !.skip = TRUE]
    BY <1>2, <1>3 DEF Frame
  <2>2. Become(g) /\ flag' = IF Top.call = "query"
                             THEN [flag EXCEPT ![Top.obj] = "does_not_exist"] ELSE flag
    BY <1>6, <2>1 DEF UseVariable
  <2>3. /\ g.call = Top.call /\ g.pc = "vars" /\ g.obj = Top.obj /\ g.sd = Top.sd
        /\ g.vars = <<>> /\ g.slave = Top.slave /\ g.id = Top.id
        /\ g.states = Top.states /\ g.skip = TRUE
    BY <1>1, <1>2, <2>1 DEF Frame
  <2>4. FrameOK(g) /\ Top.obj \in Objects
    BY <1>1, <1>2, <1>6, <2>3 DEF FrameOK
  <2>5. flag' \in [Objects -> Flags \cup {"none", "unknown"}]
        /\ (Top.call = "query" => flag'[Top.obj] = "does_not_exist")
        /\ \A o \in Objects : o # Top.obj => flag'[o] = flag[o]
    BY <1>1, <2>2, <2>4 DEF TypeOK, Flags
  <2>6. Top.call \in {"criterion", "query"}
    BY <1>1, <1>2, <1>6 DEF FrameOK, Frame
  <2>7. Len(stack) > 1 => Makes(stack[Len(stack) - 1], g)
    BY <1>2, <2>3, <2>6 DEF Makes
  <2>8. g.call = "query" => QueryOK(g)'
    <3>1. ASSUME Top.call = "query"
          PROVE  QueryOK(g)'
      <4>1. v \in SeqRange(VarRefs[Top.obj]) /\ ProbeOf[Top.obj] \in Supported
        BY <1>1, <1>3, <1>4, <3>1, RangeFacts DEF QueryOK
      <4>2. \E x \in SeqRange(VarRefs[g.obj]) :
               varflag'[x] # "unknown" /\ ~Usable(varflag'[x])
        BY <1>1, <1>6, <2>3, <4>1
      <4>3. QED
        BY <2>3, <2>5, <3>1, <4>1, <4>2 DEF QueryOK, Unusable
    <3>2. QED
      BY <2>3, <3>1
  <2>9. QED
    BY <1>1, <2>1, <2>2, <2>3, <2>4, <2>5, <2>7, <2>8, GoesOn
<1>7. QED
  BY <1>5, <1>6

\* The variables of a test have been read.
LEMMA CriterionDoneStack ==
  ASSUME IInv, CriterionDone
  PROVE  StackOK' /\ WaitsStay
BY CallsEnd DEF IInv, CriterionDone, At

\* The flag of an object is known.
LEMMA QueryKnownStack ==
  ASSUME IInv, QueryKnown
  PROVE  StackOK' /\ WaitsStay
<1>1. TypeOK /\ StackInv /\ stack # <<>> /\ Top.call = "query" /\ stack' = Below
      /\ ret' = "ok" /\ varflag' = varflag /\ flag' = flag /\ Known(Top.obj, Top.slave)
  BY DEF IInv, QueryKnown, At, Return
<1>2. Top.obj \in Objects
  BY <1>1, QueryTop
<1>3. ~Top.slave => flag'[Top.obj] \in Flags
  BY <1>1, <1>2 DEF Known, TypeOK
<1>4. QED
  BY <1>1, <1>3, QueryReturns

\* No probe collects the object.
LEMMA QueryUnsupportedStack ==
  ASSUME IInv, QueryUnsupported
  PROVE  StackOK' /\ WaitsStay /\ flag' \in [Objects -> Flags \cup {"none", "unknown"}]
<1>1. TypeOK /\ StackInv /\ stack # <<>> /\ Top.call = "query" /\ stack' = Below
      /\ ret' = "warn" /\ varflag' = varflag
      /\ flag' = [flag EXCEPT ![Top.obj] = "not_collected"]
  BY DEF IInv, QueryUnsupported, At, Return
<1>2. Top.obj \in Objects
  BY <1>1, QueryTop
<1>3. flag' \in [Objects -> Flags \cup {"none", "unknown"}]
      /\ \A o \in Objects : o # Top.obj => flag'[o] = flag[o]
  BY <1>1, <1>2 DEF TypeOK, Flags
<1>4. QED
  BY <1>1, <1>3, QueryReturns

\* An object that is not known yet: its variables are read.
LEMMA QueryNewStack ==
  ASSUME IInv, QueryNew
  PROVE  StackOK' /\ WaitsStay /\ flag' \in [Objects -> Flags \cup {"none", "unknown"}]
<1> DEFINE vs == VarRefs[Top.obj]
<1>1. TypeOK /\ StackInv /\ stack # <<>> /\ Top.call = "query" /\ Top.pc = "start"
      /\ Become([Top EXCEPT !.pc = "vars", !.vars = vs]) /\ ret' = "none"
      /\ varflag' = varflag /\ ProbeOf[Top.obj] \in Supported
      /\ (flag[Top.obj] = "none" \/ flag[Top.obj] = "unknown")
      /\ flag' = [flag EXCEPT ![Top.obj] = IF flag[Top.obj] = "none" THEN "unknown" ELSE flag[Top.obj]]
  BY DEF IInv, QueryNew, At, Known
<1>2. Top.obj \in Objects /\ Top \in Frame /\ FrameOK(Top) /\ Len(stack) \in Pos
      /\ Makes(stack[Len(stack) - 1], Top) /\ IsQuery(Len(stack)) /\ Top = stack[Len(stack)]
  BY <1>1, QueryTop, StackFacts
<1>3. vs \in Seq(Variables)
  BY <1>2, VarsFacts
<1>4. PICK f \in Frame : f = [Top EXCEPT !.pc = "vars", !.vars = vs]
  BY <1>2, <1>3 DEF Frame
<1>5. flag' \in [Objects -> Flags \cup {"none", "unknown"}] /\ flag'[Top.obj] = "unknown"
      /\ \A o \in Objects : o # Top.obj => flag'[o] = flag[o]
  BY <1>1, <1>2 DEF TypeOK
<1>6. /\ f.call = "query" /\ f.pc = "vars" /\ f.obj = Top.obj /\ f.slave = Top.slave
      /\ f.vars = vs /\ f.skip = Top.skip
  BY <1>1, <1>2, <1>4 DEF Frame
<1>7. FrameOK(f) /\ Makes(stack[Len(stack) - 1], f)
  BY <1>1, <1>2, <1>6 DEF FrameOK, Makes
<1>8. QueryOK(f)'
  <2>1. ~Top.skip
    BY <1>1, <1>2 DEF StackInv, QueryInv, QueryOK
  <2>2. QED
    BY <1>1, <1>5, <1>6, <2>1 DEF QueryOK
<1>9. QED
  BY <1>1, <1>4, <1>5, <1>6, <1>7, <1>8, GoesOn

\* The object is ready to be sent.
LEMMA ObjectConvertedStack ==
  ASSUME IInv, ObjectConverted
  PROVE  StackOK' /\ WaitsStay
<1>1. TypeOK /\ StackInv /\ stack # <<>> /\ Top.call = "query" /\ Top.pc = "vars"
      /\ Top.vars = <<>> /\ Become([Top EXCEPT !.pc = "send"])
      /\ ret' = "none" /\ varflag' = varflag /\ flag' = flag
  BY DEF IInv, ObjectConverted, At
<1>2. Top.obj \in Objects /\ Top \in Frame /\ FrameOK(Top) /\ Len(stack) \in Pos
      /\ Makes(stack[Len(stack) - 1], Top) /\ IsQuery(Len(stack)) /\ Top = stack[Len(stack)]
  BY <1>1, QueryTop, StackFacts
<1>3. PICK f \in Frame : f = [Top EXCEPT !.pc = "send"]
  BY <1>2 DEF Frame
<1>4. /\ f.call = "query" /\ f.pc = "send" /\ f.obj = Top.obj /\ f.slave = Top.slave
      /\ f.vars = <<>> /\ f.skip = Top.skip
  BY <1>1, <1>2, <1>3 DEF Frame
<1>5. FrameOK(f) /\ Makes(stack[Len(stack) - 1], f)
  BY <1>1, <1>2, <1>4 DEF FrameOK, Makes
<1>6. QueryOK(Top)
  <2>1. QueryOK(stack[Len(stack)])
    BY <1>1, <1>2 DEF StackInv, QueryInv
  <2>2. QED
    BY <1>2, <2>1 DEF QueryOK
<1>7. QueryOK(f)'
  BY <1>1, <1>4, <1>6 DEF QueryOK, Unusable
<1>8. QED
  BY <1>1, <1>3, <1>4, <1>5, <1>7, GoesOn

\* The object is sent: its query begins to wait.
LEMMA SendObjectStack ==
  ASSUME IInv, SendObject
  PROVE  /\ StackOK' /\ Pos' = Pos /\ Len(stack') = Len(stack) /\ Waits(Len(stack))'
         /\ \A i \in Pos : i # Len(stack) => stack'[i] = stack[i]
         /\ Top' = stack'[Len(stack)] /\ Top'.obj = Top.obj /\ Top'.skip = Top.skip
         /\ Top'.sd = pd[Probe] /\ Top'.id = proc[pd[Probe]].next_id
<1> DEFINE n == pd[Probe]
<1>1. TypeOK /\ StackInv /\ stack # <<>> /\ Top.call = "query" /\ Top.pc = "send"
      /\ Become([Top EXCEPT !.pc = "recv", !.sd = n, !.id = proc[n].next_id])
      /\ ret' = "none" /\ varflag' = varflag /\ flag' = flag /\ pd[Probe] # NoSd
  BY DEF IInv, SendObject, At
<1>2. Top.obj \in Objects /\ Top \in Frame /\ FrameOK(Top) /\ Len(stack) \in Pos
      /\ Makes(stack[Len(stack) - 1], Top) /\ IsQuery(Len(stack)) /\ Top = stack[Len(stack)]
      /\ Probe \in Probes
  BY <1>1, QueryTop, StackFacts
<1>3. n \in Sds /\ proc[n].next_id \in Nat
  BY <1>1, <1>2, PdFacts, FieldFacts
<1>4. PICK f \in Frame : f = [Top EXCEPT !.pc = "recv", !.sd = n, !.id = proc[n].next_id]
  BY <1>2, <1>3 DEF Frame
<1>5. /\ f.call = "query" /\ f.pc = "recv" /\ f.obj = Top.obj /\ f.slave = Top.slave
      /\ f.vars = Top.vars /\ f.skip = Top.skip /\ f.sd = n /\ f.id = proc[n].next_id
  BY <1>1, <1>2, <1>4 DEF Frame
<1>6. FrameOK(f) /\ Makes(stack[Len(stack) - 1], f)
  BY <1>1, <1>2, <1>3, <1>5 DEF FrameOK, Makes
<1>7. QueryOK(Top)
  <2>1. QueryOK(stack[Len(stack)])
    BY <1>1, <1>2 DEF StackInv, QueryInv
  <2>2. QED
    BY <1>2, <2>1 DEF QueryOK
<1>8. QueryOK(f)'
  BY <1>1, <1>5, <1>7 DEF QueryOK, Unusable
<1>9. StackInv'
  BY <1>1, <1>2, <1>4, <1>5, <1>6, <1>8, StackChanged
<1>10. /\ stack' \in Seq(Frame) /\ Len(stack') = Len(stack) /\ Pos' = Pos
       /\ \A i \in Pos : i # Len(stack) => stack'[i] = stack[i]
       /\ Top' = f /\ stack'[Len(stack)] = f
  BY <1>1, <1>4, BecomeFacts
<1>11. Waits(Len(stack))'
  BY <1>5, <1>10 DEF Waits, IsQuery
<1>12. QED
  BY <1>5, <1>9, <1>10, <1>11 DEF StackOK

\* The next state a probe has asked for.
LEMMA FetchStateStack ==
  ASSUME IInv, FetchState
  PROVE  StackOK' /\ WaitsStay
<1> DEFINE s == Head(Top.states)
           vs == StateVars[s]
           ss == Tail(Top.states)
           f == [Top EXCEPT !.vars = vs, !.states = ss]
<1>1. TypeOK /\ StackInv /\ stack # <<>> /\ Top.call = "ste_fetch" /\ Top.pc = "vars"
      /\ Top.states # <<>> /\ Become(f) /\ ret' = "none" /\ varflag' = varflag /\ flag' = flag
  BY DEF IInv, FetchState, At
<1>2. Top \in Frame /\ FrameOK(Top) /\ Makes(Outer, Top) /\ Outer = stack[Len(stack) - 1]
  BY <1>1, CommandTop
<1>3. Top.states \in Seq(States)
  BY <1>2 DEF Frame
<1>4. s \in States /\ ss \in Seq(States) /\ SeqRange(Top.states) = {s} \cup SeqRange(ss)
  BY <1>1, <1>3, RangeFacts
<1>5. vs \in Seq(Variables)
  BY <1>4, VarsFacts
<1>6. f \in Frame
  BY <1>2, <1>4, <1>5 DEF Frame
<1>7. /\ f.call = "ste_fetch" /\ f.pc = "vars" /\ f.obj = Top.obj /\ f.slave = Top.slave
      /\ f.vars = vs /\ f.states = ss /\ f.sd = Top.sd /\ f.id = Top.id
  BY <1>1, <1>2 DEF Frame
<1>8. SeqRange(Top.states) \subseteq SeqRange(Filters[Outer.obj])
  BY <1>1, <1>2 DEF Makes
<1>9. VarObjects(vs) \subseteq Needs(Outer.obj)
  <2>1. s \in SeqRange(Filters[Outer.obj])
    BY <1>4, <1>8
  <2>2. QED
    BY <2>1 DEF Needs, StateObjects
<1> HIDE DEF f, vs
<1>10. FrameOK(f)
  BY <1>1, <1>2, <1>7 DEF FrameOK
<1>11. Makes(stack[Len(stack) - 1], f)
  BY <1>1, <1>2, <1>4, <1>7, <1>8, <1>9 DEF Makes
<1>12. QED
  BY <1>1, <1>6, <1>7, <1>10, <1>11, GoesOn

\* A result ends its query.
LEMMA RecvResultStack ==
  ASSUME IInv, RecvResult
  PROVE  /\ StackOK' /\ WaitsStay /\ Pos' = 1 .. Len(stack) - 1
         /\ flag' \in [Objects -> Flags \cup {"none", "unknown"}]
<1>1. TypeOK /\ StackInv /\ stack # <<>> /\ Top.call = "query" /\ stack' = Below
      /\ ret' = "ok" /\ varflag' = varflag
      /\ flag' = IF Top.slave THEN flag ELSE [flag EXCEPT ![Top.obj] = Message.flag]
  BY DEF IInv, RecvResult, Receiving, At, Return
<1>2. Top.obj \in Objects
  BY <1>1, QueryTop
<1>3. Message.flag \in Results
  BY Arrival DEF RecvResult, Arrived, Message
<1>4. Results \subseteq Flags
  BY DocumentAssumption DEF Results, Flags
<1>5. /\ flag' \in [Objects -> Flags \cup {"none", "unknown"}]
      /\ \A o \in Objects : o # Top.obj => flag'[o] = flag[o]
      /\ ~Top.slave => flag'[Top.obj] \in Flags
  BY <1>1, <1>2, <1>3, <1>4 DEF TypeOK
<1>6. QED
  BY <1>1, <1>5, QueryReturns

\* Any other end of a query leaves the flags alone.
LEMMA QueryFails ==
  ASSUME TypeOK, StackInv, stack # <<>>, Top.call = "query", stack' = Below,
         ret' \in {"fail", "aborted"}, varflag' = varflag, flag' = flag
  PROVE  StackOK' /\ WaitsStay /\ Pos' = 1 .. Len(stack) - 1
BY QueryReturns

\* The probe asks for a member of the set it works on.
LEMMA RecvObjEvalStack ==
  ASSUME IInv, RecvObjEval
  PROVE  /\ StackOK' /\ WaitsStay /\ Len(stack) \in Pos'
         /\ stack'[Len(stack)] = stack[Len(stack)]
<1> DEFINE o == Message.args[1]
           f == [NewCall("obj_eval", o, "call") EXCEPT !.sd = Top.sd, !.id = Message.id]
           g == SlaveQuery(o)
<1>1. TypeOK /\ StackInv /\ stack # <<>> /\ Top.call = "query" /\ Top.pc = "recv"
      /\ stack' = stack \o <<f, g>> /\ varflag' = varflag /\ flag' = flag /\ ret' = "none"
      /\ stack \in Seq(Frame)
  BY DEF IInv, RecvObjEval, Receiving, At, TypeOK
<1>2. Message.id = Top.id /\ o \in SeqRange(Members[Top.obj]) /\ Top.sd \in Sds
      /\ Message \in Outbound
  BY Arrival DEF RecvObjEval, Arrived, Message
<1>3. Top.obj \in Objects /\ Top \in Frame /\ FrameOK(Top) /\ Top = stack[Len(stack)]
      /\ Pos = 1 .. Len(stack) /\ Len(stack) \in Nat /\ Len(stack) >= 2 /\ Len(stack) \in Pos
      /\ IsQuery(Len(stack))
  BY <1>1, QueryTop, StackFacts
<1>4. o \in Objects
  BY <1>2, <1>3, VarsFacts, RangeFacts
<1>5. Message.id \in Nat
  BY <1>2 DEF Outbound
<1>6. f \in Frame /\ g \in Frame
  BY <1>2, <1>4, <1>5, FrameFacts
<1>7. /\ f.call = "obj_eval" /\ f.pc = "call" /\ f.obj = o /\ f.sd = Top.sd
      /\ f.id = Top.id /\ f.vars = <<>> /\ f.states = <<>>
  BY <1>2 DEF NewCall
<1>8. /\ g.call = "query" /\ g.pc = "start" /\ g.obj = o /\ g.skip = FALSE /\ g.vars = <<>>
  BY DEF SlaveQuery, Query, NewCall
<1> HIDE DEF f, g
<1>9. FrameOK(f) /\ FrameOK(g) /\ QueryOK(g)
  BY <1>2, <1>4, <1>7, <1>8 DEF FrameOK, QueryOK
<1>10. Makes(Top, f) /\ Makes(f, g)
  <2>1. VarObjects(f.vars) = {} /\ SeqRange(f.states) = {}
    BY <1>7, EmptySeq DEF VarObjects, SeqRange
  <2>2. QED
    BY <1>1, <1>2, <1>7, <1>8, <2>1 DEF Makes
<1>11. \A j \in Pos : IsQuery(j) => Rank[o] < Rank[stack[j].obj]
  <2>1. o \in Needs(Top.obj)
    BY <1>2 DEF Needs
  <2>2. Rank[o] < Rank[Top.obj] /\ Rank[o] \in Nat /\ Rank[Top.obj] \in Nat
    BY <1>3, <1>4, <2>1, DocumentAssumption
  <2>3. ASSUME NEW j \in Pos, IsQuery(j)
        PROVE  Rank[o] < Rank[stack[j].obj]
    <3>1. stack[j].obj \in Objects /\ Rank[stack[j].obj] \in Nat
      BY <1>1, <2>3, DocumentAssumption DEF StackInv, ShapeInv, FrameOK, IsQuery
    <3>2. CASE j < Len(stack)
      <4>1. Rank[Top.obj] < Rank[stack[j].obj]
        BY <1>1, <1>3, <2>3, <3>2 DEF StackInv, RankInv
      <4>2. QED
        BY <2>2, <3>1, <4>1
    <3>3. CASE ~(j < Len(stack))
      <4>1. j = Len(stack)
        BY <1>3, <3>3
      <4>2. QED
        BY <1>3, <2>2, <4>1
    <3>4. QED
      BY <3>2, <3>3
  <2>4. QED
    BY <2>3
<1>12. /\ stack' \in Seq(Frame) /\ Len(stack') = Len(stack) + 2
       /\ Pos' = 1 .. Len(stack) + 2
       /\ \A i \in Pos : stack'[i] = stack[i]
       /\ stack'[Len(stack) + 1] = f /\ stack'[Len(stack) + 2] = g
  <2>1. <<f, g>> \in Seq(Frame) /\ Len(<<f, g>>) = 2 /\ <<f, g>>[1] = f /\ <<f, g>>[2] = g
    BY <1>6
  <2>2. /\ stack' \in Seq(Frame) /\ Len(stack') = Len(stack) + 2
        /\ \A i \in 1 .. Len(stack) + 2 :
             stack'[i] = IF i <= Len(stack) THEN stack[i] ELSE <<f, g>>[i - Len(stack)]
    BY <1>1, <2>1, ConcatProperties
  <2>3. Pos' = 1 .. Len(stack) + 2
    BY <2>2, LenProperties DEF Pos
  <2>4. stack'[Len(stack) + 1] = f /\ stack'[Len(stack) + 2] = g
    BY <1>3, <2>1, <2>2
  <2>5. QED
    BY <1>3, <2>2, <2>3, <2>4
<1> DEFINE l == Len(stack)
<1>13. \A i \in Pos' : i > l => (i = l + 1 \/ i = l + 2) /\ i > 1
  BY <1>3, <1>12
<1>14. StackInv'
  <2>1. \A i \in Pos' : i > l =>
           FrameOK(stack'[i]) /\ (i > 1 <=> stack'[i].call # "criterion")
    BY <1>7, <1>8, <1>9, <1>12, <1>13
  <2>2. \A i \in Pos' : i > l => Makes(stack'[i - 1], stack'[i])
    <3>1. stack'[l] = Top /\ (l + 1) - 1 = l /\ (l + 2) - 1 = l + 1
      BY <1>3, <1>12
    <3>2. Makes(stack'[(l + 1) - 1], stack'[l + 1])
      BY <1>10, <1>12, <3>1 DEF Makes
    <3>3. Makes(stack'[(l + 2) - 1], stack'[l + 2])
      BY <1>10, <1>12, <3>1 DEF Makes
    <3>4. QED
      BY <3>2, <3>3, <1>13
  <2>3. \A i \in Pos' : i > l /\ stack'[i].call = "query" =>
           /\ i = l + 2 /\ QueryOK(stack'[i])
           /\ \A j \in Pos : IsQuery(j) => Rank[stack'[i].obj] < Rank[stack[j].obj]
    BY <1>7, <1>8, <1>9, <1>11, <1>12, <1>13 DEF QueryOK
  <2>4. Len(stack') >= l /\ Len(stack') > 0 /\ Len(stack') \in Nat
        /\ Pos' = 1 .. Len(stack')
    BY <1>3, <1>12
  <2>5. QED
    BY <1>1, <1>12, <2>1, <2>2, <2>3, <2>4, StackGrown
<1>15. WaitsStay /\ l \in Pos' /\ stack'[l] = stack[l]
  <2>1. \A i \in Pos' : Waits(i)' => i \in Pos
    BY <1>3, <1>7, <1>8, <1>12, <1>13 DEF Waits, IsQuery
  <2>2. l \in Pos' /\ stack'[l] = stack[l] /\ \A i \in Pos : i \in Pos'
    BY <1>3, <1>12
  <2>3. QED
    BY <1>12, <2>1, <2>2 DEF WaitsStay
<1>16. QED
  BY <1>12, <1>14, <1>15 DEF StackOK

\* The probe asks for states it filters with.
LEMMA RecvSteFetchStack ==
  ASSUME IInv, RecvSteFetch
  PROVE  /\ StackOK' /\ WaitsStay /\ Len(stack) \in Pos'
         /\ stack'[Len(stack)] = stack[Len(stack)]
<1> DEFINE ss == Message.args
           f == [NewCall("ste_fetch", "none", "vars")
                   EXCEPT !.states = ss, !.sd = Top.sd, !.id = Message.id]
           l == Len(stack)
<1>1. TypeOK /\ StackInv /\ stack # <<>> /\ Top.call = "query" /\ Top.pc = "recv"
      /\ Call(f) /\ varflag' = varflag /\ flag' = flag /\ ret' = "none"
  BY DEF IInv, RecvSteFetch, Receiving, At, TypeOK
<1>2. Message.id = Top.id /\ ss \in Seq(States) /\ Top.sd \in Sds
      /\ SeqRange(ss) \subseteq SeqRange(Filters[Top.obj]) /\ Message \in Outbound
  BY Arrival DEF RecvSteFetch, Arrived, Message
<1>3. Top.obj \in Objects /\ Top = stack[l]
      /\ Pos = 1 .. l /\ l \in Nat /\ l >= 2 /\ l \in Pos
  BY <1>1, QueryTop, StackFacts
<1>4. Message.id \in Nat
  BY <1>2 DEF Outbound
<1>5. f \in Frame
  BY <1>2, <1>3, <1>4, FrameFacts
<1>6. /\ f.call = "ste_fetch" /\ f.pc = "vars" /\ f.sd = Top.sd
      /\ f.id = Top.id /\ f.vars = <<>> /\ f.states = ss
  BY <1>2 DEF NewCall
<1> HIDE DEF f
<1>7. FrameOK(f)
  BY <1>2, <1>6 DEF FrameOK
<1>8. Makes(Top, f)
  <2>1. VarObjects(f.vars) = {}
    BY <1>6, EmptySeq DEF VarObjects, SeqRange
  <2>2. QED
    BY <1>1, <1>2, <1>6, <2>1 DEF Makes
<1>9. /\ stack' \in Seq(Frame) /\ Len(stack') = l + 1 /\ Pos' = 1 .. l + 1
      /\ \A i \in Pos : stack'[i] = stack[i]
      /\ stack'[l + 1] = f
  BY <1>1, <1>5, CallFacts
<1>10. \A i \in Pos' : i > l => i = l + 1 /\ i > 1
  BY <1>3, <1>9
<1>11. StackInv'
  <2>1. \A i \in Pos' : i > l =>
           /\ FrameOK(stack'[i])
           /\ i > 1 <=> stack'[i].call # "criterion"
           /\ stack'[i].call # "query"
    BY <1>6, <1>7, <1>9, <1>10
  <2>2. \A i \in Pos' : i > l => Makes(stack'[i - 1], stack'[i])
    <3>1. stack'[l] = Top /\ (l + 1) - 1 = l
      BY <1>3, <1>9
    <3>2. Makes(stack'[(l + 1) - 1], stack'[l + 1])
      BY <1>8, <1>9, <3>1 DEF Makes
    <3>3. QED
      BY <3>2, <1>10
  <2>3. Len(stack') >= l /\ Len(stack') > 0 /\ Len(stack') \in Nat
        /\ Pos' = 1 .. Len(stack')
    BY <1>3, <1>9
  <2>4. QED
    BY <1>1, <1>9, <2>1, <2>2, <2>3, StackGrown
<1>12. WaitsStay /\ l \in Pos' /\ stack'[l] = stack[l]
  <2>1. \A i \in Pos' : Waits(i)' => i \in Pos
    BY <1>3, <1>6, <1>9, <1>10 DEF Waits, IsQuery
  <2>2. l \in Pos' /\ stack'[l] = stack[l] /\ \A i \in Pos : i \in Pos'
    BY <1>3, <1>9
  <2>3. QED
    BY <1>9, <2>1, <2>2 DEF WaitsStay
<1>13. QED
  BY <1>9, <1>11, <1>12 DEF StackOK

\* A reply cannot be sent: the query that received the command fails.
LEMMA ReplyFailsStack ==
  ASSUME TypeOK, StackInv, stack # <<>>, Top.call \in {"obj_eval", "ste_fetch"}, ReplyFails,
         varflag' = varflag, flag' = flag
  PROVE  /\ StackOK' /\ Pos' = 1 .. Len(stack) - 2
         /\ \A i \in Pos' : i \in Pos /\ stack'[i] = stack[i]
<1> DEFINE k == Len(stack) - 2
<1>1. /\ Len(stack) \in Nat /\ Len(stack) >= 3 /\ Makes(stack[k], Outer) /\ Makes(Outer, Top)
      /\ k \in Pos
  BY CommandTop
<1>2. Outer.call = "query"
  BY <1>1 DEF Makes
<1>3. Expects(stack[k])
  BY <1>1, <1>2, Awaited
<1>4. k \in 0 .. Len(stack) /\ k > 0 /\ stack' = SubSeq(stack, 1, k) /\ ret' = "fail"
  BY <1>1 DEF ReplyFails
<1> HIDE DEF k
<1>5. StackInv'
  BY <1>3, <1>4, StackPopped
<1>6. stack' \in Seq(Frame) /\ Pos' = 1 .. k /\ \A i \in 1 .. k : i \in Pos /\ stack'[i] = stack[i]
  BY <1>4, PopFacts
<1>7. QED
  BY <1>5, <1>6 DEF StackOK, k
-----------------------------------------------------------------------------
(* Messages, workers and the queries they belong to.                       *)

\* A process has something to do, or to say, only while the innermost call
\* waits for it.
LEMMA CalmFacts ==
  ASSUME IInv, NEW n \in Sds, ~ReceivesOn(n)
  PROVE  Calm(n)
<1>1. ToOK(n) /\ FromOK(n) /\ WorkersOK(n)
  BY DEF IInv, LinkInv, LinkOK
<1>2. proc[n].to = <<>>
  BY <1>1 DEF ToOK
<1>3. proc[n].from = <<>> \/ proc[n].reaped
  BY <1>1 DEF FromOK
<1>4. ASSUME NEW w \in proc[n].workers, w.pc # "wait"
      PROVE  FALSE
  <2>1. stack # <<>> /\ Serves(w, Len(stack), n)
    BY <1>1, <1>4 DEF WorkersOK
  <2>2. Waits(Len(stack)) /\ Top.sd = n
    BY <2>1 DEF Serves, Top
  <2>3. QED
    BY <2>1, <2>2 DEF ReceivesOn
<1>5. QED
  BY <1>2, <1>3, <1>4 DEF Calm, Quiet

\* A process that has ended.
LEMMA DeadFacts ==
  ASSUME IInv, NEW n \in Sds, ~proc[n].alive
  PROVE  /\ proc[n].to = <<>> /\ proc[n].workers = {}
         /\ \A k \in Objects \cup States : ~Cached(n, k)
         /\ \A i : ~Served(i, n)
BY DEF IInv, DescInv, Served

\* Nothing is on the way to or from n, and its workers and the queries they
\* work for stay: all is well with n.
LEMMA LinksKept ==
  ASSUME IInv, NEW n \in Sds, stack' \in Seq(Frame),
         proc'[n].to = <<>>, proc'[n].from = <<>> \/ proc'[n].reaped,
         \/ proc'[n].workers = {}
         \/ /\ proc'[n].workers = proc[n].workers /\ Quiet(n)
            /\ proc'[n].next_id = proc[n].next_id
            /\ \A p \in Probes : pd[p] = n => pd'[p] = n
            /\ Len(stack) \in Pos' /\ ReceivesOn(n)
                 => Served(Len(stack), n) \/ ~Pending(n),
         \A i \in Pos' : Waits(i)' /\ stack'[i].sd = n => i \in Pos /\ stack'[i] = stack[i],
         \A i \in Pos : Served(i, n) => i \in Pos' /\ stack'[i] = stack[i]
  PROVE  LinkOK(n)'
<1>1. ToOK(n)' /\ FromOK(n)'
  BY DEF ToOK, FromOK
<1>2. CASE proc'[n].workers = {}
  <2>1. WorkersOK(n)'
    BY <1>2 DEF WorkersOK
  <2>2. QED
    BY <1>1, <2>1 DEF LinkOK
<1>3. CASE /\ proc'[n].workers = proc[n].workers /\ Quiet(n)
           /\ proc'[n].next_id = proc[n].next_id
           /\ \A p \in Probes : pd[p] = n => pd'[p] = n
           /\ Len(stack) \in Pos' /\ ReceivesOn(n)
                => Served(Len(stack), n) \/ ~Pending(n)
  <2>1. WorkersOK(n) /\ TypeOK
    BY DEF IInv, LinkInv, LinkOK
  <2>2. proc[n].workers \subseteq Workers
    BY <2>1, FieldFacts DEF TypeOK
  <2>3. ASSUME NEW w \in proc[n].workers
        PROVE  /\ pd'[ProbeOf[w.obj]] = n /\ w.id < proc[n].next_id
               /\ \A u \in proc[n].workers : (u.id = w.id \/ u.obj = w.obj) => u = w
               /\ w.pc = "wait"
    <3>1. w.obj \in Objects /\ ProbeOf[w.obj] \in Probes
      BY <2>2, DocumentAssumption DEF Workers
    <3>2. /\ pd[ProbeOf[w.obj]] = n /\ w.id < proc[n].next_id
          /\ \A u \in proc[n].workers : (u.id = w.id \/ u.obj = w.obj) => u = w
      BY <2>1 DEF WorkersOK
    <3>3. w.pc = "wait"
      BY <1>3 DEF Quiet
    <3>4. QED
      BY <1>3, <3>1, <3>2, <3>3
  <2>4. ASSUME NEW i \in Pos, NEW w \in proc[n].workers, Serves(w, i, n)
        PROVE  i \in Pos' /\ stack'[i] = stack[i] /\ Serves(w, i, n)'
    <3>1. Served(i, n)
      BY <2>4 DEF Served
    <3>2. i \in Pos' /\ stack'[i] = stack[i]
      BY <3>1
    <3>3. QED
      BY <3>2, <2>4 DEF Serves, Waits, IsQuery
  <2>5. ASSUME NEW i, ServedAbove(i, n)
        PROVE  ServedAbove(i, n)'
    <3>1. ASSUME NEW j \in Pos', j > i, Waits(j)', stack'[j].sd = n
          PROVE  Served(j, n)'
      <4>1. j \in Pos /\ stack'[j] = stack[j] /\ Waits(j) /\ stack[j].sd = n
        BY <3>1 DEF Waits, IsQuery
      <4>2. Served(j, n) \/ (j = Len(stack) /\ Pending(n))
        BY <2>5, <3>1, <4>1 DEF ServedAbove
      <4>3. Served(j, n)
        <5>1. CASE j = Len(stack) /\ Pending(n)
          <6>1. stack # <<>> /\ Top = stack[j]
            BY <4>1, <5>1, EmptySeq DEF Pos, Top
          <6>2. ReceivesOn(n)
            BY <4>1, <5>1, <6>1 DEF ReceivesOn
          <6>3. QED
            BY <1>3, <3>1, <5>1, <6>2
        <5>2. QED
          BY <4>2, <5>1
      <4>4. PICK w \in proc[n].workers : Serves(w, j, n)
        BY <4>3 DEF Served
      <4>5. Serves(w, j, n)'
        BY <2>4, <4>1, <4>4
      <4>6. QED
        BY <1>3, <4>5 DEF Served
    <3>2. QED
      BY <3>1 DEF ServedAbove
  <2>6. ASSUME NEW w \in proc[n].workers
        PROVE  \E i \in Pos' :
                 Serves(w, i, n)' /\ ~stack'[i].skip /\ ServedAbove(i, n)'
    <3>1. PICK i \in Pos : Serves(w, i, n) /\ ~stack[i].skip /\ ServedAbove(i, n)
      BY <2>1 DEF WorkersOK
    <3>2. i \in Pos' /\ stack'[i] = stack[i] /\ Serves(w, i, n)'
      BY <2>4, <3>1
    <3>3. ServedAbove(i, n)'
      BY <2>5, <3>1
    <3>4. QED
      BY <3>1, <3>2, <3>3
  <2>7. WorkersOK(n)'
    BY <1>3, <2>3, <2>6 DEF WorkersOK
  <2>8. QED
    BY <1>1, <2>7 DEF LinkOK
<1>4. QED
  BY <1>2, <1>3

\* A step of the library that sends and takes nothing.
LEMMA SilentLinks ==
  ASSUME IInv, proc' = proc, pd' = pd, stack' \in Seq(Frame), WaitsStay,
         \A n \in Sds : ~ReceivesOn(n)
  PROVE  LinkInv'
<1>1. ASSUME NEW n \in Sds
      PROVE  LinkOK(n)'
  <2>1. Calm(n)
    BY CalmFacts
  <2>2. ASSUME NEW i \in Pos, Served(i, n)
        PROVE  i \in Pos' /\ stack'[i] = stack[i]
    <3>1. Waits(i) /\ stack[i].sd = n
      BY <2>2 DEF Served, Serves
    <3>2. stack # <<>> /\ Pos = 1 .. Len(stack) /\ Len(stack) \in Nat
          /\ Top = stack[Len(stack)]
      BY <2>2, StackFacts, EmptySeq DEF IInv, Pos
    <3>3. i < Len(stack)
      <4>1. CASE i = Len(stack)
        BY <3>1, <3>2, <4>1 DEF ReceivesOn
      <4>2. QED
        BY <3>2, <4>1
    <3>4. QED
      BY <3>1, <3>3 DEF WaitsStay
  <2>3. QED
    BY <2>1, <2>2, LinksKept DEF Calm, WaitsStay
<1>2. QED
  BY <1>1 DEF LinkInv

\* A probe is started: no query waits for it.
LEMMA ConnectLinks ==
  ASSUME IInv, Connect
  PROVE  LinkInv'
<1>1. PICK n \in Sds :
        /\ ~proc[n].open /\ pd[Probe] = NoSd
        /\ proc'[n] = NewProcess /\ \A q \in Probes : q # Probe => pd'[q] = pd[q]
        /\ \A k \in Sds : k # n => proc'[k] = proc[k]
  BY Connected
<1>2. stack' = stack /\ stack \in Seq(Frame) /\ Pos' = Pos
      /\ \A k \in Sds : ~ReceivesOn(k)
  BY StackFacts DEF IInv, Connect, At, TypeOK, Pos, ReceivesOn, Waits
<1>3. ASSUME NEW k \in Sds
      PROVE  LinkOK(k)'
  <2>1. Calm(k)
    BY <1>2, CalmFacts
  <2>2. CASE k = n
    <3>1. ~proc[n].alive
      BY <1>1 DEF IInv, DescInv
    <3>2. \A i \in Pos : ~Served(i, k)
      BY <2>2, <3>1, DeadFacts
    <3>3. proc'[k].to = <<>> /\ proc'[k].from = <<>> /\ proc'[k].workers = {}
      BY <1>1, <2>2 DEF NewProcess, NoProcess
    <3>4. QED
      BY <1>2, <3>2, <3>3, LinksKept
  <2>3. CASE k # n
    <3>1. proc'[k] = proc[k] /\ \A p \in Probes : pd[p] = k => pd'[p] = k
      BY <1>1, <2>3, SdFacts
    <3>2. QED
      BY <1>2, <2>1, <3>1, LinksKept DEF Calm
  <2>4. QED
    BY <2>2, <2>3
<1>4. QED
  BY <1>3 DEF LinkInv

\* The process at m has ended.  The calls that noticed it end, and the
\* descriptor of p is closed or that of m marked.
LEMMA EndLinks ==
  ASSUME IInv, stack' \in Seq(Frame), NEW p \in Probes, NEW m \in Sds, ~proc[m].alive,
         ClosePd(p) \/ (Reap(m) /\ pd' = pd),
         \A i \in Pos' : i \in Pos /\ stack'[i] = stack[i],
         \A i \in Pos : Waits(i) /\ stack[i].sd # m => i \in Pos',
         Len(stack) \notin Pos',
         \A n \in Sds : ReceivesOn(n) => n = m /\ Probe = p
  PROVE  LinkInv'
<1>1. TypeOK /\ DescInv /\ LinkInv
  BY DEF IInv
<1>2. proc[m].to = <<>> /\ proc[m].workers = {} /\ \A i : ~Served(i, m)
  BY DeadFacts
<1>3. ASSUME NEW n \in Sds
      PROVE  \A i \in Pos : Served(i, n) => i \in Pos' /\ stack'[i] = stack[i]
  <2>1. ASSUME NEW i \in Pos, Served(i, n)
        PROVE  i \in Pos'
    BY <1>2, <2>1 DEF Served, Serves
  <2>2. QED
    BY <2>1
<1>4. ASSUME NEW n \in Sds, proc'[n].to = <<>>, proc'[n].from = <<>> \/ proc'[n].reaped,
             \/ proc'[n].workers = {}
             \/ /\ proc'[n].workers = proc[n].workers /\ Quiet(n)
                /\ proc'[n].next_id = proc[n].next_id
                /\ \A q \in Probes : pd[q] = n => pd'[q] = n
      PROVE  LinkOK(n)'
  BY <1>3, <1>4, LinksKept
<1>5. ASSUME NEW n \in Sds, n # m, proc'[n] = proc[n],
             \A q \in Probes : pd[q] = n => pd'[q] = n
      PROVE  LinkOK(n)'
  <2>1. Calm(n)
    BY <1>5, CalmFacts
  <2>2. QED
    BY <1>4, <1>5, <2>1 DEF Calm
<1>6. CASE ClosePd(p)
  <2>1. /\ \A q \in Probes : q # p => pd'[q] = pd[q]
        /\ \A k \in Sds : proc'[k] = IF k = pd[p] THEN NoProcess ELSE proc[k]
    BY <1>1, <1>6, Closed
  <2>2. ASSUME NEW n \in Sds
        PROVE  LinkOK(n)'
    <3>1. CASE n = pd[p]
      <4>1. proc'[n].to = <<>> /\ proc'[n].from = <<>> /\ proc'[n].workers = {}
        BY <2>1, <3>1 DEF NoProcess
      <4>2. QED
        BY <1>4, <4>1
    <3>2. CASE n # pd[p] /\ n # m
      BY <1>5, <2>1, <3>2
    <3>3. CASE n # pd[p] /\ n = m
      <4>1. proc[m].from = <<>> \/ proc[m].reaped
        <5>1. CASE ReceivesOn(m)
          BY <1>1, <3>3, <5>1 DEF LinkInv, LinkOK, FromOK
        <5>2. CASE ~ReceivesOn(m)
          BY <5>2, CalmFacts DEF Calm
        <5>3. QED
          BY <5>1, <5>2
      <4>2. QED
        BY <1>2, <1>4, <2>1, <3>3, <4>1
    <3>4. QED
      BY <3>1, <3>2, <3>3
  <2>3. QED
    BY <2>2 DEF LinkInv
<1>7. CASE Reap(m) /\ pd' = pd
  <2>1. /\ proc'[m] = [proc[m] EXCEPT !.reaped = proc[m].open]
        /\ \A k \in Sds : k # m => proc'[k] = proc[k]
    BY <1>1, <1>7, Reaped
  <2>2. proc[m] \in Processes /\ (~proc[m].open => proc[m].from = <<>>)
        /\ proc[m].open \in BOOLEAN
    BY <1>1, FieldFacts DEF TypeOK, DescInv
  <2>3. /\ proc'[m].to = <<>> /\ proc'[m].workers = {}
        /\ proc'[m].from = <<>> \/ proc'[m].reaped
    BY <1>2, <2>1, <2>2 DEF Processes
  <2>4. ASSUME NEW n \in Sds
        PROVE  LinkOK(n)'
    BY <1>4, <1>5, <1>7, <2>1, <2>3
  <2>5. QED
    BY <2>4 DEF LinkInv
<1>8. QED
  BY <1>6, <1>7

\* A message is taken; its call ends, or goes on waiting if it is a command.
LEMMA TakeLinks ==
  ASSUME IInv, Receiving, proc[Top.sd].from # <<>>, ~proc[Top.sd].reaped, TakeMessage,
         pd' = pd, stack' \in Seq(Frame), WaitsStay,
         \/ Message.type \in {"result", "error"} /\ Len(stack) \notin Pos'
         \/ /\ Message.type \in {"obj_eval", "ste_fetch"} /\ Len(stack) \in Pos'
            /\ stack'[Len(stack)] = stack[Len(stack)]
  PROVE  LinkInv'
<1> DEFINE n == Top.sd
<1>1. /\ n \in Sds /\ proc[n].to = <<>> /\ Quiet(n) /\ ReceivesOn(n)
      /\ Message.type \in {"result", "error"} => ~Served(Len(stack), n)
      /\ Message.type \in {"obj_eval", "ste_fetch"} /\ proc[n].alive => Served(Len(stack), n)
  BY Arrival
<1>2. /\ proc'[n] = [proc[n] EXCEPT !.from = <<>>]
      /\ \A k \in Sds : k # n => proc'[k] = proc[k]
  BY Taken
<1>3. proc[n] \in Processes /\ stack # <<>> /\ Pos = 1 .. Len(stack) /\ Len(stack) \in Nat
  BY <1>1, StackFacts DEF IInv, TypeOK, ReceivesOn
<1>4. ASSUME NEW k \in Sds
      PROVE  LinkOK(k)'
  <2>1. ASSUME NEW i \in Pos, Served(i, k)
        PROVE  i \in Pos' /\ stack'[i] = stack[i]
    <3>1. Waits(i) /\ stack[i].sd = k
      BY <2>1 DEF Served, Serves
    <3>2. CASE i < Len(stack)
      BY <3>1, <3>2 DEF WaitsStay
    <3>3. CASE ~(i < Len(stack))
      <4>1. i = Len(stack)
        BY <1>3, <3>3
      <4>2. k = n
        BY <1>3, <3>1, <4>1 DEF Top
      <4>3. QED
        BY <1>1, <2>1, <4>1, <4>2
    <3>4. QED
      BY <3>2, <3>3
  <2>2. CASE k # n
    <3>1. ~ReceivesOn(k) /\ Calm(k)
      BY <2>2, CalmFacts DEF ReceivesOn
    <3>2. QED
      BY <1>2, <2>1, <2>2, <3>1, LinksKept DEF Calm, WaitsStay
  <2>3. CASE k = n
    <3>1. /\ proc'[n].to = <<>> /\ proc'[n].from = <<>>
          /\ proc'[n].workers = proc[n].workers /\ proc'[n].next_id = proc[n].next_id
      BY <1>1, <1>2, <1>3 DEF Processes
    <3>2. CASE proc[n].alive
      <4>1. Len(stack) \in Pos' => Served(Len(stack), n)
        BY <1>1, <3>2
      <4>2. QED
        BY <1>1, <2>1, <2>3, <3>1, <4>1, LinksKept DEF WaitsStay
    <3>3. CASE ~proc[n].alive
      <4>1. proc'[n].workers = {}
        BY <1>1, <3>1, <3>3, DeadFacts
      <4>2. QED
        BY <1>1, <2>1, <2>3, <3>1, <4>1, LinksKept DEF WaitsStay
    <3>4. QED
      BY <3>2, <3>3
  <2>4. QED
    BY <2>2, <2>3
<1>5. QED
  BY <1>4 DEF LinkInv

\* An object is sent: the query begins to wait with its object on the way.
LEMMA SendLinks ==
  ASSUME IInv, SendObject
  PROVE  LinkInv'
<1>1. TypeOK /\ StackInv /\ LinkInv /\ stack # <<>> /\ Top.call = "query" /\ Top.pc = "send"
      /\ pd' = pd /\ pd[Probe] # NoSd
  BY DEF IInv, SendObject, At
<1>2. /\ Len(stack) \in Pos /\ Pos = 1 .. Len(stack) /\ Len(stack) \in Nat
      /\ Top = stack[Len(stack)] /\ Probe \in Probes /\ Top.obj \in Objects
  BY <1>1, QueryTop, StackFacts
<1>3. pd[Probe] \in Sds
  BY <1>1, <1>2, PdFacts
<1>m. PICK m : m = ObjectMsg(proc[pd[Probe]].next_id, Top.obj, Top.skip)
  OBVIOUS
<1>4. PICK n \in Sds, l \in Pos : /\ n = pd[Probe] /\ l = Len(stack)
                                  /\ m = ObjectMsg(proc[n].next_id, Top.obj, Top.skip)
  BY <1>2, <1>3, <1>m
<1>5. ~Waits(l) /\ \A k \in Sds : ~ReceivesOn(k)
  BY <1>1, <1>2, <1>4 DEF Waits, ReceivesOn
<1>6. \A k \in Sds : Calm(k)
  BY <1>5, CalmFacts
<1>7. /\ stack' \in Seq(Frame) /\ Pos' = Pos /\ Len(stack') = l /\ Waits(l)'
      /\ \A i \in Pos : i # l => stack'[i] = stack[i]
      /\ Top' = stack'[l] /\ Top'.obj = Top.obj /\ Top'.skip = Top.skip
      /\ Top'.sd = n /\ Top'.id = proc[n].next_id
  BY SendObjectStack, <1>4 DEF StackOK
<1>8. /\ proc[n].alive
      /\ \A k \in Sds : k # n => proc'[k] = proc[k]
      /\ proc'[n].to # <<>> /\ Len(proc'[n].to) = 1 /\ proc'[n].to[1] = m
      /\ proc[n].next_id \in Nat /\ proc'[n].next_id = proc[n].next_id + 1
      /\ proc'[n].from = proc[n].from /\ proc'[n].workers = proc[n].workers
  BY <1>6, <1>4, ObjectSent DEF Calm
<1>9. m.type = "object" /\ m.id = proc[n].next_id /\ m.obj = Top.obj /\ m.ok = ~Top.skip
  BY <1>4 DEF ObjectMsg
<1>10. proc[n].from = <<>>
  <2>1. ~proc[n].reaped
    BY <1>8 DEF IInv, DescInv
  <2>2. QED
    BY <1>6, <2>1 DEF Calm
<1>11. WorkersOK(n) /\ Quiet(n)
  BY <1>1, <1>6 DEF LinkInv, LinkOK, Calm
<1>12. ASSUME NEW i \in Pos, NEW k \in Sds, Served(i, k)
       PROVE  i # l /\ stack'[i] = stack[i]
  BY <1>5, <1>7, <1>12 DEF Served, Serves
<1>13. ASSUME NEW k \in Sds, k # n
       PROVE  LinkOK(k)'
  <2>1. \A i \in Pos' : Waits(i)' /\ stack'[i].sd = k => i \in Pos /\ stack'[i] = stack[i]
    BY <1>7, <1>13
  <2>2. proc'[k] = proc[k]
    BY <1>8, <1>13
  <2>3. QED
    BY <1>1, <1>5, <1>6, <1>7, <1>12, <2>1, <2>2, LinksKept DEF Calm
<1>14. \A w \in proc[n].workers : w.id < proc[n].next_id /\ w.id \in Nat
  <2>1. proc[n].workers \subseteq Workers
    BY <1>1, FieldFacts DEF TypeOK
  <2>2. QED
    BY <1>11, <2>1 DEF WorkersOK, Workers
<1>15. stack' # <<>>
  BY <1>2, <1>7, <1>4, EmptySeq DEF Pos
<1>16. ToOK(n)'
  <2>1. ReceivesOn(n)'
    BY <1>7, <1>15 DEF ReceivesOn
  <2>2. Quiet(n)'
    BY <1>8, <1>11 DEF Quiet
  <2>3. Probe' = Probe
    BY <1>7 DEF Probe
  <2>4. \A w \in proc'[n].workers : w.id # m.id
    BY <1>8, <1>9, <1>14
  <2>5. m.id < proc'[n].next_id
    BY <1>8, <1>9
  <2>6. pd'[Probe'] = n
    BY <1>1, <1>4, <2>3
  <2>7. QED
    BY <1>7, <1>8, <1>9, <1>10, <2>1, <2>2, <2>4, <2>5, <2>6 DEF ToOK
<1>17. FromOK(n)'
  BY <1>8, <1>10 DEF FromOK
<1>18. ASSUME NEW i \in Pos, NEW w \in proc[n].workers, Serves(w, i, n)
       PROVE  i \in Pos' /\ Serves(w, i, n)' /\ i # l /\ stack'[i] = stack[i]
  <2>1. i # l /\ stack'[i] = stack[i]
    BY <1>12, <1>18 DEF Served
  <2>2. QED
    BY <1>7, <1>18, <2>1 DEF Serves, Waits, IsQuery
<1>19. ASSUME NEW i \in Pos, ServedAbove(i, n)
       PROVE  ServedAbove(i, n)'
  <2>1. ASSUME NEW j \in Pos', j > i, Waits(j)', stack'[j].sd = n, j # l
        PROVE  Served(j, n)'
    <3>1. j \in Pos /\ stack'[j] = stack[j] /\ Waits(j)
      BY <1>7, <2>1 DEF Waits, IsQuery
    <3>2. Served(j, n)
      BY <1>4, <1>19, <2>1, <3>1 DEF ServedAbove
    <3>3. PICK w \in proc[n].workers : Serves(w, j, n)
      BY <3>2 DEF Served
    <3>4. QED
      BY <1>8, <1>18, <3>1, <3>3 DEF Served
  <2>2. Pending(n)'
    BY <1>8, <1>9 DEF Pending
  <2>3. QED
    BY <1>7, <2>1, <2>2 DEF ServedAbove
<1>20. WorkersOK(n)'
  <2>1. ASSUME NEW w \in proc[n].workers
        PROVE  /\ pd'[ProbeOf[w.obj]] = n /\ w.id < proc'[n].next_id
               /\ \A u \in proc[n].workers : (u.id = w.id \/ u.obj = w.obj) => u = w
               /\ w.pc = "wait"
               /\ \E i \in Pos' : Serves(w, i, n)' /\ ~stack'[i].skip /\ ServedAbove(i, n)'
    <3>1. /\ pd[ProbeOf[w.obj]] = n /\ w.id < proc[n].next_id
          /\ \A u \in proc[n].workers : (u.id = w.id \/ u.obj = w.obj) => u = w
          /\ w.pc = "wait"
      BY <1>11 DEF WorkersOK, Quiet
    <3>2. w.id < proc'[n].next_id
      BY <1>8, <1>14
    <3>3. PICK i \in Pos : Serves(w, i, n) /\ ~stack[i].skip /\ ServedAbove(i, n)
      BY <1>11 DEF WorkersOK
    <3>4. i \in Pos' /\ Serves(w, i, n)' /\ ~stack'[i].skip /\ ServedAbove(i, n)'
      BY <1>18, <1>19, <3>3
    <3>5. QED
      BY <1>1, <3>1, <3>2, <3>4
  <2>2. QED
    BY <1>8, <2>1 DEF WorkersOK
<1>21. QED
  BY <1>13, <1>16, <1>17, <1>20 DEF LinkInv, LinkOK

\* A command is answered: the reply is on the way to the worker that waits
\* for it.
LEMMA ReplyLinks ==
  ASSUME IInv, stack # <<>>, Top.call \in {"obj_eval", "ste_fetch"},
         NEW ok \in BOOLEAN, Reply(ok), StackOK', WaitsStay, Len(stack') = Len(stack) - 1,
         Pos' = 1 .. Len(stack) - 1, \A i \in Pos' : i \in Pos /\ stack'[i] = stack[i]
  PROVE  LinkInv'
<1>1. TypeOK /\ StackInv /\ LinkInv /\ stack' \in Seq(Frame)
  BY DEF IInv, StackOK
<1>2. /\ Len(stack) \in Nat /\ Len(stack) >= 3 /\ Len(stack) - 1 \in Pos /\ Top.sd \in Sds
      /\ Top.id \in Nat /\ Outer = stack[Len(stack) - 1] /\ Waits(Len(stack) - 1)
      /\ Outer.sd = Top.sd /\ Outer.id = Top.id /\ ~Waits(Len(stack))
  BY <1>1, CommandTop
<1>m. PICK m : m = CommandReply(Top.id, ok)
  OBVIOUS
<1>3. PICK n \in Sds, l \in Pos : /\ n = Top.sd /\ l = Len(stack) - 1
                                  /\ m = CommandReply(Top.id, ok)
  BY <1>2, <1>m
<1>4. pd' = pd /\ proc[n].alive /\ Send(n, m)
  BY <1>3 DEF Reply
<1>5. \A k \in Sds : ~ReceivesOn(k)
  BY <1>2 DEF ReceivesOn
<1>6. \A k \in Sds : Calm(k)
  BY <1>5, CalmFacts
<1>7. proc[n].from = <<>>
  <2>1. ~proc[n].reaped
    BY <1>4 DEF IInv, DescInv
  <2>2. QED
    BY <1>6, <2>1 DEF Calm
<1>8. /\ \A k \in Sds : k # n => proc'[k] = proc[k]
      /\ proc'[n].to # <<>> /\ Len(proc'[n].to) = 1 /\ proc'[n].to[1] = m
      /\ proc'[n].next_id = proc[n].next_id
      /\ proc'[n].from = proc[n].from /\ proc'[n].workers = proc[n].workers
  BY <1>1, <1>2, <1>3, <1>4, <1>6, Replied DEF Calm
<1>9. m.type = "reply" /\ m.id = Top.id
  BY <1>3 DEF CommandReply
<1>10. WorkersOK(n) /\ Quiet(n)
  BY <1>1, <1>6 DEF LinkInv, LinkOK, Calm
<1>11. /\ Len(stack') = l /\ l \in Pos' /\ stack' # <<>> /\ Top' = stack'[l]
       /\ stack'[l] = Outer /\ Waits(l)'
  <2>1. Len(stack') = l /\ l \in Pos' /\ stack'[l] = Outer
    BY <1>2, <1>3
  <2>2. stack' # <<>> /\ Top' = stack'[l]
    BY <2>1, EmptySeq DEF Pos, Top
  <2>3. QED
    BY <1>2, <1>3, <2>1, <2>2 DEF Waits, IsQuery
<1>12. ASSUME NEW i \in Pos, NEW k \in Sds, Served(i, k)
       PROVE  i \in Pos' /\ stack'[i] = stack[i]
  <2>1. Waits(i) /\ i # Len(stack) /\ Pos = 1 .. Len(stack)
    BY <1>1, <1>2, <1>12, StackFacts DEF Served, Serves
  <2>2. i < Len(stack)
    BY <1>2, <2>1
  <2>3. QED
    BY <2>1, <2>2 DEF WaitsStay
<1>13. ASSUME NEW k \in Sds, k # n
       PROVE  LinkOK(k)'
  <2>1. proc'[k] = proc[k]
    BY <1>8, <1>13
  <2>2. QED
    BY <1>1, <1>4, <1>5, <1>6, <1>12, <2>1, LinksKept DEF Calm, WaitsStay
<1>14. ASSUME NEW i \in Pos, NEW w \in proc[n].workers, Serves(w, i, n)
       PROVE  i \in Pos' /\ Serves(w, i, n)' /\ stack'[i] = stack[i]
  <2>1. i \in Pos' /\ stack'[i] = stack[i]
    BY <1>12, <1>14 DEF Served
  <2>2. QED
    BY <1>14, <2>1 DEF Serves, Waits, IsQuery
<1>15. ASSUME NEW i \in Pos, ServedAbove(i, n)
       PROVE  \A j \in Pos' : j > i /\ Waits(j)' /\ stack'[j].sd = n => Served(j, n)'
  <2>1. ASSUME NEW j \in Pos', j > i, Waits(j)', stack'[j].sd = n
        PROVE  Served(j, n)'
    <3>1. j \in Pos /\ stack'[j] = stack[j] /\ Waits(j)
      BY <2>1 DEF WaitsStay, Waits, IsQuery
    <3>2. j # Len(stack)
      BY <1>2, <3>1
    <3>3. Served(j, n)
      BY <1>15, <2>1, <3>1, <3>2 DEF ServedAbove
    <3>4. PICK w \in proc[n].workers : Serves(w, j, n)
      BY <3>3 DEF Served
    <3>5. QED
      BY <1>8, <1>14, <3>1, <3>4 DEF Served
  <2>2. QED
    BY <2>1
<1>16. Served(l, n)' \/ proc'[n].workers = {}
  <2>1. ASSUME NEW w \in proc[n].workers
        PROVE  Served(l, n)'
    <3>1. PICK i \in Pos : Serves(w, i, n) /\ ServedAbove(i, n)
      BY <1>10 DEF WorkersOK
    <3>2. i \in Pos' /\ Serves(w, i, n)'
      BY <1>14, <3>1
    <3>3. CASE i = l
      BY <1>8, <3>2, <3>3 DEF Served
    <3>4. CASE i # l
      <4>1. l > i
        BY <1>2, <1>3, <3>2, <3>4
      <4>2. stack'[l].sd = n
        BY <1>2, <1>3, <1>11
      <4>3. QED
        BY <1>11, <1>15, <3>1, <4>1, <4>2
    <3>5. QED
      BY <3>3, <3>4
  <2>2. QED
    BY <1>8, <2>1
<1>17. ToOK(n)'
  <2>1. ReceivesOn(n)' /\ m.id = Top'.id
    BY <1>2, <1>3, <1>9, <1>11 DEF ReceivesOn
  <2>2. Quiet(n)'
    BY <1>8, <1>10 DEF Quiet
  <2>3. Served(Len(stack), n)' \/ proc'[n].workers = {}
    BY <1>11, <1>16 DEF Served, Serves, Waits, IsQuery
  <2>4. QED
    BY <1>7, <1>8, <1>9, <2>1, <2>2, <2>3 DEF ToOK
<1>18. FromOK(n)'
  BY <1>7, <1>8 DEF FromOK
<1>19. WorkersOK(n)'
  <2>1. ASSUME NEW w \in proc[n].workers
        PROVE  /\ pd'[ProbeOf[w.obj]] = n /\ w.id < proc'[n].next_id
               /\ \A u \in proc[n].workers : (u.id = w.id \/ u.obj = w.obj) => u = w
               /\ w.pc = "wait"
               /\ \E i \in Pos' : Serves(w, i, n)' /\ ~stack'[i].skip /\ ServedAbove(i, n)'
    <3>1. /\ pd[ProbeOf[w.obj]] = n /\ w.id < proc[n].next_id
          /\ \A u \in proc[n].workers : (u.id = w.id \/ u.obj = w.obj) => u = w
          /\ w.pc = "wait"
      BY <1>10 DEF WorkersOK, Quiet
    <3>2. PICK i \in Pos : Serves(w, i, n) /\ ~stack[i].skip /\ ServedAbove(i, n)
      BY <1>10 DEF WorkersOK
    <3>3. i \in Pos' /\ Serves(w, i, n)' /\ ~stack'[i].skip
      BY <1>14, <3>2
    <3>4. ServedAbove(i, n)'
      BY <1>15, <3>2 DEF ServedAbove
    <3>5. QED
      BY <1>4, <1>8, <3>1, <3>3, <3>4
  <2>2. QED
    BY <1>8, <2>1 DEF WorkersOK
<1>20. QED
  BY <1>13, <1>17, <1>18, <1>19 DEF LinkInv, LinkOK
-----------------------------------------------------------------------------
(* Each step of the library keeps the types, the stack and the messages in *)
(* order.                                                                  *)

CoreOK == TypeOK /\ StackInv /\ LinkInv

\* The invariant of the stack is about the stack, what was returned and flags.
LEMMA StackSame ==
  ASSUME StackInv, UNCHANGED <<stack, ret, flag, varflag>>
  PROVE  StackInv'
<1>1. stack' = stack /\ ret' = ret /\ flag' = flag /\ varflag' = varflag
  OBVIOUS
<1>2. Pos' = Pos
  BY <1>1 DEF Pos
<1>3. ShapeInv'
  <2>1. ASSUME NEW i \in Pos, i > 1
        PROVE  Makes(stack[i - 1], stack[i])'
    <3>1. Makes(stack[i - 1], stack[i])
      BY <2>1 DEF StackInv, ShapeInv
    <3>2. QED
      BY <1>1, <3>1 DEF Makes
  <2>2. Expects(Top) => Expects(Top)'
    BY <1>1 DEF Expects, Top
  <2>3. QED
    BY <1>1, <1>2, <2>1, <2>2 DEF StackInv, ShapeInv
<1>4. RankInv' /\ ReturnInv'
  BY <1>1, <1>2 DEF StackInv, RankInv, ReturnInv, IsQuery, Reading, Top
<1>5. QueryInv'
  <2>1. ASSUME NEW i \in Pos, IsQuery(i)
        PROVE  QueryOK(stack[i])'
    <3>1. QueryOK(stack[i])
      BY <2>1 DEF StackInv, QueryInv
    <3>2. QED
      BY <1>1, <3>1 DEF QueryOK, Unusable
  <2>2. \A i \in Pos : IsQuery(i)' = IsQuery(i)
    BY <1>1 DEF IsQuery
  <2>3. QED
    BY <1>2, <2>1, <2>2 DEF QueryInv
<1>6. QED
  BY <1>3, <1>4, <1>5 DEF StackInv

\* Types after a step that leaves the processes alone.
LEMMA TypesKept ==
  ASSUME TypeOK, StackOK', proc' = proc, pd' = pd,
         ret' \in {"none", "ok", "warn", "fail", "aborted"}, oscap_err' \in BOOLEAN,
         flag' \in [Objects -> Flags \cup {"none", "unknown"}],
         varflag' \in [Variables -> Flags \cup {"unknown"}],
         queries' \in 0 .. MaxQueries, crashes' \in 0 .. MaxCrashes
  PROVE  TypeOK'
BY DEF TypeOK, StackOK

\* No message is taken while the innermost call does not wait for one.
LEMMA NotWaiting ==
  ASSUME IInv, stack # <<>>, Top.call # "query" \/ Top.pc # "recv"
  PROVE  \A n \in Sds : ~ReceivesOn(n)
<1>1. Top = stack[Len(stack)]
  BY StackFacts DEF IInv
<1>2. QED
  BY <1>1 DEF ReceivesOn, Waits, IsQuery

\* Tests and variables.
LEMMA TestSteps ==
  ASSUME IInv,
         \/ \E o \in Objects : Evaluate(o)
         \/ ObjectQueried \/ ReadVariable \/ VariableRead \/ UseVariable \/ CriterionDone
  PROVE  CoreOK'
<1>1. TypeOK
  BY DEF IInv
<1>2. ASSUME StackOK', WaitsStay, proc' = proc, pd' = pd,
             \A n \in Sds : ~ReceivesOn(n), TypeOK'
      PROVE  CoreOK'
  BY <1>2, SilentLinks DEF CoreOK, StackOK
<1>3. ASSUME NEW o \in Objects, Evaluate(o)
      PROVE  CoreOK'
  <2>1. StackOK' /\ WaitsStay /\ \A n \in Sds : ~ReceivesOn(n)
    BY <1>3, EvaluateStack DEF Evaluate, ReceivesOn
  <2>2. queries' \in 0 .. MaxQueries
    BY <1>1, <1>3, DocumentAssumption DEF Evaluate, TypeOK
  <2>3. TypeOK'
    BY <1>1, <1>3, <2>1, <2>2, TypesKept DEF Evaluate, TypeOK
  <2>4. QED
    BY <1>2, <1>3, <2>1, <2>3 DEF Evaluate
<1>4. CASE ObjectQueried
  <2>1. StackOK' /\ WaitsStay
    BY <1>4, ObjectQueriedStack
  <2>2. TypeOK'
    BY <1>1, <1>4, <2>1, TypesKept DEF ObjectQueried, TypeOK
  <2>3. QED
    BY <1>2, <1>4, <2>1, <2>2, NotWaiting DEF ObjectQueried, Returned
<1>5. CASE ReadVariable
  <2>1. StackOK' /\ WaitsStay
    BY <1>5, ReadVariableStack
  <2>2. TypeOK'
    BY <1>1, <1>5, <2>1, TypesKept DEF ReadVariable, TypeOK
  <2>3. QED
    BY <1>2, <1>5, <2>1, <2>2, NotWaiting DEF ReadVariable, Reading
<1>6. CASE VariableRead
  <2>1. StackOK' /\ WaitsStay /\ varflag' \in [Variables -> Flags \cup {"unknown"}]
    BY <1>6, VariableReadStack
  <2>2. TypeOK'
    BY <1>1, <1>6, <2>1, TypesKept DEF VariableRead, TypeOK
  <2>3. QED
    BY <1>2, <1>6, <2>1, <2>2, NotWaiting DEF VariableRead, Reading
<1>7. CASE UseVariable
  <2>1. StackOK' /\ WaitsStay /\ flag' \in [Objects -> Flags \cup {"none", "unknown"}]
    BY <1>7, UseVariableStack
  <2>2. TypeOK'
    BY <1>1, <1>7, <2>1, TypesKept DEF UseVariable, TypeOK
  <2>3. QED
    BY <1>2, <1>7, <2>1, <2>2, NotWaiting DEF UseVariable, Reading
<1>8. CASE CriterionDone
  <2>1. StackOK' /\ WaitsStay
    BY <1>8, CriterionDoneStack
  <2>2. TypeOK'
    BY <1>1, <1>8, <2>1, TypesKept DEF CriterionDone, TypeOK
  <2>3. QED
    BY <1>2, <1>8, <2>1, <2>2, NotWaiting DEF CriterionDone, At
<1>9. QED
  BY <1>3, <1>4, <1>5, <1>6, <1>7, <1>8

\* A query up to its message.
LEMMA QuerySteps ==
  ASSUME IInv, QueryKnown \/ QueryUnsupported \/ QueryNew \/ ObjectConverted \/ ConnectFails
                 \/ FetchState
  PROVE  CoreOK'
<1>1. TypeOK
  BY DEF IInv
<1>2. ASSUME StackOK', WaitsStay, proc' = proc, pd' = pd,
             \A n \in Sds : ~ReceivesOn(n), TypeOK'
      PROVE  CoreOK'
  BY <1>2, SilentLinks DEF CoreOK, StackOK
<1>3. CASE QueryKnown
  <2>1. StackOK' /\ WaitsStay
    BY <1>3, QueryKnownStack
  <2>2. TypeOK'
    BY <1>1, <1>3, <2>1, TypesKept DEF QueryKnown, Return, TypeOK
  <2>3. QED
    BY <1>2, <1>3, <2>1, <2>2, NotWaiting DEF QueryKnown, At
<1>4. CASE QueryUnsupported
  <2>1. StackOK' /\ WaitsStay /\ flag' \in [Objects -> Flags \cup {"none", "unknown"}]
    BY <1>4, QueryUnsupportedStack
  <2>2. TypeOK'
    BY <1>1, <1>4, <2>1, TypesKept DEF QueryUnsupported, Return, TypeOK
  <2>3. QED
    BY <1>2, <1>4, <2>1, <2>2, NotWaiting DEF QueryUnsupported, At
<1>5. CASE QueryNew
  <2>1. StackOK' /\ WaitsStay /\ flag' \in [Objects -> Flags \cup {"none", "unknown"}]
    BY <1>5, QueryNewStack
  <2>2. TypeOK'
    BY <1>1, <1>5, <2>1, TypesKept DEF QueryNew, TypeOK
  <2>3. QED
    BY <1>2, <1>5, <2>1, <2>2, NotWaiting DEF QueryNew, At
<1>6. CASE ObjectConverted
  <2>1. StackOK' /\ WaitsStay
    BY <1>6, ObjectConvertedStack
  <2>2. TypeOK'
    BY <1>1, <1>6, <2>1, TypesKept DEF ObjectConverted, TypeOK
  <2>3. QED
    BY <1>2, <1>6, <2>1, <2>2, NotWaiting DEF ObjectConverted, At
<1>7. CASE ConnectFails
  <2>1. stack # <<>> /\ Top.call = "query" /\ stack' = Below /\ ret' = "fail"
        /\ varflag' = varflag /\ flag' = flag /\ StackInv
    BY <1>7 DEF ConnectFails, At, Fail, Return, IInv
  <2>2. StackOK' /\ WaitsStay
    BY <1>1, <2>1, QueryFails
  <2>3. crashes' \in 0 .. MaxCrashes
    BY <1>1, <1>7, DocumentAssumption DEF ConnectFails, TypeOK
  <2>4. TypeOK'
    BY <1>1, <1>7, <2>1, <2>2, <2>3, TypesKept DEF ConnectFails, Fail, TypeOK
  <2>5. QED
    BY <1>2, <1>7, <2>2, <2>4, NotWaiting DEF ConnectFails, At
<1>8. CASE FetchState
  <2>1. StackOK' /\ WaitsStay
    BY <1>8, FetchStateStack
  <2>2. TypeOK'
    BY <1>1, <1>8, <2>1, TypesKept DEF FetchState, TypeOK
  <2>3. QED
    BY <1>2, <1>8, <2>1, <2>2, NotWaiting DEF FetchState, At
<1>9. QED
  BY <1>3, <1>4, <1>5, <1>6, <1>7, <1>8

\* A probe is started, and sent an object.
LEMMA SendSteps ==
  ASSUME IInv, Connect \/ SendObject
  PROVE  CoreOK'
<1>1. TypeOK /\ StackInv
  BY DEF IInv
<1>2. CASE Connect
  <2>1. LinkInv'
    BY <1>2, ConnectLinks
  <2>2. StackInv'
    BY <1>1, <1>2, StackSame DEF Connect
  <2>3. proc' \in [Sds -> Processes] /\ pd' \in [Probes -> Sds \cup {NoSd}]
    BY <1>2, Connected
  <2>4. TypeOK'
    BY <1>1, <1>2, <2>3 DEF Connect, TypeOK
  <2>5. QED
    BY <2>1, <2>2, <2>4 DEF CoreOK
<1>3. CASE SendObject
  <2>1. LinkInv' /\ StackOK'
    BY <1>3, SendLinks, SendObjectStack
  <2>2. proc[pd[Probe]].to = <<>>
    <3>1. Probe \in Probes /\ pd[Probe] # NoSd /\ \A n \in Sds : ~ReceivesOn(n)
      BY <1>1, <1>3, QueryTop, NotWaiting DEF SendObject, At
    <3>2. pd[Probe] \in Sds
      BY <1>1, <3>1, PdFacts
    <3>3. QED
      BY <3>1, <3>2, CalmFacts DEF Calm
  <2>3. proc' \in [Sds -> Processes]
    BY <1>3, <2>2, ObjectSent
  <2>4. TypeOK'
    BY <1>1, <1>3, <2>1, <2>3 DEF SendObject, TypeOK, StackOK
  <2>5. QED
    BY <2>1, <2>4 DEF CoreOK, StackOK
<1>4. QED
  BY <1>2, <1>3

\* A message arrives.
LEMMA ReceiveSteps ==
  ASSUME IInv, RecvResult \/ RecvError \/ RecvObjEval \/ RecvSteFetch
  PROVE  CoreOK'
<1>1. TypeOK /\ StackInv /\ Receiving /\ stack # <<>> /\ Top.call = "query"
      /\ proc[Top.sd].from # <<>> /\ ~proc[Top.sd].reaped /\ TakeMessage /\ pd' = pd
  BY DEF IInv, RecvResult, RecvError, RecvObjEval, RecvSteFetch, Receiving, At, Arrived
<1>2. proc' \in [Sds -> Processes]
  BY <1>1, Taken
<1>3. Len(stack) \in Nat /\ Len(stack) \notin 1 .. Len(stack) - 1
  BY <1>1, StackFacts
<1>4. CASE RecvResult
  <2>1. StackOK' /\ WaitsStay /\ Len(stack) \notin Pos'
        /\ flag' \in [Objects -> Flags \cup {"none", "unknown"}]
    BY <1>3, <1>4, RecvResultStack
  <2>2. Message.type = "result"
    BY <1>4 DEF RecvResult, Arrived, Message
  <2>3. LinkInv'
    BY <1>1, <2>1, <2>2, TakeLinks DEF StackOK
  <2>4. TypeOK'
    BY <1>1, <1>2, <1>4, <2>1 DEF RecvResult, Return, TypeOK, StackOK
  <2>5. QED
    BY <2>1, <2>3, <2>4 DEF CoreOK, StackOK
<1>5. CASE RecvError
  <2>1. stack' = Below /\ ret' = "fail" /\ varflag' = varflag /\ flag' = flag
    BY <1>5 DEF RecvError, Fail, Return
  <2>2. StackOK' /\ WaitsStay /\ Len(stack) \notin Pos'
    BY <1>1, <1>3, <2>1, QueryFails
  <2>3. Message.type = "error"
    BY <1>5 DEF RecvError, Arrived, Message
  <2>4. LinkInv'
    BY <1>1, <2>2, <2>3, TakeLinks DEF StackOK
  <2>5. TypeOK'
    BY <1>1, <1>2, <1>5, <2>1, <2>2 DEF RecvError, Fail, TypeOK, StackOK
  <2>6. QED
    BY <2>2, <2>4, <2>5 DEF CoreOK, StackOK
<1>6. CASE RecvObjEval
  <2>1. /\ StackOK' /\ WaitsStay /\ Len(stack) \in Pos'
        /\ stack'[Len(stack)] = stack[Len(stack)]
    BY <1>6, RecvObjEvalStack
  <2>2. Message.type = "obj_eval"
    BY <1>6 DEF RecvObjEval, Arrived, Message
  <2>3. LinkInv'
    BY <1>1, <2>1, <2>2, TakeLinks DEF StackOK
  <2>4. TypeOK'
    BY <1>1, <1>2, <1>6, <2>1 DEF RecvObjEval, TypeOK, StackOK
  <2>5. QED
    BY <2>1, <2>3, <2>4 DEF CoreOK, StackOK
<1>7. CASE RecvSteFetch
  <2>1. /\ StackOK' /\ WaitsStay /\ Len(stack) \in Pos'
        /\ stack'[Len(stack)] = stack[Len(stack)]
    BY <1>7, RecvSteFetchStack
  <2>2. Message.type = "ste_fetch"
    BY <1>7 DEF RecvSteFetch, Arrived, Message
  <2>3. LinkInv'
    BY <1>1, <2>1, <2>2, TakeLinks DEF StackOK
  <2>4. TypeOK'
    BY <1>1, <1>2, <1>7, <2>1 DEF RecvSteFetch, TypeOK, StackOK
  <2>5. QED
    BY <2>1, <2>3, <2>4 DEF CoreOK, StackOK
<1>8. QED
  BY <1>4, <1>5, <1>6, <1>7

\* A query ends because the process it is about has.
LEMMA QueryEnds ==
  ASSUME IInv, stack # <<>>, Top.call = "query", stack' = Below,
         ret' \in {"fail", "aborted"}, varflag' = varflag, flag' = flag,
         NEW m \in Sds, ~proc[m].alive, Top.pc = "recv" => m = Top.sd,
         ClosePd(Probe) \/ (Reap(m) /\ pd' = pd)
  PROVE  /\ StackOK' /\ LinkInv'
         /\ proc' \in [Sds -> Processes] /\ pd' \in [Probes -> Sds \cup {NoSd}]
<1>1. TypeOK /\ StackInv
  BY DEF IInv
<1>2. /\ StackOK' /\ Pos' = 1 .. Len(stack) - 1
      /\ \A i \in Pos' : i \in Pos /\ stack'[i] = stack[i]
  BY <1>1, QueryReturns
<1>3. Probe \in Probes /\ Len(stack) \in Nat /\ Pos = 1 .. Len(stack)
      /\ Top = stack[Len(stack)]
  BY <1>1, QueryTop, StackFacts
<1>4. ASSUME NEW i \in Pos, Waits(i), stack[i].sd # m
      PROVE  i \in Pos'
  <2>1. CASE i = Len(stack)
    BY <1>3, <1>4, <2>1 DEF Waits
  <2>2. CASE i # Len(stack)
    BY <1>2, <1>3, <2>2
  <2>3. QED
    BY <2>1, <2>2
<1>5. PICK p \in Probes : p = Probe
  BY <1>3
<1>6. \A n \in Sds : ReceivesOn(n) => n = m /\ Probe = p
  BY <1>3, <1>5 DEF ReceivesOn, Waits
<1>7. Len(stack) \notin Pos' /\ stack' \in Seq(Frame)
  BY <1>2, <1>3 DEF StackOK
<1>8. ClosePd(p) \/ (Reap(m) /\ pd' = pd)
  BY <1>5
<1>9. LinkInv'
  BY <1>2, <1>4, <1>6, <1>7, <1>8, EndLinks
<1>10. proc' \in [Sds -> Processes] /\ pd' \in [Probes -> Sds \cup {NoSd}]
  BY <1>1, <1>8, Closed, Reaped DEF TypeOK
<1>11. QED
  BY <1>2, <1>9, <1>10

\* The end of a process is noticed by a query.
LEMMA DeathSteps ==
  ASSUME IInv, SendFails \/ RecvDead \/ RecvEOF
  PROVE  CoreOK'
<1>1. TypeOK /\ StackInv /\ stack # <<>> /\ Top.call = "query" /\ Probe \in Probes
      /\ Top = stack[Len(stack)] /\ FrameOK(Top)
  BY QueryTop, StackFacts DEF IInv, SendFails, RecvDead, RecvEOF, Receiving, At
<1>2. stack' = Below /\ ret' \in {"fail", "aborted"} /\ varflag' = varflag /\ flag' = flag
      /\ oscap_err' \in BOOLEAN /\ queries' = queries /\ crashes' = crashes
  BY <1>1 DEF SendFails, RecvDead, RecvEOF, Fail, Return, TypeOK
<1>3. \E m \in Sds : /\ ~proc[m].alive
                     /\ Top.pc = "recv" => m = Top.sd
                     /\ ClosePd(Probe) \/ (Reap(m) /\ pd' = pd)
  <2>1. CASE SendFails
    <3>1. pd[Probe] \in Sds
      BY <1>1, <2>1, PdFacts DEF SendFails
    <3>2. /\ ~proc[pd[Probe]].alive /\ Top.pc # "recv"
          /\ ClosePd(Probe) \/ (Reap(pd[Probe]) /\ pd' = pd)
      BY <2>1 DEF SendFails, At
    <3>3. QED
      BY <3>1, <3>2
  <2>2. CASE RecvDead
    <3>1. Top.sd \in Sds
      BY <1>1, <2>2 DEF RecvDead, Receiving, At, FrameOK
    <3>2. /\ ~proc[Top.sd].alive
          /\ ClosePd(Probe) \/ (Reap(Top.sd) /\ pd' = pd)
      BY <2>2 DEF RecvDead
    <3>3. QED
      BY <3>1, <3>2
  <2>3. CASE RecvEOF
    <3>1. Top.sd \in Sds
      BY <1>1, <2>3 DEF RecvEOF, Receiving, At, FrameOK
    <3>2. ~proc[Top.sd].alive /\ ClosePd(Probe)
      BY <2>3 DEF RecvEOF
    <3>3. QED
      BY <3>1, <3>2
  <2>4. QED
    BY <2>1, <2>2, <2>3
<1>4. /\ StackOK' /\ LinkInv'
      /\ proc' \in [Sds -> Processes] /\ pd' \in [Probes -> Sds \cup {NoSd}]
  BY <1>1, <1>2, <1>3, QueryEnds
<1>5. TypeOK'
  BY <1>1, <1>2, <1>4 DEF TypeOK, StackOK
<1>6. QED
  BY <1>4, <1>5 DEF CoreOK, StackOK

\* A command has been served.
LEMMA CommandSteps ==
  ASSUME IInv, ObjEvalDone \/ SteFetchDone
  PROVE  CoreOK'
<1>1. TypeOK /\ StackInv /\ stack # <<>> /\ Top.call \in {"obj_eval", "ste_fetch"}
      /\ varflag' = varflag /\ flag' = flag /\ queries' = queries /\ crashes' = crashes
      /\ oscap_err \in BOOLEAN
  BY DEF IInv, ObjEvalDone, SteFetchDone, At, Returned, TypeOK
<1>2. oscap_err' \in BOOLEAN /\ ((\E ok \in BOOLEAN : Reply(ok)) \/ ReplyFails)
  <2>1. CASE ObjEvalDone
    <3>1. (~oscap_err) \in BOOLEAN
      OBVIOUS
    <3>2. (Reply(~oscap_err) \/ ReplyFails) /\ oscap_err' \in BOOLEAN
      BY <2>1 DEF ObjEvalDone
    <3>3. QED
      BY <3>1, <3>2
  <2>2. CASE SteFetchDone
    BY <1>1, <2>2 DEF SteFetchDone
  <2>3. QED
    BY <2>1, <2>2
<1>3. /\ Top.sd \in Sds /\ Top.id \in Nat /\ Outer = stack[Len(stack) - 1]
      /\ Outer.obj \in Objects /\ Waits(Len(stack) - 1) /\ Outer.sd = Top.sd
      /\ ~Waits(Len(stack)) /\ Len(stack) \in Nat /\ Len(stack) >= 3
      /\ Pos = 1 .. Len(stack)
  BY <1>1, CommandTop, StackFacts
<1>4. \A n \in Sds : ~ReceivesOn(n)
  BY <1>3 DEF ReceivesOn
<1>5. CASE \E ok \in BOOLEAN : Reply(ok)
  <2>1. PICK ok \in BOOLEAN : Reply(ok)
    BY <1>5
  <2>2. stack' = Below /\ ret' = "none" /\ pd' = pd /\ Send(Top.sd, CommandReply(Top.id, ok))
    BY <2>1 DEF Reply
  <2>3. /\ StackOK' /\ WaitsStay
        /\ Len(stack') = Len(stack) - 1 /\ Pos' = 1 .. Len(stack) - 1
        /\ \A i \in Pos' : i \in Pos /\ stack'[i] = stack[i]
    BY <1>1, <2>2, CallsEnd
  <2>4. LinkInv'
    BY <1>1, <2>1, <2>3, ReplyLinks
  <2>5. proc[Top.sd].to = <<>>
    BY <1>3, <1>4, CalmFacts DEF Calm
  <2>6. proc' \in [Sds -> Processes]
    BY <1>1, <1>3, <2>2, <2>5, Replied
  <2>7. TypeOK'
    BY <1>1, <1>2, <2>2, <2>3, <2>6 DEF TypeOK, StackOK
  <2>8. QED
    BY <2>3, <2>4, <2>7 DEF CoreOK, StackOK
<1>6. CASE ReplyFails
  <2>1. /\ StackOK' /\ Pos' = 1 .. Len(stack) - 2
        /\ \A i \in Pos' : i \in Pos /\ stack'[i] = stack[i]
    BY <1>1, <1>6, ReplyFailsStack
  <2>2. PICK m \in Sds, p \in Probes : m = Top.sd /\ p = ProbeOf[Outer.obj]
    BY <1>3, DocumentAssumption
  <2>3. ~proc[m].alive /\ (ClosePd(p) \/ (Reap(m) /\ pd' = pd)) /\ ret' = "fail"
    BY <1>6, <2>2 DEF ReplyFails
  <2>4. ASSUME NEW i \in Pos, Waits(i), stack[i].sd # m
        PROVE  i \in Pos'
    <3>1. i # Len(stack) /\ i # Len(stack) - 1
      BY <1>3, <2>2, <2>4
    <3>2. QED
      BY <1>3, <2>1, <3>1
  <2>5. Len(stack) \notin Pos' /\ stack' \in Seq(Frame)
    BY <1>3, <2>1 DEF StackOK
  <2>6. LinkInv'
    BY <1>4, <2>1, <2>3, <2>4, <2>5, EndLinks
  <2>7. proc' \in [Sds -> Processes] /\ pd' \in [Probes -> Sds \cup {NoSd}]
    BY <1>1, <2>3, Closed, Reaped DEF TypeOK
  <2>8. TypeOK'
    BY <1>1, <1>2, <2>1, <2>3, <2>7 DEF TypeOK, StackOK
  <2>9. QED
    BY <2>1, <2>6, <2>8 DEF CoreOK, StackOK
<1>7. QED
  BY <1>2, <1>5, <1>6

\* All steps of the library.
LEMMA LibraryCore ==
  ASSUME IInv, LibraryStep \/ ConnectFails \/ \E o \in Objects : Evaluate(o)
  PROVE  CoreOK'
BY TestSteps, QuerySteps, SendSteps, ReceiveSteps, DeathSteps, CommandSteps
   DEF LibraryStep
-----------------------------------------------------------------------------
(* What the steps of the library do to descriptors, caches and flags.      *)

SameWork(n) == proc'[n].workers = proc[n].workers /\ proc'[n].rcache = proc[n].rcache
Emptied(n) == /\ proc'[n].workers = {}
              /\ \A k \in Objects \cup States : proc'[n].rcache[k] = "none"
VarsKept == \A v \in Variables : varflag[v] # "unknown" => varflag'[v] = varflag[v]

\* The library adds nothing to a cache and starts no worker.
Steady ==
  /\ DescInv'
  /\ \A n \in Sds : SameWork(n) \/ Emptied(n)
  /\ \A p \in Probes : pd'[p] = NoSd \/ pd'[p] = pd[p] \/ Emptied(pd'[p])

\* An object whose variables are all usable stays one.
LEMMA UsableStays ==
  ASSUME VarsKept, NEW o \in Objects, AllUsable(o)
  PROVE  AllUsable(o)'
<1>1. SeqRange(VarRefs[o]) \subseteq Variables
  BY DocumentAssumption, RangeFacts
<1>2. ASSUME NEW v \in SeqRange(VarRefs[o])
      PROVE  Usable(varflag'[v])
  BY <1>1 DEF AllUsable, Usable, VarsKept
<1>3. QED
  BY <1>2 DEF AllUsable

\* Caches and workers that stay, or are gone, fit as before.
LEMMA WorkKept ==
  ASSUME IInv, VarsKept, \A n \in Sds : SameWork(n) \/ Emptied(n)
  PROVE  TodoInv' /\ CacheInv' /\ SetsSeeMembers'
<1>1. TodoInv /\ CacheInv /\ SetsSeeMembers /\ TypeOK
  BY DEF IInv
<1>2. ASSUME NEW n \in Sds, NEW w \in proc'[n].workers
      PROVE  TodoOK(n, w)'
  <2>1. SameWork(n) /\ w \in proc[n].workers
    BY <1>2 DEF SameWork, Emptied
  <2>2. TodoOK(n, w)
    BY <1>1, <2>1 DEF TodoInv
  <2>3. \A k : Cached(n, k)' = Cached(n, k)
    BY <2>1 DEF SameWork, Cached
  <2>4. QED
    BY <2>2, <2>3 DEF TodoOK, MembersLeft, FiltersLeft, SeesMembers
<1>3. ASSUME NEW n \in Sds
      PROVE  WorkersCached(n)' /\ CacheOK(n)'
  <2>1. CASE SameWork(n)
    <3>1. WorkersCached(n)'
      BY <1>1, <2>1 DEF CacheInv, WorkersCached, Cached, SameWork
    <3>2. CacheOK(n)'
      <4>1. CacheOK(n)
        BY <1>1 DEF CacheInv
      <4>2. QED
        BY <2>1, <4>1, UsableStays DEF CacheOK, Cached, SameWork
    <3>3. QED
      BY <3>1, <3>2
  <2>2. CASE Emptied(n)
    BY <2>2 DEF Emptied, WorkersCached, CacheOK, Cached
  <2>3. QED
    BY <2>1, <2>2
<1>4. SetsSeeMembers'
  <2>1. ASSUME NEW n \in Sds, NEW o \in Objects, proc'[n].rcache[o] \notin {"none", "error"},
               NEW m \in SeqRange(Members[o])
        PROVE  Cached(n, m)'
    <3>1. SameWork(n)
      BY <2>1 DEF Emptied
    <3>2. Cached(n, m)
      BY <1>1, <2>1, <3>1 DEF SetsSeeMembers, SameWork
    <3>3. QED
      BY <3>1, <3>2 DEF Cached, SameWork
  <2>2. QED
    BY <2>1 DEF SetsSeeMembers
<1>5. QED
  BY <1>2, <1>3, <1>4 DEF TodoInv, CacheInv

\* Only what is on the way changes, or that a dead process is known as one.
LEMMA StillSteady ==
  ASSUME IInv, pd' = pd,
         \A n \in Sds :
            /\ SameWork(n)
            /\ proc'[n].open = proc[n].open /\ proc'[n].alive = proc[n].alive
            /\ proc'[n].reaped = proc[n].reaped \/ ~proc[n].alive
            /\ proc'[n].to = proc[n].to \/ proc[n].alive
            /\ proc'[n].from = proc[n].from \/ proc'[n].from = <<>>
  PROVE  Steady
<1>1. DescInv
  BY DEF IInv
<1>2. \A p \in Probes : pd'[p] # NoSd => p \in Supported /\ pd[p] \in Sds /\ proc[pd[p]].open
  BY <1>1, PdFacts DEF IInv, DescInv
<1>3. \A n \in Sds, k \in Objects \cup States : Cached(n, k)' = Cached(n, k)
  BY DEF SameWork, Cached
<1>4. DescInv'
  BY <1>1, <1>2, <1>3 DEF DescInv, SameWork
<1>5. QED
  BY <1>4 DEF Steady

\* A descriptor is closed.
LEMMA CloseSteady ==
  ASSUME IInv, NEW p \in Probes, ClosePd(p)
  PROVE  Steady
<1>1. TypeOK /\ DescInv
  BY DEF IInv
<1>2. /\ pd'[p] = NoSd /\ \A q \in Probes : q # p => pd'[q] = pd[q]
      /\ \A k \in Sds : proc'[k] = IF k = pd[p] THEN NoProcess ELSE proc[k]
  BY <1>1, Closed
<1>3. ASSUME NEW n \in Sds
      PROVE  /\ SameWork(n) \/ Emptied(n)
             /\ proc'[n].alive => proc'[n].open /\ ~proc'[n].reaped
             /\ ~proc'[n].alive => /\ proc'[n].to = <<>> /\ proc'[n].workers = {}
                                   /\ \A k \in Objects \cup States : ~Cached(n, k)'
             /\ ~proc'[n].open => proc'[n].from = <<>>
  <2>1. CASE n = pd[p]
    <3>1. proc'[n] = NoProcess
      BY <1>2, <2>1
    <3>2. QED
      BY <3>1 DEF Emptied, NoProcess, Cached
  <2>2. CASE n # pd[p]
    <3>1. proc'[n] = proc[n]
      BY <1>2, <2>2
    <3>2. QED
      BY <1>1, <3>1 DEF SameWork, DescInv, Cached
  <2>3. QED
    BY <2>1, <2>2
<1>4. ASSUME NEW q \in Probes, pd'[q] # NoSd
      PROVE  q # p /\ pd'[q] = pd[q] /\ q \in Supported /\ proc'[pd'[q]].open
  <2>1. q # p /\ pd'[q] = pd[q]
    BY <1>2, <1>4
  <2>2. pd[q] # pd[p] /\ pd[q] \in Sds /\ q \in Supported /\ proc[pd[q]].open
    BY <1>1, <1>4, <2>1, PdFacts DEF DescInv
  <2>3. QED
    BY <1>2, <2>1, <2>2
<1>5. DescInv'
  <2>1. \A q1, q2 \in Probes : pd'[q1] = pd'[q2] /\ pd'[q1] # NoSd => q1 = q2
    BY <1>1, <1>4 DEF DescInv
  <2>2. QED
    BY <1>3, <1>4, <2>1 DEF DescInv
<1>6. QED
  BY <1>2, <1>3, <1>5 DEF Steady

\* A probe is started.
LEMMA ConnectSteady ==
  ASSUME IInv, Connect
  PROVE  Steady
<1>1. TypeOK /\ DescInv /\ StackInv
  BY DEF IInv
<1>2. PICK n \in Sds :
        /\ ~proc[n].open /\ pd[Probe] = NoSd /\ Probe \in Probes
        /\ pd'[Probe] = n /\ \A q \in Probes : q # Probe => pd'[q] = pd[q]
        /\ proc'[n] = NewProcess
        /\ \A k \in Sds : k # n => proc'[k] = proc[k]
  BY Connected
<1>3. Probe \in Supported
  <2>1. Top.call = "query" /\ Top.pc = "send" /\ stack # <<>>
    BY DEF Connect, At
  <2>2. QueryOK(Top)
    BY <1>1, <2>1, QueryTop DEF StackInv, QueryInv, Top
  <2>3. QED
    BY <2>1, <2>2 DEF QueryOK, Probe
<1>4. /\ proc'[n].open /\ proc'[n].alive /\ ~proc'[n].reaped /\ Emptied(n)
  BY <1>2 DEF NewProcess, NoProcess, Emptied
<1>5. ASSUME NEW q \in Probes, q # Probe, pd'[q] # NoSd
      PROVE  pd'[q] = pd[q] /\ q \in Supported /\ proc'[pd'[q]].open /\ pd'[q] # n
  <2>1. pd'[q] = pd[q] /\ pd[q] \in Sds /\ q \in Supported /\ proc[pd[q]].open
    BY <1>1, <1>2, <1>5, PdFacts DEF DescInv
  <2>2. pd[q] # n
    BY <1>2, <2>1
  <2>3. QED
    BY <1>2, <2>1, <2>2
<1>6. DescInv'
  <2>1. \A q \in Probes : pd'[q] # NoSd => q \in Supported /\ proc'[pd'[q]].open
    BY <1>2, <1>3, <1>4, <1>5
  <2>2. \A q1, q2 \in Probes : pd'[q1] = pd'[q2] /\ pd'[q1] # NoSd => q1 = q2
    BY <1>1, <1>2, <1>5 DEF DescInv
  <2>3. ASSUME NEW k \in Sds
        PROVE  /\ proc'[k].alive => proc'[k].open /\ ~proc'[k].reaped
               /\ ~proc'[k].alive => /\ proc'[k].to = <<>> /\ proc'[k].workers = {}
                                     /\ \A c \in Objects \cup States : ~Cached(k, c)'
               /\ ~proc'[k].open => proc'[k].from = <<>>
    <3>1. CASE k = n
      BY <1>4, <3>1
    <3>2. CASE k # n
      BY <1>1, <1>2, <3>2 DEF DescInv, Cached
    <3>3. QED
      BY <3>1, <3>2
  <2>4. QED
    BY <2>1, <2>2, <2>3 DEF DescInv
<1>7. QED
  BY <1>2, <1>4, <1>6 DEF Steady, SameWork

\* The end of a process is noticed.
LEMMA ReapSteady ==
  ASSUME IInv, NEW n \in Sds, ~proc[n].alive, Reap(n), pd' = pd
  PROVE  Steady
<1>1. TypeOK
  BY DEF IInv
<1>2. /\ proc'[n] = [proc[n] EXCEPT !.reaped = proc[n].open]
      /\ \A k \in Sds : k # n => proc'[k] = proc[k]
  BY <1>1, Reaped
<1>3. proc[n] \in Processes
  BY <1>1 DEF TypeOK
<1>4. /\ SameWork(n) /\ proc'[n].open = proc[n].open /\ proc'[n].alive = proc[n].alive
      /\ proc'[n].to = proc[n].to /\ proc'[n].from = proc[n].from
  BY <1>2, <1>3 DEF Processes, SameWork
<1>5. QED
  BY <1>2, <1>4, StillSteady DEF SameWork

\* A message is taken.
LEMMA TakeSteady ==
  ASSUME IInv, Receiving, proc[Top.sd].from # <<>>, ~proc[Top.sd].reaped, TakeMessage,
         pd' = pd
  PROVE  Steady
<1>1. TypeOK /\ Top.sd \in Sds
  BY Arrival DEF IInv
<1>2. /\ proc'[Top.sd] = [proc[Top.sd] EXCEPT !.from = <<>>]
      /\ \A k \in Sds : k # Top.sd => proc'[k] = proc[k]
  BY Taken
<1>3. proc[Top.sd] \in Processes
  BY <1>1 DEF TypeOK
<1>4. /\ SameWork(Top.sd) /\ proc'[Top.sd].open = proc[Top.sd].open
      /\ proc'[Top.sd].alive = proc[Top.sd].alive /\ proc'[Top.sd].to = proc[Top.sd].to
      /\ proc'[Top.sd].from = <<>> /\ proc'[Top.sd].reaped = proc[Top.sd].reaped
  BY <1>2, <1>3 DEF Processes, SameWork
<1>5. QED
  BY <1>2, <1>4, StillSteady DEF SameWork

\* An object is sent.
LEMMA SendSteady ==
  ASSUME IInv, SendObject
  PROVE  Steady
<1>1. TypeOK /\ StackInv /\ stack # <<>> /\ Top.call = "query" /\ Top.pc = "send"
      /\ pd' = pd /\ pd[Probe] # NoSd
  BY DEF IInv, SendObject, At
<1>2. pd[Probe] \in Sds /\ \A n \in Sds : ~ReceivesOn(n)
  BY <1>1, QueryTop, PdFacts, NotWaiting
<1>3. proc[pd[Probe]].to = <<>>
  BY <1>2, CalmFacts DEF Calm
<1>4. PICK n \in Sds : n = pd[Probe]
  BY <1>2
<1>5. /\ proc[n].alive /\ SameWork(n)
      /\ proc'[n].open = proc[n].open /\ proc'[n].alive = proc[n].alive
      /\ proc'[n].reaped = proc[n].reaped /\ proc'[n].from = proc[n].from
      /\ \A k \in Sds : k # n => proc'[k] = proc[k]
  BY <1>3, <1>4, ObjectSent DEF SameWork
<1>6. QED
  BY <1>1, <1>5, StillSteady DEF SameWork

\* A command is answered.
LEMMA ReplySteady ==
  ASSUME IInv, stack # <<>>, Top.call \in {"obj_eval", "ste_fetch"},
         NEW ok \in BOOLEAN, Reply(ok)
  PROVE  Steady
<1>1. TypeOK /\ StackInv
  BY DEF IInv
<1>2. PICK n \in Sds, id \in Nat : n = Top.sd /\ id = Top.id
  BY <1>1, CommandTop
<1>3. pd' = pd /\ proc[n].alive /\ Send(n, CommandReply(id, ok))
  BY <1>2 DEF Reply
<1>4. proc[n].to = <<>>
  BY CalmFacts, NotWaiting DEF Calm
<1>5. /\ SameWork(n)
      /\ proc'[n].open = proc[n].open /\ proc'[n].alive = proc[n].alive
      /\ proc'[n].reaped = proc[n].reaped /\ proc'[n].from = proc[n].from
      /\ \A k \in Sds : k # n => proc'[k] = proc[k]
  BY <1>1, <1>3, <1>4, Replied DEF SameWork
<1>6. QED
  BY <1>3, <1>5, StillSteady DEF SameWork

\* All steps of the library.
LEMMA LibrarySteady ==
  ASSUME IInv, LibraryStep \/ ConnectFails \/ \E o \in Objects : Evaluate(o)
  PROVE  Steady /\ VarsKept
<1>1. TypeOK /\ StackInv
  BY DEF IInv
<1>2. ASSUME proc' = proc, pd' = pd
      PROVE  Steady
  BY <1>2, StillSteady DEF SameWork
<1>3. ASSUME varflag' = varflag
      PROVE  VarsKept
  BY <1>3 DEF VarsKept
<1>4. ASSUME NEW o \in Objects, Evaluate(o)
      PROVE  Steady /\ VarsKept
  BY <1>2, <1>3, <1>4 DEF Evaluate
<1>5. CASE \/ ObjectQueried \/ ReadVariable \/ UseVariable \/ CriterionDone \/ QueryKnown
           \/ QueryUnsupported \/ QueryNew \/ ObjectConverted \/ ConnectFails \/ FetchState
  BY <1>2, <1>3, <1>5 DEF ObjectQueried, ReadVariable, UseVariable, CriterionDone,
     QueryKnown, QueryUnsupported, QueryNew, ObjectConverted, ConnectFails, FetchState
<1>6. CASE VariableRead
  BY <1>2, <1>6, VariableReadStack DEF VariableRead, VarsKept
<1>7. CASE Connect \/ SendObject
  BY <1>3, <1>7, ConnectSteady, SendSteady DEF Connect, SendObject
<1>8. CASE RecvResult \/ RecvError \/ RecvObjEval \/ RecvSteFetch
  <2>1. Receiving /\ proc[Top.sd].from # <<>> /\ ~proc[Top.sd].reaped /\ TakeMessage
        /\ pd' = pd /\ varflag' = varflag
    BY <1>8 DEF RecvResult, RecvError, RecvObjEval, RecvSteFetch, Arrived
  <2>2. QED
    BY <1>3, <2>1, TakeSteady
<1>9. CASE SendFails \/ RecvDead \/ RecvEOF
  <2>1. stack # <<>> /\ Top.call = "query" /\ varflag' = varflag
    BY <1>9 DEF SendFails, RecvDead, RecvEOF, Receiving, At
  <2>2. Probe \in Probes /\ FrameOK(Top)
    BY <1>1, <2>1, QueryTop
  <2>3. \/ ClosePd(Probe)
        \/ \E n \in Sds : ~proc[n].alive /\ Reap(n) /\ pd' = pd
    <3>1. CASE SendFails
      BY <1>1, <2>2, <3>1, PdFacts DEF SendFails
    <3>2. CASE RecvDead
      BY <2>2, <3>2 DEF RecvDead, Receiving, At, FrameOK
    <3>3. CASE RecvEOF
      BY <3>3 DEF RecvEOF
    <3>4. QED
      BY <1>9, <3>1, <3>2, <3>3
  <2>4. PICK p \in Probes : p = Probe
    BY <2>2
  <2>5. ClosePd(p) => Steady
    BY CloseSteady
  <2>6. QED
    BY <1>3, <2>1, <2>3, <2>4, <2>5, ReapSteady
<1>10. CASE ObjEvalDone \/ SteFetchDone
  <2>1. stack # <<>> /\ Top.call \in {"obj_eval", "ste_fetch"} /\ varflag' = varflag
        /\ oscap_err \in BOOLEAN
    BY <1>1, <1>10 DEF ObjEvalDone, SteFetchDone, At, Returned, TypeOK
  <2>2. (\E ok \in BOOLEAN : Reply(ok)) \/ ReplyFails
    BY <1>10, <2>1 DEF ObjEvalDone, SteFetchDone
  <2>3. CASE \E ok \in BOOLEAN : Reply(ok)
    BY <1>3, <2>1, <2>3, ReplySteady
  <2>4. CASE ReplyFails
    <3>1. PICK n \in Sds, p \in Probes : n = Top.sd /\ p = ProbeOf[Outer.obj]
      BY <1>1, <2>1, CommandTop, DocumentAssumption
    <3>2. ~proc[n].alive /\ (ClosePd(p) \/ (Reap(n) /\ pd' = pd))
      BY <2>4, <3>1 DEF ReplyFails
    <3>3. ClosePd(p) => Steady
      BY CloseSteady
    <3>4. QED
      BY <1>3, <2>1, <3>2, <3>3, ReapSteady
  <2>5. QED
    BY <2>2, <2>3, <2>4
<1>11. QED
  BY <1>4, <1>5, <1>6, <1>7, <1>8, <1>9, <1>10 DEF LibraryStep

\* A flag changes only while it is not known, to what the probe has cached
\* for the object if it has anything.
LEMMA FlagEffect ==
  ASSUME IInv, LibraryStep \/ ConnectFails \/ \E o \in Objects : Evaluate(o),
         NEW o \in Objects, flag'[o] # flag[o]
  PROVE  /\ flag[o] \notin Flags
         /\ flag'[o] \in Flags /\ pd[ProbeOf[o]] # NoSd /\ Cached(pd[ProbeOf[o]], o)
              => flag'[o] = proc[pd[ProbeOf[o]]].rcache[o]
<1>1. TypeOK /\ StackInv /\ DescInv /\ CacheInv /\ flag \in [Objects -> Flags \cup {"none", "unknown"}]
      /\ ProbeOf[o] \in Probes
  BY DocumentAssumption DEF IInv, TypeOK
<1>2. QueryUnsupported \/ QueryNew \/ UseVariable \/ RecvResult
  BY DEF LibraryStep, Evaluate, ObjectQueried, ReadVariable, VariableRead, CriterionDone,
     QueryKnown, ObjectConverted, Connect, ConnectFails, SendObject, SendFails, RecvError,
     RecvObjEval, RecvSteFetch, RecvDead, RecvEOF, ObjEvalDone, FetchState, SteFetchDone
<1>3. ASSUME stack # <<>>, Top.call = "query"
      PROVE  Top.obj \in Objects /\ QueryOK(Top) /\ FrameOK(Top) /\ Top \in Frame
  BY <1>1, <1>3, QueryTop DEF StackInv, QueryInv, Top
<1>4. CASE QueryUnsupported
  <2>1. flag' = [flag EXCEPT ![Top.obj] = "not_collected"] /\ Top.obj \in Objects
        /\ ProbeOf[Top.obj] \notin Supported /\ ~Known(Top.obj, Top.slave)
    BY <1>3, <1>4 DEF QueryUnsupported, At
  <2>2. o = Top.obj
    BY <1>1, <2>1
  <2>3. flag[o] \notin Flags
    BY <2>1, <2>2 DEF Known, Flags
  <2>4. pd[ProbeOf[o]] = NoSd
    BY <1>1, <2>1, <2>2 DEF DescInv
  <2>5. QED
    BY <2>3, <2>4
<1>5. CASE QueryNew
  <2>1. flag' = [flag EXCEPT ![Top.obj] = IF flag[Top.obj] = "none" THEN "unknown" ELSE flag[Top.obj]]
        /\ Top.obj \in Objects
    BY <1>3, <1>5 DEF QueryNew, At
  <2>2. o = Top.obj /\ flag[o] = "none" /\ flag'[o] = "unknown"
    BY <1>1, <2>1
  <2>3. QED
    BY <2>2 DEF Flags
<1>6. CASE UseVariable
  <2> DEFINE v == Head(Top.vars)
  <2>1. stack # <<>> /\ Top.pc = "vars" /\ Top.vars # <<>> /\ Top.call = "query"
        /\ ~Usable(varflag[v]) /\ flag' = [flag EXCEPT ![Top.obj] = "does_not_exist"]
    BY <1>6 DEF UseVariable, Reading
  <2>2. o = Top.obj /\ flag'[o] = "does_not_exist"
    BY <1>1, <1>3, <2>1
  <2>3. flag[o] = "unknown" /\ SeqRange(Top.vars) \subseteq SeqRange(VarRefs[o])
    BY <1>3, <2>1, <2>2 DEF QueryOK
  <2>4. v \in SeqRange(VarRefs[o])
    BY <1>3, <2>1, <2>3, RangeFacts DEF Frame
  <2>5. ~AllUsable(o)
    BY <2>1, <2>4 DEF AllUsable
  <2>6. ASSUME pd[ProbeOf[o]] # NoSd, Cached(pd[ProbeOf[o]], o)
        PROVE  proc[pd[ProbeOf[o]]].rcache[o] = "does_not_exist"
    <3>1. pd[ProbeOf[o]] \in Sds
      BY <1>1, <2>6, PdFacts
    <3>2. QED
      BY <1>1, <2>5, <2>6, <3>1 DEF CacheInv, CacheOK
  <2>7. QED
    BY <2>2, <2>3, <2>6 DEF Flags
<1>7. CASE RecvResult
  <2>1. Receiving /\ Arrived("result") /\ stack # <<>> /\ Top.call = "query" /\ Top.pc = "recv"
        /\ Message.type = "result" /\ ~Top.slave /\ flag' = [flag EXCEPT ![Top.obj] = Message.flag]
    BY <1>7 DEF RecvResult, Receiving, At, Arrived, Message
  <2>2. o = Top.obj /\ flag'[o] = Message.flag
    BY <1>1, <1>3, <2>1
  <2>3. /\ Top.sd \in Sds /\ Top.sd = pd[Probe]
        /\ Top.skip => Message.flag = "does_not_exist"
        /\ proc[Top.sd].alive => proc[Top.sd].rcache[Top.obj] = Message.flag
    BY <2>1, Arrival DEF Arrived
  <2>4. ~Top.skip => flag[o] = "unknown"
    BY <1>3, <2>1, <2>2 DEF QueryOK
  <2>5. Top.skip => flag[o] = "does_not_exist"
    BY <1>3, <2>1, <2>2 DEF QueryOK
  <2>6. ~Top.skip
    BY <2>2, <2>3, <2>5
  <2>7. Cached(Top.sd, o) => proc[Top.sd].alive
    BY <1>1, <2>3 DEF DescInv
  <2>8. Top.sd = pd[ProbeOf[o]]
    BY <2>2, <2>3 DEF Probe
  <2>9. QED
    BY <2>2, <2>3, <2>4, <2>6, <2>7, <2>8 DEF Flags
<1>8. QED
  BY <1>2, <1>4, <1>5, <1>6, <1>7

\* What is reported for an object is what its probe has cached.
LEMMA LibraryReports ==
  ASSUME IInv, LibraryStep \/ ConnectFails \/ \E o \in Objects : Evaluate(o)
  PROVE  ReportsCachedResult'
<1>1. ReportsCachedResult /\ TypeOK /\ Steady
  BY LibrarySteady DEF IInv
<1>2. ASSUME NEW o \in Objects, pd'[ProbeOf[o]] # NoSd,
             proc'[pd'[ProbeOf[o]]].rcache[o] # "none", flag'[o] \in Flags
      PROVE  flag'[o] = proc'[pd'[ProbeOf[o]]].rcache[o]
  <2>1. PICK p \in Probes : p = ProbeOf[o]
    BY DocumentAssumption
  <2>2. ~Emptied(pd'[p])
    BY <1>2, <2>1 DEF Emptied, Cached
  <2>3. pd'[p] = pd[p] /\ pd[p] \in Sds
    BY <1>1, <1>2, <2>1, <2>2, PdFacts DEF Steady
  <2>4. SameWork(pd[p])
    BY <1>1, <2>2, <2>3 DEF Steady
  <2>5. Cached(pd[p], o)
    BY <1>2, <2>1, <2>3, <2>4 DEF SameWork, Cached
  <2>6. flag'[o] = proc[pd[p]].rcache[o]
    <3>1. CASE flag'[o] = flag[o]
      BY <1>1, <1>2, <2>1, <2>3, <2>5, <3>1 DEF ReportsCachedResult
    <3>2. CASE flag'[o] # flag[o]
      BY <1>2, <2>1, <2>3, <2>5, <3>2, FlagEffect
    <3>3. QED
      BY <3>1, <3>2
  <2>7. QED
    BY <2>1, <2>3, <2>4, <2>6 DEF SameWork
<1>3. QED
  BY <1>2 DEF ReportsCachedResult, Cached

\* The library keeps the invariant.
LEMMA LibraryKeeps ==
  ASSUME IInv, LibraryStep \/ ConnectFails \/ \E o \in Objects : Evaluate(o)
  PROVE  IInv'
<1>1. CoreOK' /\ Steady /\ VarsKept /\ ReportsCachedResult'
  BY LibraryCore, LibrarySteady, LibraryReports
<1>2. TodoInv' /\ CacheInv' /\ SetsSeeMembers'
  BY <1>1, WorkKept DEF Steady
<1>3. QED
  BY <1>1, <1>2 DEF IInv, CoreOK, Steady
-----------------------------------------------------------------------------
(* The steps of a probe process: what they may touch, and what the         *)
(* invariant says of the process and of the call that waits for it.        *)

DescOK(n) ==
  /\ proc[n].alive => proc[n].open /\ ~proc[n].reaped
  /\ ~proc[n].alive => /\ proc[n].to = <<>> /\ proc[n].workers = {}
                       /\ \A k \in Objects \cup States : ~Cached(n, k)
  /\ ~proc[n].open => proc[n].from = <<>>

\* All that the invariant says of one process.
ProcessOK(n) ==
  /\ DescOK(n) /\ LinkOK(n) /\ WorkersCached(n) /\ CacheOK(n)
  /\ \A w \in proc[n].workers : TodoOK(n, w)
  /\ \A o \in Objects : proc[n].rcache[o] \notin {"none", "error"} => SeesMembers(n, o)
  /\ \A o \in Objects : pd[ProbeOf[o]] = n /\ Cached(n, o) /\ flag[o] \in Flags
                           => flag[o] = proc[n].rcache[o]

\* A step of the process at n.
ProcessStep(n) ==
  /\ UNCHANGED libraryVars
  /\ proc' \in [Sds -> Processes]
  /\ \A k \in Sds : k # n => proc'[k] = proc[k]

\* What depends on the library alone stays.
LEMMA LibrarySame ==
  ASSUME UNCHANGED libraryVars
  PROVE  /\ stack' = stack /\ Pos' = Pos /\ Top' = Top /\ Probe' = Probe /\ pd' = pd
         /\ flag' = flag /\ varflag' = varflag /\ ret' = ret
         /\ \A w, i, n : Serves(w, i, n)' <=> Serves(w, i, n)
         /\ \A i : Waits(i)' <=> Waits(i)
         /\ \A n : ReceivesOn(n)' <=> ReceivesOn(n)
         /\ \A o : AllUsable(o)' <=> AllUsable(o)
<1>1. stack' = stack /\ pd' = pd /\ flag' = flag /\ varflag' = varflag /\ ret' = ret
  BY DEF libraryVars
<1>2. Pos' = Pos /\ Top' = Top
  BY <1>1 DEF Pos, Top
<1>3. Probe' = Probe
  BY <1>2 DEF Probe
<1>4. \A i : Waits(i)' <=> Waits(i)
  BY <1>1 DEF Waits, IsQuery
<1>5. \A w, i, n : Serves(w, i, n)' <=> Serves(w, i, n)
  BY <1>1, <1>4 DEF Serves
<1>6. \A n : ReceivesOn(n)' <=> ReceivesOn(n)
  BY <1>1, <1>2, <1>4 DEF ReceivesOn
<1>7. \A o : AllUsable(o)' <=> AllUsable(o)
  BY <1>1 DEF AllUsable
<1>8. QED
  BY <1>1, <1>2, <1>3, <1>4, <1>5, <1>6, <1>7

\* The invariant speaks of each process alone.
LEMMA ProcessFine ==
  ASSUME IInv, NEW n \in Sds
  PROVE  ProcessOK(n)
<1>1. DescOK(n)
  BY DEF IInv, DescInv, DescOK
<1>2. LinkOK(n) /\ WorkersCached(n) /\ CacheOK(n) /\ \A w \in proc[n].workers : TodoOK(n, w)
  BY DEF IInv, LinkInv, CacheInv, TodoInv
<1>3. \A o \in Objects : proc[n].rcache[o] \notin {"none", "error"} => SeesMembers(n, o)
  BY DEF IInv, SetsSeeMembers, SeesMembers
<1>4. \A o \in Objects : pd[ProbeOf[o]] = n /\ Cached(n, o) /\ flag[o] \in Flags
                           => flag[o] = proc[n].rcache[o]
  BY SdFacts DEF IInv, ReportsCachedResult
<1>5. QED
  BY <1>1, <1>2, <1>3, <1>4 DEF ProcessOK

\* A process that a step of the probes leaves alone stays in order.
LEMMA ProcessSame ==
  ASSUME IInv, NEW k \in Sds, UNCHANGED libraryVars, proc'[k] = proc[k]
  PROVE  ProcessOK(k)'
<1>1. /\ stack' = stack /\ Pos' = Pos /\ Top' = Top /\ Probe' = Probe /\ pd' = pd
      /\ flag' = flag /\ varflag' = varflag /\ ret' = ret
      /\ \A w, i, n : Serves(w, i, n)' <=> Serves(w, i, n)
      /\ \A i : Waits(i)' <=> Waits(i)
      /\ \A n : ReceivesOn(n)' <=> ReceivesOn(n)
      /\ \A o : AllUsable(o)' <=> AllUsable(o)
  BY LibrarySame
<1>2. ProcessOK(k)
  BY ProcessFine
<1>3. \A c : Cached(k, c)' <=> Cached(k, c)
  BY DEF Cached
<1>4. DescOK(k)'
  BY <1>2, <1>3 DEF ProcessOK, DescOK
<1>5. Quiet(k)' <=> Quiet(k)
  BY DEF Quiet
<1>6. \A i : Served(i, k)' <=> Served(i, k)
  BY <1>1 DEF Served
<1>7. ToOK(k)'
  BY <1>1, <1>2, <1>5, <1>6 DEF ProcessOK, LinkOK, ToOK
<1>8. FromOK(k)'
  BY <1>1, <1>2, <1>5, <1>6 DEF ProcessOK, LinkOK, FromOK
<1>9. \A i : ServedAbove(i, k)' <=> ServedAbove(i, k)
  BY <1>1, <1>6 DEF ServedAbove, Pending
<1>10. WorkersOK(k)'
  BY <1>1, <1>2, <1>9 DEF ProcessOK, LinkOK, WorkersOK
<1>11. WorkersCached(k)' /\ CacheOK(k)'
  BY <1>1, <1>2, <1>3 DEF ProcessOK, WorkersCached, CacheOK
<1>12. \A w \in proc'[k].workers : TodoOK(k, w)'
  BY <1>2, <1>3 DEF ProcessOK, TodoOK, MembersLeft, FiltersLeft, SeesMembers
<1>13. /\ \A o \in Objects : proc'[k].rcache[o] \notin {"none", "error"} => SeesMembers(k, o)'
       /\ \A o \in Objects : pd'[ProbeOf[o]] = k /\ Cached(k, o)' /\ flag'[o] \in Flags
                               => flag'[o] = proc'[k].rcache[o]
  BY <1>1, <1>2, <1>3 DEF ProcessOK, SeesMembers
<1>14. QED
  BY <1>4, <1>7, <1>8, <1>10, <1>11, <1>12, <1>13 DEF ProcessOK, LinkOK

\* A step of the probes that keeps each process in order keeps the invariant.
LEMMA ProcessesKeep ==
  ASSUME IInv, UNCHANGED libraryVars, proc' \in [Sds -> Processes],
         crashes' \in 0 .. MaxCrashes,
         \A k \in Sds : proc'[k].open = proc[k].open /\ ProcessOK(k)'
  PROVE  IInv'
<1>1. TypeOK /\ StackInv /\ DescInv
  BY DEF IInv
<1>2. stack' = stack /\ pd' = pd /\ flag' = flag /\ varflag' = varflag /\ ret' = ret
  BY LibrarySame
<1>3. TypeOK'
  BY <1>1, <1>2 DEF TypeOK, libraryVars
<1>4. StackInv'
  BY <1>1, <1>2, StackSame
<1>5. DescInv'
  <2>1. ASSUME NEW p \in Probes, pd'[p] # NoSd
        PROVE  p \in Supported /\ proc'[pd'[p]].open
    <3>1. pd[p] \in Sds /\ p \in Supported /\ proc[pd[p]].open
      BY <1>1, <1>2, <2>1, PdFacts DEF DescInv
    <3>2. QED
      BY <1>2, <3>1
  <2>2. \A k \in Sds : DescOK(k)'
    BY DEF ProcessOK
  <2>3. QED
    BY <1>1, <1>2, <2>1, <2>2 DEF DescInv, DescOK
<1>6. LinkInv' /\ TodoInv' /\ CacheInv'
  BY DEF ProcessOK, LinkInv, TodoInv, CacheInv
<1>7. SetsSeeMembers'
  BY DEF ProcessOK, SetsSeeMembers, SeesMembers
<1>8. ReportsCachedResult'
  <2>1. ASSUME NEW o \in Objects, pd'[ProbeOf[o]] # NoSd,
               proc'[pd'[ProbeOf[o]]].rcache[o] # "none", flag'[o] \in Flags
        PROVE  flag'[o] = proc'[pd'[ProbeOf[o]]].rcache[o]
    <3>1. PICK k \in Sds : k = pd'[ProbeOf[o]]
      BY <1>3, <2>1, DocumentAssumption DEF TypeOK
    <3>2. Cached(k, o)' /\ ProcessOK(k)'
      BY <2>1, <3>1 DEF Cached
    <3>3. QED
      BY <2>1, <3>1, <3>2 DEF ProcessOK
  <2>2. QED
    BY <2>1 DEF ReportsCachedResult, Cached
<1>9. QED
  BY <1>3, <1>4, <1>5, <1>6, <1>7, <1>8 DEF IInv

\* A step of one process that keeps it in order keeps the invariant.
LEMMA ProcessKeeps ==
  ASSUME IInv, NEW n \in Sds, ProcessStep(n), crashes' \in 0 .. MaxCrashes,
         proc'[n].open = proc[n].open, ProcessOK(n)'
  PROVE  IInv'
<1>1. UNCHANGED libraryVars /\ proc' \in [Sds -> Processes]
  BY DEF ProcessStep
<1>2. ASSUME NEW k \in Sds, k # n
      PROVE  proc'[k].open = proc[k].open /\ ProcessOK(k)'
  <2>1. proc'[k] = proc[k]
    BY <1>2 DEF ProcessStep
  <2>2. QED
    BY <1>1, <2>1, ProcessSame
<1>3. \A k \in Sds : proc'[k].open = proc[k].open /\ ProcessOK(k)'
  <2>1. ASSUME NEW k \in Sds
        PROVE  proc'[k].open = proc[k].open /\ ProcessOK(k)'
    <3>1. CASE k = n
      BY <3>1
    <3>2. CASE k # n
      BY <1>2, <3>2
    <3>3. QED
      BY <3>1, <3>2
  <2>2. QED
    BY <2>1
<1>4. QED
  BY <1>1, <1>3, ProcessesKeep

\* A call that waits for the process at n in SEAP_recvmsg.
LEMMA WaitingTop ==
  ASSUME IInv, NEW n \in Sds, stack # <<>>, Waits(Len(stack)), Top.sd = n
  PROVE  /\ ReceivesOn(n) /\ Len(stack) \in Pos /\ Len(stack) \in Nat
         /\ Pos = 1 .. Len(stack) /\ Top = stack[Len(stack)]
         /\ Top.obj \in Objects /\ Top.skip \in BOOLEAN
         /\ Top.skip => flag[Top.obj] = "does_not_exist" /\ Unusable(Top.obj)
         /\ ~Top.skip => flag[Top.obj] = "unknown" /\ AllUsable(Top.obj)
         /\ \A i \in Pos : Waits(i) /\ stack[i].obj = Top.obj => i = Len(stack)
<1>1. TypeOK /\ StackInv /\ RankInv /\ QueryInv
  BY DEF IInv, StackInv
<1>2. Len(stack) \in Pos /\ Len(stack) \in Nat /\ Pos = 1 .. Len(stack) /\ Top = stack[Len(stack)]
  BY <1>1, StackFacts
<1>3. Top.call = "query" /\ Top.pc = "recv"
  BY <1>2 DEF Waits, IsQuery
<1>4. Top.obj \in Objects /\ FrameOK(Top) /\ Top \in Frame /\ IsQuery(Len(stack))
  BY <1>1, <1>3, QueryTop
<1>5. QueryOK(Top) /\ Top.vars = <<>>
  BY <1>1, <1>2, <1>3, <1>4 DEF QueryInv, Top, FrameOK
<1>6. SeqRange(Top.vars) = {}
  BY <1>4, <1>5, RangeFacts DEF Frame
<1>7. /\ Top.skip => flag[Top.obj] = "does_not_exist" /\ Unusable(Top.obj)
      /\ ~Top.skip => flag[Top.obj] = "unknown" /\ AllUsable(Top.obj)
  BY <1>3, <1>5, <1>6 DEF QueryOK, AllUsable
<1>8. ASSUME NEW i \in Pos, Waits(i), stack[i].obj = Top.obj, i # Len(stack)
      PROVE  FALSE
  <2>1. IsQuery(i) /\ i < Len(stack)
    BY <1>2, <1>8 DEF Waits
  <2>2. Rank[Top.obj] < Rank[stack[i].obj]
    BY <1>1, <1>2, <1>4, <2>1 DEF RankInv
  <2>3. Rank[Top.obj] \in Nat
    BY <1>4, DocumentAssumption
  <2>4. QED
    BY <1>8, <2>2, <2>3
<1>9. QED
  BY <1>2, <1>4, <1>7, <1>8 DEF ReceivesOn, Frame

\* A message is on the way to the process at n.
LEMMA InputTop ==
  ASSUME IInv, NEW n \in Sds, proc[n].to # <<>>
  PROVE  LET m == Head(proc[n].to) IN
         /\ proc[n] \in Processes /\ proc[n].alive /\ proc[n].open /\ ~proc[n].reaped
         /\ proc[n].from = <<>> /\ Quiet(n) /\ Tail(proc[n].to) = <<>>
         /\ m \in Inbound /\ m.id = Top.id /\ m.id \in Nat
         /\ stack # <<>> /\ Waits(Len(stack)) /\ Top.sd = n
         /\ m.type = "object" =>
              /\ pd[Probe] = n /\ m.obj = Top.obj /\ m.ok = ~Top.skip
              /\ m.id < proc[n].next_id /\ ~Served(Len(stack), n)
              /\ \A w \in proc[n].workers : w.id # m.id /\ w.obj # m.obj
         /\ m.type = "reply" => Served(Len(stack), n) \/ proc[n].workers = {}
<1> DEFINE m == Head(proc[n].to)
<1>1. proc[n] \in Processes /\ ToOK(n) /\ WorkersOK(n) /\ DescOK(n)
  BY ProcessFine DEF IInv, TypeOK, ProcessOK, LinkOK
<1>2. proc[n].to \in Seq(Inbound) /\ Len(proc[n].to) = 1
  BY <1>1, FieldFacts DEF ToOK
<1>3. m = proc[n].to[1] /\ m \in Inbound /\ Tail(proc[n].to) = <<>>
  BY <1>2, OneFacts
<1>4. proc[n].alive /\ proc[n].open /\ ~proc[n].reaped
  BY <1>1 DEF DescOK
<1>5. /\ proc[n].from = <<>> /\ Quiet(n) /\ m.id = Top.id
      /\ stack # <<>> /\ Waits(Len(stack)) /\ Top.sd = n
      /\ m.type = "object" =>
           /\ pd[Probe] = n /\ m.obj = Top.obj /\ m.ok = ~Top.skip
           /\ m.id < proc[n].next_id
           /\ \A w \in proc[n].workers : w.id # m.id
      /\ m.type = "reply" => Served(Len(stack), n) \/ proc[n].workers = {}
  BY <1>1, <1>3 DEF ToOK, ReceivesOn
<1>6. m.id \in Nat
  BY <1>3 DEF Inbound
<1>7. ASSUME m.type = "object"
      PROVE  /\ ~Served(Len(stack), n)
             /\ \A w \in proc[n].workers : w.obj # m.obj
  <2>1. Top = stack[Len(stack)]
        /\ \A i \in Pos : Waits(i) /\ stack[i].obj = Top.obj => i = Len(stack)
    BY <1>5, WaitingTop
  <2>2. ~Served(Len(stack), n)
    BY <1>5, <1>7, <2>1 DEF Served, Serves
  <2>3. ASSUME NEW w \in proc[n].workers, w.obj = m.obj
        PROVE  FALSE
    <3>1. PICK i \in Pos : Serves(w, i, n)
      BY <1>1 DEF WorkersOK
    <3>2. i = Len(stack)
      BY <1>5, <1>7, <2>1, <2>3, <3>1 DEF Serves
    <3>3. QED
      BY <2>2, <3>1, <3>2 DEF Served
  <2>4. QED
    BY <2>2, <2>3
<1>8. QED
  BY <1>1, <1>3, <1>4, <1>5, <1>6, <1>7

\* A worker that can go on serves the innermost call, and is alone in that.
LEMMA WorkerTop ==
  ASSUME IInv, NEW n \in Sds, NEW w \in proc[n].workers, w.pc # "wait"
  PROVE  /\ proc[n] \in Processes /\ proc[n].alive /\ proc[n].open /\ ~proc[n].reaped
         /\ proc[n].to = <<>> /\ proc[n].from = <<>> /\ w \in Workers
         /\ stack # <<>> /\ Waits(Len(stack)) /\ Top.sd = n /\ Serves(w, Len(stack), n)
         /\ Top.id = w.id /\ Top.obj = w.obj /\ ~Top.skip /\ pd[Probe] = n
         /\ \A u \in proc[n].workers : u # w => u.pc = "wait" /\ u.id # w.id /\ u.obj # w.obj
         /\ TodoOK(n, w)
<1>1. proc[n] \in Processes /\ LinkOK(n) /\ DescOK(n) /\ TodoOK(n, w)
  BY ProcessFine DEF IInv, TypeOK, ProcessOK
<1>2. proc[n].alive /\ proc[n].open /\ ~proc[n].reaped
  BY <1>1 DEF DescOK
<1>3. proc[n].to = <<>> /\ proc[n].from = <<>>
  BY <1>1, <1>2 DEF LinkOK, ToOK, FromOK, Quiet
<1>4. w \in Workers
  BY <1>1, FieldFacts
<1>5. /\ stack # <<>> /\ Serves(w, Len(stack), n) /\ pd[ProbeOf[w.obj]] = n
      /\ \A u \in proc[n].workers : (u.id = w.id \/ u.obj = w.obj) => u = w
  BY <1>1 DEF LinkOK, WorkersOK
<1>6. Waits(Len(stack)) /\ Top.sd = n /\ Top.id = w.id /\ Top.obj = w.obj
  BY <1>5 DEF Serves, Top
<1>7. pd[Probe] = n
  BY <1>5, <1>6 DEF Probe
<1>8. ~Top.skip
  <2>1. PICK i \in Pos : Serves(w, i, n) /\ ~stack[i].skip
    BY <1>1 DEF LinkOK, WorkersOK
  <2>2. i = Len(stack) /\ Top = stack[Len(stack)]
    BY <1>5, <1>6, <2>1, WaitingTop DEF Serves
  <2>3. QED
    BY <2>1, <2>2
<1>9. ASSUME NEW u \in proc[n].workers, u # w
      PROVE  u.pc = "wait" /\ u.id # w.id /\ u.obj # w.obj
  <2>1. u.id # w.id /\ u.obj # w.obj
    BY <1>5, <1>9
  <2>2. u.pc = "wait"
    <3>1. u.pc # "wait" => Serves(u, Len(stack), n)
      BY <1>1 DEF LinkOK, WorkersOK
    <3>2. QED
      BY <1>5, <2>1, <3>1 DEF Serves
  <2>3. QED
    BY <2>1, <2>2
<1>10. QED
  BY <1>1, <1>2, <1>3, <1>4, <1>5, <1>6, <1>7, <1>8, <1>9

\* Workers that go on, each for the query it works for; one that serves the
\* innermost call may end with its answer.
LEMMA WorkersMove ==
  ASSUME IInv, NEW n \in Sds, UNCHANGED libraryVars, proc'[n].next_id = proc[n].next_id,
         \A x \in proc'[n].workers : \E w \in proc[n].workers : x.id = w.id /\ x.obj = w.obj,
         \A x, y \in proc'[n].workers : x.id = y.id => x = y,
         \A w \in proc[n].workers :
            \/ \E x \in proc'[n].workers : x.id = w.id /\ x.obj = w.obj
            \/ Serves(w, Len(stack), n) /\ Pending(n)',
         Pending(n) => Pending(n)',
         \A x \in proc'[n].workers : x.pc # "wait" => stack # <<>> /\ Serves(x, Len(stack), n)
  PROVE  WorkersOK(n)'
<1>1. WorkersOK(n) /\ TypeOK
  BY ProcessFine DEF IInv, ProcessOK, LinkOK
<1>2. /\ stack' = stack /\ Pos' = Pos /\ pd' = pd
      /\ \A w, i, k : Serves(w, i, k)' <=> Serves(w, i, k)
      /\ \A i : Waits(i)' <=> Waits(i)
  BY LibrarySame
<1>3. Pos = 1 .. Len(stack) /\ Len(stack) \in Nat
  BY <1>1, StackFacts
<1>4. \A w, x, i : x.id = w.id /\ x.obj = w.obj => (Serves(x, i, n) <=> Serves(w, i, n))
  BY DEF Serves
<1>5. ASSUME NEW i \in Pos, ServedAbove(i, n)
      PROVE  ServedAbove(i, n)'
  <2>1. ASSUME NEW j \in Pos, j > i, Waits(j), stack[j].sd = n
        PROVE  Served(j, n)' \/ (j = Len(stack) /\ Pending(n)')
    <3>1. Served(j, n) \/ (j = Len(stack) /\ Pending(n)')
      BY <1>5, <2>1 DEF ServedAbove
    <3>2. CASE Served(j, n)
      <4>1. PICK w \in proc[n].workers : Serves(w, j, n)
        BY <3>2 DEF Served
      <4>2. CASE \E x \in proc'[n].workers : x.id = w.id /\ x.obj = w.obj
        BY <1>2, <1>4, <4>1, <4>2 DEF Served
      <4>3. CASE Serves(w, Len(stack), n) /\ Pending(n)'
        <5>1. PICK i1 \in Pos : Serves(w, i1, n)
          BY <4>1
        <5>2. Waits(Len(stack)) /\ Waits(j) /\ stack[Len(stack)].obj = stack[j].obj
              /\ stack[Len(stack)].sd = n
          BY <4>1, <4>3 DEF Serves
        <5>3. stack # <<>> /\ Top.sd = n /\ stack[j].obj = Top.obj
          BY <2>1, <5>2, EmptySeq DEF Pos, Top
        <5>4. j = Len(stack)
          BY <5>2, <5>3, WaitingTop
        <5>5. QED
          BY <4>3, <5>4
      <4>4. QED
        BY <4>2, <4>3
    <3>3. QED
      BY <3>1, <3>2
  <2>2. QED
    BY <1>2, <2>1 DEF ServedAbove
<1>6. ASSUME NEW x \in proc'[n].workers
      PROVE  /\ pd[ProbeOf[x.obj]] = n /\ x.id < proc'[n].next_id
             /\ \A y \in proc'[n].workers : (y.id = x.id \/ y.obj = x.obj) => y = x
             /\ \E i \in Pos : Serves(x, i, n) /\ ~stack[i].skip /\ ServedAbove(i, n)'
  <2>1. PICK w \in proc[n].workers : x.id = w.id /\ x.obj = w.obj
    OBVIOUS
  <2>2. pd[ProbeOf[w.obj]] = n /\ w.id < proc[n].next_id
        /\ \A u \in proc[n].workers : (u.id = w.id \/ u.obj = w.obj) => u = w
    BY <1>1 DEF WorkersOK
  <2>3. ASSUME NEW y \in proc'[n].workers, y.id = x.id \/ y.obj = x.obj
        PROVE  y = x
    <3>1. PICK u \in proc[n].workers : y.id = u.id /\ y.obj = u.obj
      OBVIOUS
    <3>2. u = w
      BY <2>1, <2>2, <2>3, <3>1
    <3>3. y.id = x.id
      BY <2>1, <3>1, <3>2
    <3>4. QED
      BY <3>3
  <2>4. PICK i \in Pos : Serves(w, i, n) /\ ~stack[i].skip /\ ServedAbove(i, n)
    BY <1>1 DEF WorkersOK
  <2>5. Serves(x, i, n) /\ ServedAbove(i, n)'
    BY <1>4, <1>5, <2>1, <2>4
  <2>6. QED
    BY <2>1, <2>2, <2>3, <2>4, <2>5
<1>7. QED
  BY <1>2, <1>6 DEF WorkersOK
-----------------------------------------------------------------------------
(* The input handler.                                                      *)

\* What a cache may hold, and which flags are known.
LEMMA ResultFacts ==
  /\ Results \subseteq Flags /\ "error" \in Results /\ "does_not_exist" \in Results
  /\ "state" \notin Results /\ "none" \notin Results /\ "unknown" \notin Flags
BY DocumentAssumption DEF Results, Flags

\* A sequence over a set is one over a larger set.
LEMMA WiderSeq ==
  ASSUME NEW A, NEW B, A \subseteq B, NEW s \in Seq(A)
  PROVE  s \in Seq(B)
<1>1. Len(s) \in Nat /\ s \in [1 .. Len(s) -> A]
  BY LenProperties
<1>2. s \in [1 .. Len(s) -> B]
  BY <1>1
<1>3. QED
  BY <1>1, <1>2, SeqDef

\* A process that caches more still has the members of a set.
LEMMA SeesGrows ==
  ASSUME NEW n, NEW o \in Objects, \A k \in Objects : Cached(n, k) => Cached(n, k)',
         SeesMembers(n, o)
  PROVE  SeesMembers(n, o)'
<1>1. SeqRange(Members[o]) \subseteq Objects
  BY VarsFacts, RangeFacts
<1>2. QED
  BY <1>1 DEF SeesMembers

\* Its workers stay in order.
LEMMA TodoGrows ==
  ASSUME NEW n, NEW w \in Workers, TodoOK(n, w),
         \A k \in Objects : Cached(n, k) => Cached(n, k)'
  PROVE  TodoOK(n, w)'
<1>1. w.obj \in Objects
  BY DEF Workers
<1>2. SeqRange(Members[w.obj]) \subseteq Objects
  BY <1>1, VarsFacts, RangeFacts
<1>3. SeesMembers(n, w.obj) => SeesMembers(n, w.obj)'
  BY <1>1, SeesGrows
<1>4. MembersLeft(n, w) => MembersLeft(n, w)'
  BY <1>2 DEF MembersLeft
<1>5. FiltersLeft(n, w) => FiltersLeft(n, w)'
  BY <1>3 DEF FiltersLeft
<1>6. QED
  BY <1>3, <1>4, <1>5 DEF TodoOK

\* A process with new messages, another cache and other workers.
With(x, t, fr, c, ws) ==
  [x EXCEPT !.to = t, !.from = fr, !.rcache = c, !.workers = ws]

\* Only the process at n changes.
Touches(n) == proc' = [k \in Sds |-> IF k = n THEN proc'[n] ELSE proc[k]]

\* A step of one process.
LEMMA StepFacts ==
  ASSUME IInv, NEW n \in Sds, UNCHANGED libraryVars, Touches(n), proc'[n] \in Processes
  PROVE  ProcessStep(n)
<1> DEFINE g == [k \in Sds |-> IF k = n THEN proc'[n] ELSE proc[k]]
<1>1. g \in [Sds -> Processes] /\ \A k \in Sds : k # n => g[k] = proc[k]
  BY DEF IInv, TypeOK
<1>2. proc' = g
  BY DEF Touches
<1>3. QED
  BY <1>1, <1>2 DEF ProcessStep

\* A result is sent without a worker: the one that is cached, or the flag
\* of an object that is skipped.
LEMMA InputAnswers ==
  ASSUME IInv, NEW n \in Sds, proc[n].to # <<>>, Head(proc[n].to).type = "object",
         UNCHANGED libraryVars, UNCHANGED crashes,
         NEW f \in Results, NEW c \in [Objects \cup States -> Results \cup {"none", "state"}],
         c[Top.obj] = f, \A k \in Objects \cup States : k # Top.obj => c[k] = proc[n].rcache[k],
         Top.skip => f = "does_not_exist",
         \/ proc[n].rcache[Top.obj] = f
         \/ Top.skip /\ proc[n].rcache[Top.obj] = "none",
         Touches(n),
         proc'[n] = With(proc[n], <<>>, <<Result(Top.id, f)>>, c, proc[n].workers)
  PROVE  IInv'
<1> DEFINE m == Head(proc[n].to)
           r == Result(Top.id, f)
           s == <<r>>
           ws == proc[n].workers
           t == <<>>
<1>1. /\ proc[n] \in Processes /\ proc[n].alive /\ proc[n].open /\ ~proc[n].reaped
      /\ proc[n].from = <<>> /\ Quiet(n)
      /\ m \in Inbound /\ m.id = Top.id /\ m.id \in Nat
      /\ stack # <<>> /\ Waits(Len(stack)) /\ Top.sd = n
      /\ pd[Probe] = n /\ m.obj = Top.obj /\ ~Served(Len(stack), n)
      /\ \A w \in proc[n].workers : w.obj # m.obj
  BY InputTop
<1>2. /\ ReceivesOn(n) /\ Top.obj \in Objects /\ Top.skip \in BOOLEAN
      /\ Top.skip => flag[Top.obj] = "does_not_exist" /\ Unusable(Top.obj)
      /\ ~Top.skip => flag[Top.obj] = "unknown" /\ AllUsable(Top.obj)
  BY <1>1, WaitingTop
<1>3. ProcessOK(n) /\ TypeOK
  BY ProcessFine DEF IInv
<1>4. r \in Outbound /\ r.id = Top.id /\ r.type = "result" /\ r.flag = f
  <2>1. <<>> \in Seq(Objects \cup States)
    BY EmptySeq
  <2>2. QED
    BY <1>1, <2>1 DEF Result, Outbound
<1>5. s \in Seq(Outbound) /\ s # <<>> /\ Len(s) = 1 /\ s[1] = r
  BY <1>4
<1>6. t \in Seq(Inbound) /\ ws \in SUBSET Workers
      /\ proc'[n] = With(proc[n], t, s, c, ws) /\ t = <<>> /\ ws = proc[n].workers
  BY <1>1, EmptySeq, FieldFacts
<1> HIDE DEF s, r, m, ws, t
<1>7. /\ proc'[n].to = <<>> /\ proc'[n].from = s /\ proc'[n].rcache = c
      /\ proc'[n].workers = proc[n].workers /\ proc'[n].next_id = proc[n].next_id
      /\ proc'[n].open = proc[n].open /\ proc'[n].alive = proc[n].alive
      /\ proc'[n].reaped = proc[n].reaped /\ ProcessStep(n)
  <2>1. proc'[n] \in Processes
    BY <1>1, <1>5, <1>6 DEF With, Processes
  <2>2. /\ proc'[n].to = t /\ proc'[n].from = s /\ proc'[n].rcache = c
        /\ proc'[n].workers = ws /\ proc'[n].next_id = proc[n].next_id
        /\ proc'[n].open = proc[n].open /\ proc'[n].alive = proc[n].alive
        /\ proc'[n].reaped = proc[n].reaped
    BY <1>1, <1>5, <1>6 DEF With, Processes
  <2>3. QED
    BY <1>6, <2>1, <2>2, StepFacts
<1>9. ProcessStep(n) /\ crashes' \in 0 .. MaxCrashes
  BY <1>3, <1>7 DEF TypeOK
<1>10. /\ Top' = Top /\ Probe' = Probe /\ stack' = stack /\ pd' = pd /\ flag' = flag
       /\ ReceivesOn(n)' /\ \A w, i, k : Serves(w, i, k)' <=> Serves(w, i, k)
       /\ \A o : AllUsable(o)' <=> AllUsable(o)
  BY <1>2, LibrarySame
<1>11. \A k \in Objects : Cached(n, k) => Cached(n, k)'
  <2>1. ASSUME NEW k \in Objects, Cached(n, k)
        PROVE  c[k] # "none"
    <3>1. CASE k = Top.obj
      BY <3>1, ResultFacts
    <3>2. CASE k # Top.obj
      BY <2>1, <3>2 DEF Cached
    <3>3. QED
      BY <3>1, <3>2
  <2>2. QED
    BY <1>7, <2>1 DEF Cached
<1>12. DescOK(n)'
  BY <1>1, <1>7 DEF DescOK
<1>13. Quiet(n)'
  BY <1>1, <1>7 DEF Quiet
<1>14. ~Served(Len(stack), n)'
  BY <1>1, <1>7, <1>10 DEF Served
<1>15. ToOK(n)' /\ FromOK(n)'
  <2>1. ToOK(n)'
    BY <1>7 DEF ToOK
  <2>2. proc'[n].rcache[Top.obj] = f /\ proc'[n].from[1] = r /\ Len(proc'[n].from) = 1
    BY <1>5, <1>7
  <2>3. FromOK(n)'
    BY <1>1, <1>4, <1>10, <1>13, <1>14, <2>2 DEF FromOK
  <2>4. QED
    BY <2>1, <2>3
<1>16. WorkersOK(n)'
  <2>1. Pending(n)'
    BY <1>5, <1>7 DEF Pending
  <2>2. \A u, w \in proc[n].workers : u.id = w.id => u = w
    BY <1>3 DEF ProcessOK, LinkOK, WorkersOK
  <2>3. \A w \in proc[n].workers : w.pc = "wait"
    BY <1>1 DEF Quiet
  <2>4. QED
    BY <1>7, <2>1, <2>2, <2>3, WorkersMove
<1>17. WorkersCached(n)'
  <2>1. proc[n].workers \subseteq Workers
    BY <1>1, FieldFacts
  <2>2. \A w \in proc[n].workers : w.obj \in Objects /\ w.obj # Top.obj
    BY <1>1, <2>1 DEF Workers
  <2>3. \A w \in proc[n].workers : c[w.obj] = proc[n].rcache[w.obj]
    BY <2>2
  <2>4. QED
    BY <1>3, <1>7, <2>3 DEF ProcessOK, WorkersCached, Cached
<1>18. CacheOK(n)'
  <2>1. ASSUME NEW o \in Objects
        PROVE  c[o] # "state" /\ (c[o] # "none" /\ c[o] # "does_not_exist" => AllUsable(o))
    <3>1. proc[n].rcache[o] # "state"
          /\ (proc[n].rcache[o] # "none" /\ proc[n].rcache[o] # "does_not_exist" => AllUsable(o))
      BY <1>3 DEF ProcessOK, CacheOK, Cached
    <3>2. CASE o = Top.obj
      BY <3>1, <3>2, ResultFacts
    <3>3. CASE o # Top.obj
      BY <3>1, <3>3
    <3>4. QED
      BY <3>2, <3>3
  <2>2. QED
    BY <1>7, <1>10, <2>1 DEF CacheOK, Cached
<1>19. \A w \in proc'[n].workers : TodoOK(n, w)'
  <2>1. proc[n].workers \subseteq Workers
    BY <1>1, FieldFacts
  <2>2. QED
    BY <1>3, <1>7, <1>11, <2>1, TodoGrows DEF ProcessOK
<1>20. ASSUME NEW o \in Objects, proc'[n].rcache[o] \notin {"none", "error"}
       PROVE  SeesMembers(n, o)'
  <2>1. CASE proc[n].rcache[o] = c[o]
    <3>1. SeesMembers(n, o)
      BY <1>3, <1>7, <1>20, <2>1 DEF ProcessOK
    <3>2. QED
      BY <1>11, <3>1, SeesGrows
  <2>2. CASE proc[n].rcache[o] # c[o]
    <3>1. o = Top.obj /\ Unusable(o)
      BY <1>2, <2>2
    <3>2. VarRefs[o] # <<>>
      BY <3>1, VarsFacts, RangeFacts DEF Unusable
    <3>3. Members[o] = <<>>
      BY <3>2, DocumentAssumption
    <3>4. SeqRange(Members[o]) = {}
      BY <3>3, VarsFacts, RangeFacts
    <3>5. QED
      BY <3>4 DEF SeesMembers
  <2>3. QED
    BY <2>1, <2>2
<1>21. ASSUME NEW o \in Objects, pd'[ProbeOf[o]] = n, Cached(n, o)', flag'[o] \in Flags
       PROVE  flag'[o] = proc'[n].rcache[o]
  <2>1. CASE o = Top.obj
    <3>1. Top.skip
      BY <1>2, <1>10, <1>21, <2>1, ResultFacts
    <3>2. QED
      BY <1>2, <1>7, <1>10, <2>1, <3>1
  <2>2. CASE o # Top.obj
    <3>1. c[o] = proc[n].rcache[o] /\ c[o] # "none"
      BY <1>7, <1>21, <2>2 DEF Cached
    <3>2. QED
      BY <1>3, <1>7, <1>10, <1>21, <3>1 DEF ProcessOK, Cached
  <2>3. QED
    BY <2>1, <2>2
<1>22. ProcessOK(n)'
  BY <1>12, <1>15, <1>16, <1>17, <1>18, <1>19, <1>20, <1>21 DEF ProcessOK, LinkOK
<1>23. QED
  BY <1>7, <1>9, <1>22, ProcessKeeps

\* An object that is cached.
LEMMA InputHitKeeps ==
  ASSUME IInv, NEW n \in Sds, InputHit(n)
  PROVE  IInv'
<1> DEFINE m == Head(proc[n].to)
           c == proc[n].rcache
           f == c[m.obj]
<1>1. /\ proc[n].to # <<>> /\ m.type = "object" /\ UNCHANGED libraryVars /\ UNCHANGED crashes
      /\ Cached(n, m.obj)
      /\ proc' = [proc EXCEPT ![n].to = Tail(@),
                              ![n].from = Append(@, Result(m.id, f))]
  BY DEF InputHit, Input, Hit
<1>2. /\ proc[n] \in Processes /\ proc[n].from = <<>> /\ Tail(proc[n].to) = <<>>
      /\ stack # <<>> /\ Waits(Len(stack)) /\ Top.sd = n /\ m.obj = Top.obj
      /\ m.id = Top.id
  BY <1>1, InputTop
<1>3. Top.obj \in Objects /\ (Top.skip => Unusable(Top.obj))
  BY <1>2, WaitingTop
<1>4. c \in [Objects \cup States -> Results \cup {"none", "state"}]
  BY <1>2, FieldFacts
<1>5. CacheOK(n)
  BY ProcessFine DEF ProcessOK
<1>6. f \in Results
  BY <1>1, <1>2, <1>3, <1>4, <1>5 DEF CacheOK, Cached
<1>7. ASSUME Top.skip
      PROVE  f = "does_not_exist"
  <2>1. ~AllUsable(Top.obj)
    BY <1>3, <1>7 DEF Unusable, AllUsable
  <2>2. QED
    BY <1>1, <1>2, <1>3, <1>5, <2>1 DEF CacheOK
<1>8. Append(proc[n].from, Result(m.id, f)) = <<Result(Top.id, f)>>
  BY <1>2
<1>9. Touches(n)
      /\ proc'[n] = With(proc[n], <<>>, <<Result(Top.id, f)>>, c, proc[n].workers)
  <2>1. proc \in [Sds -> Processes]
    BY DEF IInv, TypeOK
  <2>2. QED
    BY <1>1, <1>2, <1>8, <2>1 DEF Processes, With, Touches
<1> HIDE DEF f, c, m
<1>10. c[Top.obj] = f /\ proc[n].rcache[Top.obj] = f
       /\ \A k \in Objects \cup States : k # Top.obj => c[k] = proc[n].rcache[k]
  BY <1>2 DEF f, c
<1>11. proc[n].to # <<>> /\ Head(proc[n].to).type = "object"
  BY <1>1 DEF m
<1>12. QED
  BY <1>1, <1>4, <1>6, <1>7, <1>9, <1>10, <1>11, InputAnswers

\* An object that is skipped.
LEMMA InputSkipKeeps ==
  ASSUME IInv, NEW n \in Sds, InputSkip(n)
  PROVE  IInv'
<1> DEFINE m == Head(proc[n].to)
           f == "does_not_exist"
           c == [proc[n].rcache EXCEPT ![m.obj] = f]
<1>1. /\ proc[n].to # <<>> /\ m.type = "object" /\ UNCHANGED libraryVars /\ UNCHANGED crashes
      /\ ~Cached(n, m.obj) /\ ~m.ok
      /\ proc' = [proc EXCEPT ![n].to = Tail(@), ![n].rcache[m.obj] = f,
                              ![n].from = Append(@, Result(m.id, f))]
  BY DEF InputSkip, Input, Hit
<1>2. /\ proc[n] \in Processes /\ proc[n].from = <<>> /\ Tail(proc[n].to) = <<>>
      /\ stack # <<>> /\ Waits(Len(stack)) /\ Top.sd = n /\ m.obj = Top.obj
      /\ m.id = Top.id
      /\ m.ok = ~Top.skip
  BY <1>1, InputTop
<1>3. Top.obj \in Objects /\ Top.skip \in BOOLEAN
  BY <1>2, WaitingTop
<1>4. proc[n].rcache \in [Objects \cup States -> Results \cup {"none", "state"}]
  BY <1>2, FieldFacts
<1>5. f \in Results
  BY ResultFacts
<1>6. c \in [Objects \cup States -> Results \cup {"none", "state"}]
  BY <1>2, <1>3, <1>4, <1>5
<1>7. Append(proc[n].from, Result(m.id, f)) = <<Result(Top.id, f)>>
  BY <1>2
<1>8. Touches(n)
      /\ proc'[n] = With(proc[n], <<>>, <<Result(Top.id, f)>>, c, proc[n].workers)
  <2>1. proc \in [Sds -> Processes]
    BY DEF IInv, TypeOK
  <2>2. QED
    BY <1>1, <1>2, <1>7, <2>1 DEF Processes, With, Touches
<1>9. c[Top.obj] = f /\ proc[n].rcache[Top.obj] = "none" /\ Top.skip
      /\ \A k \in Objects \cup States : k # Top.obj => c[k] = proc[n].rcache[k]
  BY <1>1, <1>2, <1>3, <1>4 DEF Cached
<1> HIDE DEF f, c
<1>10. Top.skip => f = "does_not_exist"
  BY DEF f
<1>11. QED
  BY <1>1, <1>5, <1>6, <1>8, <1>9, <1>10, InputAnswers

\* A new worker.
LEMMA NewWorkerFacts ==
  ASSUME NEW id \in Nat, NEW o \in Objects
  PROVE  LET w == NewWorker(id, o) IN
         /\ w \in Workers /\ w.id = id /\ w.obj = o /\ w.missing = <<>>
         /\ Members[o] = <<>> => w.pc = "filters" /\ w.todo = Filters[o]
         /\ Members[o] # <<>> => w.pc = "members" /\ w.todo = Members[o]
<1>1. Members[o] \in Seq(Objects \cup States) /\ Filters[o] \in Seq(Objects \cup States)
  BY VarsFacts, WiderSeq
<1>2. <<>> \in Seq(States)
  BY EmptySeq
<1>3. QED
  BY <1>1, <1>2 DEF NewWorker, Workers

\* A worker is started for the object that has arrived.
LEMMA InputNewKeeps ==
  ASSUME IInv, NEW n \in Sds, InputNew(n)
  PROVE  IInv'
<1> DEFINE m == Head(proc[n].to)
           w0 == NewWorker(m.id, m.obj)
           ws == proc[n].workers \cup {w0}
<1>1. /\ proc[n].to # <<>> /\ m.type = "object" /\ UNCHANGED libraryVars /\ crashes' = crashes
      /\ ~Cached(n, m.obj) /\ m.ok
      /\ proc' = [proc EXCEPT ![n].to = Tail(@), ![n].workers = @ \cup {w0}]
  BY DEF InputNew, Input, Hit
<1>2. /\ proc[n] \in Processes /\ proc[n].alive /\ proc[n].open /\ ~proc[n].reaped
      /\ proc[n].from = <<>> /\ Quiet(n) /\ Tail(proc[n].to) = <<>>
      /\ m.id = Top.id /\ m.id \in Nat
      /\ stack # <<>> /\ Waits(Len(stack)) /\ Top.sd = n
      /\ pd[Probe] = n /\ m.obj = Top.obj /\ m.ok = ~Top.skip
      /\ m.id < proc[n].next_id
      /\ \A w \in proc[n].workers : w.id # m.id /\ w.obj # m.obj
  BY <1>1, InputTop
<1>3. /\ Top.obj \in Objects /\ Len(stack) \in Pos /\ Len(stack) \in Nat
      /\ Pos = 1 .. Len(stack) /\ Top = stack[Len(stack)]
  BY <1>2, WaitingTop
<1>4. ProcessOK(n) /\ TypeOK
  BY ProcessFine DEF IInv
<1>5. /\ w0 \in Workers /\ w0.id = Top.id /\ w0.obj = Top.obj /\ w0.missing = <<>>
      /\ Members[Top.obj] = <<>> => w0.pc = "filters" /\ w0.todo = Filters[Top.obj]
      /\ Members[Top.obj] # <<>> => w0.pc = "members" /\ w0.todo = Members[Top.obj]
  BY <1>2, <1>3, NewWorkerFacts
<1>6. ws \in SUBSET Workers /\ proc[n].workers \subseteq Workers
  BY <1>2, <1>5, FieldFacts
<1>7. Touches(n) /\ proc'[n] = [proc[n] EXCEPT !.to = <<>>, !.workers = ws]
  <2>1. proc \in [Sds -> Processes]
    BY <1>4 DEF TypeOK
  <2>2. QED
    BY <1>1, <1>2, <2>1 DEF Processes, Touches
<1> HIDE DEF w0
<1>8. /\ proc'[n].to = <<>> /\ proc'[n].from = <<>> /\ proc'[n].rcache = proc[n].rcache
      /\ proc'[n].workers = ws /\ proc'[n].next_id = proc[n].next_id
      /\ proc'[n].open = proc[n].open /\ proc'[n].alive = proc[n].alive
      /\ proc'[n].reaped = proc[n].reaped
  BY <1>2, <1>7 DEF Processes
<1> HIDE DEF m
<1>9. ProcessStep(n) /\ crashes' \in 0 .. MaxCrashes
  <2>1. <<>> \in Seq(Inbound)
    BY EmptySeq
  <2>2. proc'[n] \in Processes
    BY <1>2, <1>6, <1>7, <2>1 DEF Processes
  <2>3. QED
    BY <1>1, <1>4, <1>7, <2>2, StepFacts DEF TypeOK
<1>10. /\ stack' = stack /\ Pos' = Pos /\ pd' = pd /\ flag' = flag
       /\ \A w, i, k : Serves(w, i, k)' <=> Serves(w, i, k)
       /\ \A i : Waits(i)' <=> Waits(i)
       /\ \A o : AllUsable(o)' <=> AllUsable(o)
  BY <1>1, LibrarySame
<1>11. \A k : Cached(n, k)' <=> Cached(n, k)
  BY <1>8 DEF Cached
<1>12. DescOK(n)' /\ ToOK(n)' /\ FromOK(n)'
  BY <1>2, <1>8 DEF DescOK, ToOK, FromOK
<1>13. Serves(w0, Len(stack), n) /\ w0 \in ws
  BY <1>2, <1>3, <1>5 DEF Serves
<1>14. ASSUME NEW i \in Pos, ServedAbove(i, n)
       PROVE  ServedAbove(i, n)'
  <2>1. ASSUME NEW j \in Pos, j > i, Waits(j), stack[j].sd = n
        PROVE  Served(j, n)'
    <3>1. CASE Served(j, n)
      BY <1>8, <1>10, <3>1 DEF Served
    <3>2. CASE j = Len(stack)
      BY <1>8, <1>10, <1>13, <3>2 DEF Served
    <3>3. QED
      BY <1>14, <2>1, <3>1, <3>2 DEF ServedAbove
  <2>2. QED
    BY <1>10, <2>1 DEF ServedAbove
<1>15. WorkersOK(n)'
  <2>1. WorkersOK(n) /\ \A w \in proc[n].workers : w.pc = "wait"
    BY <1>2, <1>4 DEF ProcessOK, LinkOK, Quiet
  <2>2. ASSUME NEW w \in proc[n].workers
        PROVE  /\ pd[ProbeOf[w.obj]] = n /\ w.id < proc[n].next_id
               /\ \A u \in ws : (u.id = w.id \/ u.obj = w.obj) => u = w
               /\ w.pc = "wait"
               /\ \E i \in Pos : Serves(w, i, n) /\ ~stack[i].skip /\ ServedAbove(i, n)'
    BY <1>2, <1>5, <1>14, <2>1 DEF WorkersOK
  <2>3. /\ pd[ProbeOf[w0.obj]] = n /\ w0.id < proc[n].next_id
        /\ \A u \in ws : (u.id = w0.id \/ u.obj = w0.obj) => u = w0
    BY <1>2, <1>5 DEF Probe
  <2>4. Serves(w0, Len(stack), n) /\ ~stack[Len(stack)].skip /\ ServedAbove(Len(stack), n)'
    <3>1. ServedAbove(Len(stack), n)'
      BY <1>3, <1>10 DEF ServedAbove
    <3>2. ~Top.skip
      BY <1>1, <1>2 
    <3>3. QED
      BY <1>3, <1>13, <3>1, <3>2
  <2>5. QED
    BY <1>2, <1>3, <1>8, <1>10, <2>2, <2>3, <2>4 DEF WorkersOK
<1>16. WorkersCached(n)'
  <2>1. w0.pc # "reply" /\ ~Cached(n, w0.obj)
    BY <1>1, <1>2, <1>5
  <2>2. QED
    BY <1>4, <1>8, <1>11, <2>1 DEF ProcessOK, WorkersCached
<1>17. CacheOK(n)'
  BY <1>4, <1>8, <1>10, <1>11 DEF ProcessOK, CacheOK
<1>18. ASSUME NEW w \in ws
       PROVE  TodoOK(n, w)'
  <2>1. TodoOK(n, w)
    <3>1. CASE w \in proc[n].workers
      BY <1>4, <3>1 DEF ProcessOK
    <3>2. CASE w = w0
      <4>1. SeqRange(w0.missing) = {}
        BY <1>5, EmptySeq, RangeFacts
      <4>2. CASE Members[Top.obj] = <<>>
        <5>1. SeqRange(Members[Top.obj]) = {}
          BY <1>3, <4>2, VarsFacts, RangeFacts
        <5>2. QED
          BY <1>5, <3>2, <4>1, <4>2, <5>1 DEF TodoOK, FiltersLeft, SeesMembers
      <4>3. CASE Members[Top.obj] # <<>>
        BY <1>5, <3>2, <4>1, <4>3 DEF TodoOK, MembersLeft
      <4>4. QED
        BY <4>2, <4>3
    <3>3. QED
      BY <3>1, <3>2
  <2>2. QED
    BY <1>6, <1>11, <2>1, TodoGrows
<1>19. \A o \in Objects : proc'[n].rcache[o] \notin {"none", "error"} => SeesMembers(n, o)'
  BY <1>4, <1>8, <1>11, SeesGrows DEF ProcessOK
<1>20. \A o \in Objects : pd'[ProbeOf[o]] = n /\ Cached(n, o)' /\ flag'[o] \in Flags
                             => flag'[o] = proc'[n].rcache[o]
  BY <1>4, <1>8, <1>10, <1>11 DEF ProcessOK
<1>21. ProcessOK(n)'
  BY <1>8, <1>12, <1>15, <1>16, <1>17, <1>18, <1>19, <1>20 DEF ProcessOK, LinkOK
<1>22. QED
  BY <1>8, <1>9, <1>21, ProcessKeeps

\* Workers go on; what the process has of the objects stays.
LEMMA MoveKeeps ==
  ASSUME IInv, NEW n \in Sds, UNCHANGED libraryVars, crashes' = crashes,
         Touches(n), proc'[n] \in Processes,
         proc[n].alive, proc'[n].open = proc[n].open, proc'[n].alive = proc[n].alive,
         proc'[n].reaped = proc[n].reaped, proc'[n].next_id = proc[n].next_id,
         \A o \in Objects : proc'[n].rcache[o] = proc[n].rcache[o],
         proc'[n].to = <<>>, FromOK(n)', WorkersOK(n)',
         \A x \in proc'[n].workers : TodoOK(n, x),
         \A x \in proc'[n].workers :
            IF x.pc = "reply" THEN proc[n].rcache[x.obj] = x.flag ELSE ~Cached(n, x.obj)
  PROVE  IInv'
<1>1. ProcessOK(n) /\ TypeOK
  BY ProcessFine DEF IInv
<1>2. ProcessStep(n) /\ crashes' \in 0 .. MaxCrashes
  BY <1>1, StepFacts DEF TypeOK
<1>3. /\ pd' = pd /\ flag' = flag /\ \A o : AllUsable(o)' <=> AllUsable(o)
  BY LibrarySame
<1>4. \A o \in Objects : Cached(n, o)' <=> Cached(n, o)
  BY DEF Cached
<1>5. proc'[n].workers \subseteq Workers
  BY FieldFacts
<1>6. DescOK(n)' /\ ToOK(n)'
  BY <1>1 DEF ProcessOK, DescOK, ToOK
<1>7. WorkersCached(n)'
  BY <1>4, <1>5 DEF WorkersCached, Workers
<1>8. CacheOK(n)'
  BY <1>1, <1>3, <1>4 DEF ProcessOK, CacheOK
<1>9. \A x \in proc'[n].workers : TodoOK(n, x)'
  BY <1>4, <1>5, TodoGrows
<1>10. \A o \in Objects : proc'[n].rcache[o] \notin {"none", "error"} => SeesMembers(n, o)'
  BY <1>1, <1>4, SeesGrows DEF ProcessOK
<1>11. \A o \in Objects : pd'[ProbeOf[o]] = n /\ Cached(n, o)' /\ flag'[o] \in Flags
                             => flag'[o] = proc'[n].rcache[o]
  BY <1>1, <1>3, <1>4 DEF ProcessOK
<1>12. ProcessOK(n)'
  BY <1>6, <1>7, <1>8, <1>9, <1>10, <1>11 DEF ProcessOK, LinkOK
<1>13. QED
  BY <1>2, <1>12, ProcessKeeps

\* A command has been answered.
LEMMA InputReplyKeeps ==
  ASSUME IInv, NEW n \in Sds, InputReply(n)
  PROVE  IInv'
<1> DEFINE m == Head(proc[n].to)
           Woken(w) == IF w.id = m.id
                       THEN [w EXCEPT !.pc = "answered", !.answer = m.ok] ELSE w
           ws == {Woken(w) : w \in proc[n].workers}
<1>1. /\ proc[n].to # <<>> /\ m.type = "reply" /\ UNCHANGED libraryVars /\ crashes' = crashes
      /\ proc' = [proc EXCEPT ![n].to = Tail(@), ![n].workers = ws]
  BY DEF InputReply, Input
<1>2. /\ proc[n] \in Processes /\ proc[n].alive
      /\ proc[n].from = <<>> /\ Quiet(n) /\ Tail(proc[n].to) = <<>>
      /\ m \in Inbound /\ m.id = Top.id
      /\ stack # <<>> /\ Waits(Len(stack)) /\ Top.sd = n
      /\ Served(Len(stack), n) \/ proc[n].workers = {}
  BY <1>1, InputTop
<1>3. ProcessOK(n) /\ TypeOK /\ Top = stack[Len(stack)]
  BY <1>2, ProcessFine, WaitingTop DEF IInv
<1>4. proc[n].workers \subseteq Workers /\ m.ok \in BOOLEAN
  BY <1>2, FieldFacts DEF Inbound
<1>5. ASSUME NEW w \in proc[n].workers
      PROVE  /\ Woken(w) \in Workers /\ Woken(w).id = w.id /\ Woken(w).obj = w.obj
             /\ Woken(w).todo = w.todo /\ Woken(w).missing = w.missing
             /\ Woken(w).pc \in {"wait", "answered"} /\ w.pc = "wait"
             /\ Woken(w).pc # "wait" => w.id = Top.id
  <2>1. w.pc = "wait" /\ w \in Workers
    BY <1>2, <1>4 DEF Quiet
  <2>2. QED
    BY <1>2, <1>4, <2>1 DEF Workers
<1>6. ws \in SUBSET Workers
  BY <1>5
<1>7. Touches(n) /\ proc'[n] = [proc[n] EXCEPT !.to = <<>>, !.workers = ws]
  <2> HIDE DEF ws
  <2>1. proc \in [Sds -> Processes]
    BY <1>3 DEF TypeOK
  <2>2. QED
    BY <1>1, <1>2, <2>1 DEF Processes, Touches
<1>8. \A x \in ws : \E w \in proc[n].workers : x = Woken(w)
  OBVIOUS
<1>9. \A w \in proc[n].workers : Woken(w) \in ws
  OBVIOUS
<1> HIDE DEF ws, Woken, m
<1>10. /\ proc'[n].to = <<>> /\ proc'[n].from = <<>> /\ proc'[n].rcache = proc[n].rcache
       /\ proc'[n].workers = ws /\ proc'[n].next_id = proc[n].next_id
       /\ proc'[n].open = proc[n].open /\ proc'[n].alive = proc[n].alive
       /\ proc'[n].reaped = proc[n].reaped
  BY <1>2, <1>7 DEF Processes
<1>11. proc'[n] \in Processes
  <2>1. <<>> \in Seq(Inbound)
    BY EmptySeq
  <2>2. QED
    BY <1>2, <1>6, <1>7, <2>1 DEF Processes
<1>12. FromOK(n)'
  BY <1>10 DEF FromOK
<1>13. \A u, w \in proc[n].workers : u.id = w.id => u = w
  BY <1>3 DEF ProcessOK, LinkOK, WorkersOK
<1>14. WorkersOK(n)'
  <2>1. \A x \in ws : \E w \in proc[n].workers : x.id = w.id /\ x.obj = w.obj
    BY <1>5, <1>8
  <2>2. \A x, y \in ws : x.id = y.id => x = y
    <3>1. ASSUME NEW x \in ws, NEW y \in ws, x.id = y.id
          PROVE  x = y
      <4>1. PICK u \in proc[n].workers : x = Woken(u)
        BY <1>8
      <4>2. PICK w \in proc[n].workers : y = Woken(w)
        BY <1>8
      <4>3. u = w
        BY <1>5, <1>13, <3>1, <4>1, <4>2
      <4>4. QED
        BY <4>1, <4>2, <4>3
    <3>2. QED
      BY <3>1
  <2>3. \A w \in proc[n].workers : \E x \in ws : x.id = w.id /\ x.obj = w.obj
    BY <1>5, <1>9
  <2>4. ~Pending(n)
    BY <1>1, <1>2 DEF Pending, m
  <2>5. ASSUME NEW x \in ws, x.pc # "wait"
        PROVE  Serves(x, Len(stack), n)
    <3>1. PICK w \in proc[n].workers : x = Woken(w)
      BY <1>8
    <3>2. w.id = Top.id /\ x.id = w.id /\ x.obj = w.obj
      BY <1>5, <2>5, <3>1
    <3>3. PICK u \in proc[n].workers : Serves(u, Len(stack), n)
      BY <1>2, <3>1 DEF Served
    <3>4. u = w
      BY <1>3, <1>13, <3>2, <3>3 DEF Serves
    <3>5. QED
      BY <3>2, <3>3, <3>4 DEF Serves
  <2>6. UNCHANGED libraryVars /\ proc'[n].workers = ws /\ stack # <<>>
        /\ proc'[n].next_id = proc[n].next_id
    BY <1>1, <1>2, <1>10
  <2>7. QED
    BY ONLY IInv, n \in Sds, <2>1, <2>2, <2>3, <2>4, <2>5, <2>6, WorkersMove
<1>15. ASSUME NEW x \in ws
       PROVE  TodoOK(n, x) /\ x.pc # "reply" /\ ~Cached(n, x.obj)
  <2>1. PICK w \in proc[n].workers : x = Woken(w)
    BY <1>8
  <2>2. /\ x.obj = w.obj /\ x.todo = w.todo /\ x.missing = w.missing
        /\ x.pc \in {"wait", "answered"} /\ w.pc = "wait"
    BY <1>5, <2>1
  <2>3. TodoOK(n, w) /\ ~Cached(n, w.obj)
    BY <1>3, <2>2 DEF ProcessOK, WorkersCached
  <2>4. QED
    BY <2>2, <2>3 DEF TodoOK, MembersLeft, FiltersLeft
<1>16. UNCHANGED libraryVars /\ crashes' = crashes /\ proc[n].alive /\ Touches(n)
  BY <1>1, <1>2, <1>7
<1>17. QED
  BY ONLY IInv, n \in Sds, <1>10, <1>11, <1>12, <1>14, <1>15, <1>16, MoveKeeps

\* The input handler keeps the invariant.
LEMMA InputKeeps ==
  ASSUME IInv, NEW n \in Sds, InputStep(n)
  PROVE  IInv'
BY InputHitKeeps, InputSkipKeeps, InputNewKeeps, InputReplyKeeps DEF InputStep
-----------------------------------------------------------------------------
(* The worker threads.                                                     *)

\* A worker goes on.
LEMMA WorkerMoves ==
  ASSUME IInv, NEW n \in Sds, NEW w \in proc[n].workers, w.pc \notin {"wait", "reply"},
         NEW next \in Workers, next.id = w.id, next.obj = w.obj, next.pc # "reply",
         TodoOK(n, next),
         UNCHANGED libraryVars, crashes' = crashes, Touches(n), proc'[n] \in Processes,
         proc'[n].open = proc[n].open, proc'[n].alive = proc[n].alive,
         proc'[n].reaped = proc[n].reaped, proc'[n].next_id = proc[n].next_id,
         \A o \in Objects : proc'[n].rcache[o] = proc[n].rcache[o],
         proc'[n].to = <<>>, FromOK(n)',
         proc'[n].workers = (proc[n].workers \ {w}) \cup {next}
  PROVE  IInv'
<1> DEFINE ws == (proc[n].workers \ {w}) \cup {next}
<1>1. /\ proc[n].alive /\ proc[n].to = <<>> /\ proc[n].from = <<>>
      /\ stack # <<>> /\ Serves(w, Len(stack), n)
      /\ \A u \in proc[n].workers : u # w => u.pc = "wait" /\ u.id # w.id
  BY WorkerTop
<1>2. ProcessOK(n)
  BY ProcessFine
<1>3. \A u, v \in proc[n].workers : u.id = v.id => u = v
  BY <1>2 DEF ProcessOK, LinkOK, WorkersOK
<1>4. Serves(next, Len(stack), n)
  BY <1>1 DEF Serves
<1>5. WorkersOK(n)'
  <2>1. \A x \in ws : \E u \in proc[n].workers : x.id = u.id /\ x.obj = u.obj
    OBVIOUS
  <2>2. \A x, y \in ws : x.id = y.id => x = y
    BY <1>1, <1>3
  <2>3. \A u \in proc[n].workers : \E x \in ws : x.id = u.id /\ x.obj = u.obj
    OBVIOUS
  <2>4. ~Pending(n)
    BY <1>1 DEF Pending
  <2>5. \A x \in ws : x.pc # "wait" => Serves(x, Len(stack), n)
    BY <1>1, <1>4
  <2>6. UNCHANGED libraryVars /\ proc'[n].workers = ws /\ stack # <<>>
        /\ proc'[n].next_id = proc[n].next_id
    BY <1>1
  <2> HIDE DEF ws
  <2>7. QED
    BY ONLY IInv, n \in Sds, <2>1, <2>2, <2>3, <2>4, <2>5, <2>6, WorkersMove
<1>6. ~Cached(n, w.obj)
  BY <1>2 DEF ProcessOK, WorkersCached
<1>7. \A x \in ws : TodoOK(n, x)
  BY <1>2 DEF ProcessOK
<1>8. \A x \in ws : IF x.pc = "reply" THEN proc[n].rcache[x.obj] = x.flag ELSE ~Cached(n, x.obj)
  BY <1>2, <1>6 DEF ProcessOK, WorkersCached
<1> HIDE DEF ws
<1>9. proc'[n].workers = ws
  BY DEF ws
<1>10. QED
  BY <1>1, <1>5, <1>7, <1>8, <1>9, MoveKeeps

\* It goes on in itself.
LEMMA StepKeeps ==
  ASSUME IInv, NEW n \in Sds, NEW w \in proc[n].workers, w.pc \notin {"wait", "reply"},
         NEW next \in Workers, next.id = w.id, next.obj = w.obj, next.pc # "reply",
         TodoOK(n, next), UNCHANGED libraryVars, crashes' = crashes, Step(n, w, next)
  PROVE  IInv'
<1> DEFINE ws == (proc[n].workers \ {w}) \cup {next}
<1>1. /\ proc[n] \in Processes /\ proc[n].to = <<>> /\ proc[n].from = <<>>
  BY WorkerTop
<1>2. ws \in SUBSET Workers
  BY <1>1, FieldFacts
<1>3. Touches(n) /\ proc'[n] = [proc[n] EXCEPT !.workers = ws]
  <2>1. proc \in [Sds -> Processes] /\ proc' = [proc EXCEPT ![n].workers = ws]
    BY DEF IInv, TypeOK, Step
  <2> HIDE DEF ws
  <2>2. QED
    BY <1>1, <2>1 DEF Processes, Touches
<1> HIDE DEF ws
<1>4. /\ proc'[n] \in Processes
      /\ proc'[n].to = <<>> /\ proc'[n].from = <<>> /\ proc'[n].rcache = proc[n].rcache
      /\ proc'[n].workers = ws /\ proc'[n].next_id = proc[n].next_id
      /\ proc'[n].open = proc[n].open /\ proc'[n].alive = proc[n].alive
      /\ proc'[n].reaped = proc[n].reaped
  BY <1>1, <1>2, <1>3 DEF Processes
<1>5. FromOK(n)'
  BY <1>4 DEF FromOK
<1>6. proc'[n].workers = (proc[n].workers \ {w}) \cup {next}
  BY <1>4 DEF ws
<1>7. QED
  BY <1>3, <1>4, <1>5, <1>6, WorkerMoves

\* It sends a command and waits.
LEMMA CommandKeeps ==
  ASSUME IInv, NEW n \in Sds, NEW w \in proc[n].workers, w.pc \notin {"wait", "reply"},
         TodoOK(n, [w EXCEPT !.pc = "wait"]),
         NEW m \in Outbound, m.id = w.id, m.type \in {"obj_eval", "ste_fetch"},
         m.type = "obj_eval" =>
            Len(m.args) = 1 /\ m.args[1] \in SeqRange(Members[w.obj]),
         m.type = "ste_fetch" =>
            m.args \in Seq(States) /\ SeqRange(m.args) \subseteq SeqRange(Filters[w.obj]),
         UNCHANGED libraryVars, crashes' = crashes, Command(n, w, m)
  PROVE  IInv'
<1> DEFINE next == [w EXCEPT !.pc = "wait"]
           ws == (proc[n].workers \ {w}) \cup {next}
           fr == Append(proc[n].from, m)
<1>1. /\ proc[n] \in Processes /\ proc[n].alive /\ proc[n].to = <<>> /\ proc[n].from = <<>>
      /\ w \in Workers /\ stack # <<>> /\ Waits(Len(stack)) /\ Top.sd = n
      /\ Serves(w, Len(stack), n) /\ Top.id = w.id /\ Top.obj = w.obj /\ pd[Probe] = n
      /\ \A u \in proc[n].workers : u # w => u.pc = "wait"
  BY WorkerTop
<1>2. next \in Workers /\ next.id = w.id /\ next.obj = w.obj /\ next.pc = "wait"
  BY <1>1 DEF Workers
<1>3. ws \in SUBSET Workers
  BY <1>1, <1>2, FieldFacts
<1>4. fr \in Seq(Outbound) /\ fr # <<>> /\ Len(fr) = 1 /\ fr[1] = m
  BY <1>1, FieldFacts, OneFacts
<1>5. Touches(n) /\ proc'[n] = [proc[n] EXCEPT !.workers = ws, !.from = fr]
  <2>1. proc \in [Sds -> Processes]
        /\ proc' = [proc EXCEPT ![n].workers = ws, ![n].from = fr]
    BY <1>1 DEF IInv, TypeOK, Command, Processes
  <2> HIDE DEF ws, fr
  <2>2. QED
    BY <1>1, <2>1 DEF Processes, Touches
<1> HIDE DEF ws, fr, next
<1>6. /\ proc'[n] \in Processes
      /\ proc'[n].to = <<>> /\ proc'[n].from = fr /\ proc'[n].rcache = proc[n].rcache
      /\ proc'[n].workers = ws /\ proc'[n].next_id = proc[n].next_id
      /\ proc'[n].open = proc[n].open /\ proc'[n].alive = proc[n].alive
      /\ proc'[n].reaped = proc[n].reaped
  <2>1. proc[n] \in Processes /\ proc[n].to = <<>> /\ fr \in Seq(Outbound)
        /\ ws \in SUBSET Workers /\ proc'[n] = [proc[n] EXCEPT !.workers = ws, !.from = fr]
    BY <1>1, <1>3, <1>4, <1>5
  <2>2. proc'[n] \in Processes
    BY ONLY <2>1 DEF Processes
  <2>3. QED
    BY ONLY <2>1, <2>2 DEF Processes
<1>7. FromOK(n)'
  <2>1. /\ Top' = Top /\ Probe' = Probe /\ stack' = stack /\ pd' = pd
        /\ ReceivesOn(n)' /\ \A x, i, k : Serves(x, i, k)' <=> Serves(x, i, k)
    BY <1>1, LibrarySame DEF ReceivesOn
  <2>2. Quiet(n)'
    BY <1>1, <1>2, <1>6 DEF Quiet, ws
  <2>3. Served(Len(stack), n)'
    <3>1. Serves(next, Len(stack), n) /\ next \in ws
      BY <1>1, <1>2 DEF Serves, ws
    <3>2. QED
      BY <1>6, <2>1, <3>1 DEF Served
  <2>4. QED
    BY <1>1, <1>4, <1>6, <2>1, <2>2, <2>3 DEF FromOK
<1>8. proc'[n].workers = (proc[n].workers \ {w}) \cup {next} /\ TodoOK(n, next)
      /\ next.pc # "reply"
  BY <1>2, <1>6 DEF ws, next
<1>9. QED
  BY <1>2, <1>5, <1>6, <1>7, <1>8, WorkerMoves

\* A sequence with one more element.
LEMMA AppendRange ==
  ASSUME NEW T, NEW s \in Seq(T), NEW e \in T
  PROVE  /\ Append(s, e) \in Seq(T) /\ Append(s, e) # <<>>
         /\ SeqRange(Append(s, e)) = SeqRange(s) \cup {e}
<1>1. Append(s, e) \in Seq(T) /\ Len(Append(s, e)) = Len(s) + 1 /\ Len(s) \in Nat
      /\ DOMAIN s = 1 .. Len(s) /\ DOMAIN Append(s, e) = 1 .. Len(s) + 1
      /\ \A i \in 1 .. Len(s) : Append(s, e)[i] = s[i]
      /\ Append(s, e)[Len(s) + 1] = e
  BY AppendProperties, LenProperties
<1>2. Append(s, e) # <<>>
  BY <1>1, EmptySeq
<1>3. SeqRange(Append(s, e)) \subseteq SeqRange(s) \cup {e}
  BY <1>1 DEF SeqRange
<1>4. SeqRange(s) \cup {e} \subseteq SeqRange(Append(s, e))
  BY <1>1 DEF SeqRange
<1>5. QED
  BY <1>1, <1>2, <1>3, <1>4

\* A member of a set is looked up or asked for.
LEMMA SetMemberKeeps ==
  ASSUME IInv, NEW n \in Sds, NEW w \in proc[n].workers, SetMember(n, w),
         UNCHANGED libraryVars, crashes' = crashes
  PROVE  IInv'
<1>1. w.pc = "members" /\ w.todo # <<>>
  BY DEF SetMember
<1>2. w \in Workers /\ TodoOK(n, w)
  BY <1>1, WorkerTop
<1>3. w.missing = <<>> /\ MembersLeft(n, w) /\ w.todo \in Seq(Objects \cup States)
      /\ w.id \in Nat /\ w.obj \in Objects
  BY <1>1, <1>2 DEF TodoOK, Workers
<1>4. /\ Head(w.todo) \in SeqRange(w.todo) /\ Tail(w.todo) \in Seq(Objects \cup States)
      /\ SeqRange(w.todo) = {Head(w.todo)} \cup SeqRange(Tail(w.todo))
      /\ SeqRange(w.todo) \subseteq Objects \cup States
  BY <1>1, <1>3, RangeFacts
<1>5. CASE Cached(n, Head(w.todo))
  <2> DEFINE next == [w EXCEPT !.todo = Tail(@)]
  <2>1. /\ next \in Workers /\ next.id = w.id /\ next.obj = w.obj /\ next.pc = "members"
        /\ next.todo = Tail(w.todo) /\ next.missing = w.missing
    BY <1>1, <1>2, <1>4 DEF Workers
  <2>2. Step(n, w, next)
    BY <1>5 DEF SetMember
  <2> HIDE DEF next
  <2>3. TodoOK(n, next)
    BY <1>2, <1>3, <1>4, <1>5, <2>1 DEF TodoOK, MembersLeft
  <2>4. QED
    BY <1>1, <2>1, <2>2, <2>3, StepKeeps
<1>6. CASE ~Cached(n, Head(w.todo))
  <2>1. PICK m : m = ObjEval(w.id, Head(w.todo))
    OBVIOUS
  <2>2. Command(n, w, m)
    BY <1>6, <2>1 DEF SetMember
  <2>3. <<Head(w.todo)>> \in Seq(Objects \cup States)
    BY <1>4
  <2>4. /\ m \in Outbound /\ m.id = w.id /\ m.type = "obj_eval"
        /\ Len(m.args) = 1 /\ m.args[1] = Head(w.todo)
    BY <1>3, <2>1, <2>3 DEF ObjEval, Outbound
  <2>5. m.args[1] \in SeqRange(Members[w.obj])
    BY <1>3, <1>4, <2>4 DEF MembersLeft
  <2> DEFINE next == [w EXCEPT !.pc = "wait"]
  <2>6. /\ next.obj = w.obj /\ next.pc = "wait" /\ next.todo = w.todo
        /\ next.missing = w.missing
    BY <1>2 DEF Workers
  <2> HIDE DEF next
  <2>7. TodoOK(n, next)
    BY <1>1, <1>2, <1>3, <2>6 DEF TodoOK, MembersLeft
  <2>8. QED
    BY <1>1, <2>2, <2>4, <2>5, <2>7, CommandKeeps DEF next
<1>7. QED
  BY <1>5, <1>6

\* A member has been evaluated, or not.
LEMMA SetMemberAnsweredKeeps ==
  ASSUME IInv, NEW n \in Sds, NEW w \in proc[n].workers, SetMemberAnswered(n, w),
         UNCHANGED libraryVars, crashes' = crashes
  PROVE  IInv'
<1>1. w.pc = "answered" /\ w.missing = <<>>
  BY DEF SetMemberAnswered
<1>2. w \in Workers /\ TodoOK(n, w)
  BY <1>1, WorkerTop
<1>3. w.todo # <<>> /\ MembersLeft(n, w) /\ w.todo \in Seq(Objects \cup States)
  BY <1>1, <1>2 DEF TodoOK, Workers
<1>4. /\ Tail(w.todo) \in Seq(Objects \cup States)
      /\ SeqRange(w.todo) = {Head(w.todo)} \cup SeqRange(Tail(w.todo))
  BY <1>3, RangeFacts
<1>5. CASE MemberFound(n, w)
  <2> DEFINE next == [w EXCEPT !.pc = "members", !.todo = Tail(@)]
  <2>1. /\ next \in Workers /\ next.id = w.id /\ next.obj = w.obj /\ next.pc = "members"
        /\ next.todo = Tail(w.todo) /\ next.missing = w.missing
    BY <1>2, <1>4 DEF Workers
  <2>2. Step(n, w, next) /\ Cached(n, Head(w.todo))
    BY <1>5 DEF SetMemberAnswered, MemberFound
  <2> HIDE DEF next
  <2>3. TodoOK(n, next)
    BY <1>1, <1>2, <1>3, <1>4, <2>1, <2>2 DEF TodoOK, MembersLeft
  <2>4. QED
    BY <1>1, <2>1, <2>2, <2>3, StepKeeps
<1>6. CASE ~MemberFound(n, w)
  <2> DEFINE next == [w EXCEPT !.pc = "result", !.flag = "error", !.answer = TRUE]
  <2>1. /\ next \in Workers /\ next.id = w.id /\ next.obj = w.obj /\ next.pc = "result"
        /\ next.flag = "error" /\ next.missing = w.missing
    BY <1>2, ResultFacts DEF Workers
  <2>2. Step(n, w, next)
    BY <1>6 DEF SetMemberAnswered
  <2> HIDE DEF next
  <2>3. TodoOK(n, next)
    BY <1>2, <2>1, ResultFacts DEF TodoOK
  <2>4. QED
    BY <1>1, <2>1, <2>2, <2>3, StepKeeps
<1>7. QED
  BY <1>5, <1>6

\* All members are there.
LEMMA SetMembersDoneKeeps ==
  ASSUME IInv, NEW n \in Sds, NEW w \in proc[n].workers, SetMembersDone(n, w),
         UNCHANGED libraryVars, crashes' = crashes
  PROVE  IInv'
<1>1. w.pc = "members" /\ w.todo = <<>>
  BY DEF SetMembersDone
<1>2. w \in Workers /\ TodoOK(n, w)
  BY <1>1, WorkerTop
<1>3. w.missing = <<>> /\ MembersLeft(n, w) /\ w.todo \in Seq(Objects \cup States)
      /\ w.obj \in Objects
  BY <1>1, <1>2 DEF TodoOK, Workers
<1>4. SeqRange(w.todo) = {}
  BY <1>1, <1>3, RangeFacts
<1>5. SeesMembers(n, w.obj)
  BY <1>3, <1>4 DEF MembersLeft, SeesMembers
<1>6. Filters[w.obj] \in Seq(Objects \cup States)
  BY <1>3, VarsFacts, WiderSeq
<1> DEFINE next == [w EXCEPT !.pc = "filters", !.todo = Filters[w.obj]]
<1>7. /\ next \in Workers /\ next.id = w.id /\ next.obj = w.obj /\ next.pc = "filters"
      /\ next.todo = Filters[w.obj] /\ next.missing = w.missing
  BY <1>2, <1>6 DEF Workers
<1>8. Step(n, w, next)
  BY DEF SetMembersDone
<1> HIDE DEF next
<1>9. TodoOK(n, next)
  BY <1>2, <1>3, <1>5, <1>7 DEF TodoOK, FiltersLeft
<1>10. QED
  BY <1>1, <1>7, <1>8, <1>9, StepKeeps

\* A filter is looked up.
LEMMA LookUpFilterKeeps ==
  ASSUME IInv, NEW n \in Sds, NEW w \in proc[n].workers, LookUpFilter(n, w),
         UNCHANGED libraryVars, crashes' = crashes
  PROVE  IInv'
<1> DEFINE ms == IF Cached(n, Head(w.todo)) THEN w.missing
                 ELSE Append(w.missing, Head(w.todo))
           next == [w EXCEPT !.todo = Tail(@), !.missing = ms]
<1>1. w.pc = "filters" /\ w.todo # <<>>
  BY DEF LookUpFilter
<1>2. w \in Workers /\ TodoOK(n, w)
  BY <1>1, WorkerTop
<1>3. FiltersLeft(n, w) /\ w.todo \in Seq(Objects \cup States) /\ w.missing \in Seq(States)
      /\ w.obj \in Objects /\ SeqRange(w.missing) \subseteq SeqRange(Filters[w.obj])
  BY <1>1, <1>2 DEF TodoOK, Workers
<1>4. /\ Tail(w.todo) \in Seq(Objects \cup States)
      /\ SeqRange(w.todo) = {Head(w.todo)} \cup SeqRange(Tail(w.todo))
  BY <1>1, <1>3, RangeFacts
<1>5. Head(w.todo) \in SeqRange(Filters[w.obj]) /\ Head(w.todo) \in States
  <2>1. SeqRange(Filters[w.obj]) \subseteq States
    BY <1>3, VarsFacts, RangeFacts
  <2>2. QED
    BY <1>3, <1>4, <2>1 DEF FiltersLeft
<1>6. ms \in Seq(States) /\ SeqRange(ms) \subseteq SeqRange(Filters[w.obj])
  BY <1>3, <1>5, AppendRange
<1> HIDE DEF ms
<1>7. /\ next \in Workers /\ next.id = w.id /\ next.obj = w.obj /\ next.pc = "filters"
      /\ next.todo = Tail(w.todo) /\ next.missing = ms
  BY <1>1, <1>2, <1>4, <1>6 DEF Workers
<1>8. Step(n, w, next)
  BY DEF LookUpFilter, ms
<1> HIDE DEF next
<1>9. TodoOK(n, next)
  BY <1>3, <1>4, <1>6, <1>7 DEF TodoOK, FiltersLeft
<1>10. QED
  BY <1>1, <1>7, <1>8, <1>9, StepKeeps

\* The filters that are missing are asked for.
LEMMA FetchFiltersKeeps ==
  ASSUME IInv, NEW n \in Sds, NEW w \in proc[n].workers, FetchFilters(n, w),
         UNCHANGED libraryVars, crashes' = crashes
  PROVE  IInv'
<1>1. w.pc = "filters" /\ w.missing # <<>>
  BY DEF FetchFilters
<1>2. w \in Workers /\ TodoOK(n, w)
  BY <1>1, WorkerTop
<1>3. FiltersLeft(n, w) /\ w.missing \in Seq(States) /\ w.id \in Nat
      /\ SeqRange(w.missing) \subseteq SeqRange(Filters[w.obj])
  BY <1>1, <1>2 DEF TodoOK, Workers
<1>4. PICK m : m = SteFetch(w.id, w.missing)
  OBVIOUS
<1>5. Command(n, w, m)
  BY <1>4 DEF FetchFilters
<1>6. w.missing \in Seq(Objects \cup States)
  BY <1>3, WiderSeq
<1>7. m \in Outbound /\ m.id = w.id /\ m.type = "ste_fetch" /\ m.args = w.missing
  BY <1>3, <1>4, <1>6 DEF SteFetch, Outbound
<1> DEFINE next == [w EXCEPT !.pc = "wait"]
<1>8. /\ next.obj = w.obj /\ next.pc = "wait" /\ next.todo = w.todo
      /\ next.missing = w.missing
  BY <1>2 DEF Workers
<1> HIDE DEF next
<1>9. TodoOK(n, next)
  BY <1>1, <1>3, <1>8 DEF TodoOK, FiltersLeft
<1>10. QED
  BY <1>1, <1>3, <1>5, <1>7, <1>9, CommandKeeps DEF next

\* The filters have been fetched, or not.
LEMMA FiltersAnsweredKeeps ==
  ASSUME IInv, NEW n \in Sds, NEW w \in proc[n].workers, FiltersAnswered(n, w),
         UNCHANGED libraryVars, crashes' = crashes
  PROVE  IInv'
<1> DEFINE next == IF IsSet(w) /\ FetchFailed(n, w)
                   THEN [w EXCEPT !.pc = "result", !.flag = "error", !.answer = TRUE]
                   ELSE [w EXCEPT !.pc = "filters", !.missing = <<>>]
           ws == (proc[n].workers \ {w}) \cup {next}
           c == [k \in DOMAIN proc[n].rcache |->
                   IF k \in Fetched(n, w) THEN "state" ELSE proc[n].rcache[k]]
<1>1. w.pc = "answered" /\ w.missing # <<>>
  BY DEF FiltersAnswered
<1>2. /\ proc[n] \in Processes /\ proc[n].to = <<>> /\ proc[n].from = <<>>
      /\ w \in Workers /\ TodoOK(n, w)
  BY <1>1, WorkerTop
<1>3. FiltersLeft(n, w) /\ w.missing \in Seq(States)
      /\ SeqRange(w.missing) \subseteq SeqRange(Filters[w.obj])
  BY <1>1, <1>2 DEF TodoOK, Workers
<1>4. /\ next \in Workers /\ next.id = w.id /\ next.obj = w.obj /\ next.pc # "reply"
      /\ TodoOK(n, next)
  <2>1. CASE IsSet(w) /\ FetchFailed(n, w)
    <3>1. /\ next \in Workers /\ next.id = w.id /\ next.obj = w.obj /\ next.pc = "result"
          /\ next.flag = "error" /\ next.missing = w.missing
      BY <1>2, <2>1, ResultFacts DEF Workers
    <3> HIDE DEF next
    <3>2. QED
      BY <1>3, <3>1, ResultFacts DEF TodoOK
  <2>2. CASE ~(IsSet(w) /\ FetchFailed(n, w))
    <3>1. <<>> \in Seq(States) /\ SeqRange(<<>>) = {}
      BY EmptySeq DEF SeqRange
    <3>2. /\ next \in Workers /\ next.id = w.id /\ next.obj = w.obj /\ next.pc = "filters"
          /\ next.todo = w.todo /\ next.missing = <<>>
      BY <1>2, <2>2, <3>1 DEF Workers
    <3> HIDE DEF next
    <3>3. QED
      BY <1>3, <3>1, <3>2 DEF TodoOK, FiltersLeft
  <2>3. QED
    BY <2>1, <2>2
<1>5. ws \in SUBSET Workers
  BY <1>2, <1>4, FieldFacts
<1>6. proc[n].rcache \in [Objects \cup States -> Results \cup {"none", "state"}]
  BY <1>2, FieldFacts
<1>7. Fetched(n, w) \subseteq States
  <2>1. SeqRange(w.missing) \subseteq States
    BY <1>3, RangeFacts
  <2>2. QED
    BY <2>1 DEF Fetched, SeqRange
<1>8. c \in [Objects \cup States -> Results \cup {"none", "state"}]
  BY <1>6
<1>9. \A o \in Objects : c[o] = proc[n].rcache[o]
  BY <1>6, <1>7, DocumentAssumption
<1>10. Touches(n) /\ proc'[n] = [proc[n] EXCEPT !.workers = ws, !.rcache = c]
  <2>1. proc \in [Sds -> Processes]
        /\ proc' = [proc EXCEPT ![n].workers = ws, ![n].rcache = c]
    <3>1. proc \in [Sds -> Processes]
      BY DEF IInv, TypeOK
    <3>2. proc' = [proc EXCEPT ![n].workers = ws,
                     ![n].rcache = [k \in DOMAIN @ |-> IF k \in Fetched(n, w) THEN "state" ELSE @[k]]]
      BY DEF FiltersAnswered
    <3> HIDE DEF ws
    <3>3. QED
      BY <1>2, <3>1, <3>2 DEF Processes
  <2> HIDE DEF ws, c
  <2>2. QED
    BY <1>2, <2>1 DEF Processes, Touches
<1> HIDE DEF ws, c, next
<1>11. /\ proc'[n] \in Processes
       /\ proc'[n].to = <<>> /\ proc'[n].from = <<>> /\ proc'[n].rcache = c
       /\ proc'[n].workers = ws /\ proc'[n].next_id = proc[n].next_id
       /\ proc'[n].open = proc[n].open /\ proc'[n].alive = proc[n].alive
       /\ proc'[n].reaped = proc[n].reaped
  BY <1>2, <1>5, <1>8, <1>10 DEF Processes
<1>12. FromOK(n)'
  BY <1>11 DEF FromOK
<1>13. proc'[n].workers = (proc[n].workers \ {w}) \cup {next}
       /\ \A o \in Objects : proc'[n].rcache[o] = proc[n].rcache[o]
  BY <1>9, <1>11 DEF ws
<1>14. QED
  BY <1>1, <1>4, <1>10, <1>11, <1>12, <1>13, WorkerMoves

\* The result is computed.
LEMMA CollectKeeps ==
  ASSUME IInv, NEW n \in Sds, NEW w \in proc[n].workers, Collect(n, w),
         UNCHANGED libraryVars, crashes' = crashes
  PROVE  IInv'
<1>1. w.pc = "filters" /\ w.todo = <<>> /\ w.missing = <<>>
  BY DEF Collect
<1>2. w \in Workers /\ TodoOK(n, w)
  BY <1>1, WorkerTop
<1>3. PICK f \in CollectFlags, ok \in BOOLEAN :
        Step(n, w, [w EXCEPT !.pc = "result", !.flag = f, !.answer = ok])
  BY DEF Collect
<1> DEFINE next == [w EXCEPT !.pc = "result", !.flag = f, !.answer = ok]
<1>4. f \in Results
  BY DEF Results
<1>5. /\ next \in Workers /\ next.id = w.id /\ next.obj = w.obj /\ next.pc = "result"
      /\ next.flag = f /\ next.missing = w.missing
  BY <1>2, <1>4 DEF Workers
<1>6. Step(n, w, next)
  BY <1>3
<1> HIDE DEF next
<1>7. TodoOK(n, next)
  BY <1>1, <1>2, <1>4, <1>5 DEF TodoOK, FiltersLeft
<1>8. QED
  BY <1>1, <1>5, <1>6, <1>7, StepKeeps

\* The result is cached; none is there yet.
LEMMA StoreResultKeeps ==
  ASSUME IInv, NEW n \in Sds, NEW w \in proc[n].workers, StoreResult(n, w),
         UNCHANGED libraryVars, crashes' = crashes
  PROVE  IInv'
<1> DEFINE next == [w EXCEPT !.pc = "reply"]
           ws == (proc[n].workers \ {w}) \cup {next}
           c == [proc[n].rcache EXCEPT ![w.obj] = w.flag]
<1>1. w.pc = "result"
  BY DEF StoreResult
<1>2. /\ proc[n] \in Processes /\ proc[n].alive /\ proc[n].to = <<>> /\ proc[n].from = <<>>
      /\ w \in Workers /\ TodoOK(n, w)
      /\ stack # <<>> /\ Waits(Len(stack)) /\ Top.sd = n /\ Serves(w, Len(stack), n)
      /\ Top.obj = w.obj /\ ~Top.skip
      /\ \A u \in proc[n].workers : u # w => u.pc = "wait" /\ u.id # w.id /\ u.obj # w.obj
  BY <1>1, WorkerTop
<1>3. /\ Top.obj \in Objects /\ flag[Top.obj] = "unknown" /\ AllUsable(Top.obj)
  BY <1>2, WaitingTop
<1>4. ProcessOK(n) /\ TypeOK /\ proc \in [Sds -> Processes]
  BY ProcessFine DEF IInv, TypeOK
<1>5. ~Cached(n, w.obj)
  BY <1>1, <1>4 DEF ProcessOK, WorkersCached
<1>6. w.flag \in Results /\ (w.flag = "error" \/ SeesMembers(n, w.obj))
  BY <1>1, <1>2 DEF TodoOK
<1>7. /\ next \in Workers /\ next.id = w.id /\ next.obj = w.obj /\ next.pc = "reply"
      /\ next.flag = w.flag /\ next.missing = w.missing
  BY <1>2 DEF Workers
<1>8. ws \in SUBSET Workers /\ proc[n].workers \subseteq Workers
  BY <1>2, <1>7, FieldFacts
<1>9. proc[n].rcache \in [Objects \cup States -> Results \cup {"none", "state"}]
  BY <1>2, FieldFacts
<1>10. /\ c \in [Objects \cup States -> Results \cup {"none", "state"}]
       /\ c[w.obj] = w.flag /\ \A k \in Objects : k # w.obj => c[k] = proc[n].rcache[k]
  BY <1>2, <1>3, <1>6, <1>9
<1>11. Touches(n) /\ proc'[n] = [proc[n] EXCEPT !.workers = ws, !.rcache = c]
  <2>1. proc' = [proc EXCEPT ![n].workers = ws, ![n].rcache[w.obj] = w.flag]
    BY <1>5 DEF StoreResult
  <2> HIDE DEF ws
  <2>2. QED
    BY <1>2, <1>4, <2>1 DEF Processes, Touches
<1> HIDE DEF ws, c, next
<1>12. proc'[n] \in Processes
  BY <1>2, <1>8, <1>10, <1>11 DEF Processes
<1>13. /\ proc'[n].to = <<>> /\ proc'[n].from = <<>> /\ proc'[n].rcache = c
       /\ proc'[n].workers = ws /\ proc'[n].next_id = proc[n].next_id
       /\ proc'[n].open = proc[n].open /\ proc'[n].alive = proc[n].alive
       /\ proc'[n].reaped = proc[n].reaped
  BY <1>2, <1>11 DEF Processes
<1>14. ProcessStep(n) /\ crashes' \in 0 .. MaxCrashes
  BY <1>4, <1>11, <1>12, StepFacts DEF TypeOK
<1>15. pd' = pd /\ flag' = flag /\ \A o : AllUsable(o)' <=> AllUsable(o)
  BY LibrarySame
<1>16. \A o \in Objects : Cached(n, o) => Cached(n, o)'
  BY <1>5, <1>10, <1>13 DEF Cached
<1>17. DescOK(n)' /\ ToOK(n)' /\ FromOK(n)'
  BY <1>4, <1>13 DEF ProcessOK, DescOK, ToOK, FromOK, Cached
<1>18. WorkersOK(n)'
  <2>1. \A x \in ws : \E u \in proc[n].workers : x.id = u.id /\ x.obj = u.obj
    BY <1>7 DEF ws
  <2>2. \A x, y \in ws : x.id = y.id => x = y
    <3>1. \A u, v \in proc[n].workers : u.id = v.id => u = v
      BY <1>4 DEF ProcessOK, LinkOK, WorkersOK
    <3>2. QED
      BY <1>2, <1>7, <3>1 DEF ws
  <2>3. \A u \in proc[n].workers : \E x \in ws : x.id = u.id /\ x.obj = u.obj
    BY <1>7 DEF ws
  <2>4. ~Pending(n)
    BY <1>2 DEF Pending
  <2>5. \A x \in ws : x.pc # "wait" => Serves(x, Len(stack), n)
    <3>1. Serves(next, Len(stack), n)
      BY <1>2, <1>7 DEF Serves
    <3>2. QED
      BY <1>2, <3>1 DEF ws
  <2>6. UNCHANGED libraryVars /\ proc'[n].workers = ws /\ stack # <<>>
        /\ proc'[n].next_id = proc[n].next_id
    BY <1>2, <1>13
  <2>7. QED
    BY ONLY IInv, n \in Sds, <2>1, <2>2, <2>3, <2>4, <2>5, <2>6, WorkersMove
<1>19. WorkersCached(n)'
  <2>1. ASSUME NEW x \in ws
        PROVE  IF x.pc = "reply" THEN c[x.obj] = x.flag ELSE c[x.obj] = "none"
    <3>1. CASE x = next
      BY <1>7, <1>10, <3>1
    <3>2. CASE x # next
      <4>1. x \in proc[n].workers /\ x # w /\ x.pc = "wait" /\ x.obj # w.obj
        BY <1>2, <2>1, <3>2 DEF ws
      <4>2. ~Cached(n, x.obj) /\ x.obj \in Objects
        BY <1>4, <1>8, <4>1 DEF ProcessOK, WorkersCached, Workers
      <4>3. QED
        BY <1>10, <4>1, <4>2 DEF Cached
    <3>3. QED
      BY <3>1, <3>2
  <2>2. QED
    BY <1>13, <2>1 DEF WorkersCached, Cached
<1>20. CacheOK(n)'
  <2>1. ASSUME NEW o \in Objects
        PROVE  c[o] # "state" /\ (c[o] # "none" /\ c[o] # "does_not_exist" => AllUsable(o))
    <3>1. CASE o = w.obj
      BY <1>2, <1>3, <1>6, <1>10, <3>1, ResultFacts
    <3>2. CASE o # w.obj
      BY <1>4, <1>10, <3>2 DEF ProcessOK, CacheOK, Cached
    <3>3. QED
      BY <3>1, <3>2
  <2>2. QED
    BY <1>13, <1>15, <2>1 DEF CacheOK, Cached
<1>21. \A x \in proc'[n].workers : TodoOK(n, x)'
  <2>1. TodoOK(n, next)
    BY <1>2, <1>6, <1>7 DEF TodoOK
  <2>2. \A x \in ws : TodoOK(n, x) /\ x \in Workers
    BY <1>4, <1>8, <2>1 DEF ProcessOK, ws
  <2>3. QED
    BY <1>13, <1>16, <2>2, TodoGrows
<1>22. ASSUME NEW o \in Objects, proc'[n].rcache[o] \notin {"none", "error"}
       PROVE  SeesMembers(n, o)'
  <2>1. SeesMembers(n, o)
    <3>1. CASE o = w.obj
      BY <1>6, <1>10, <1>13, <1>22, <3>1
    <3>2. CASE o # w.obj
      BY <1>4, <1>10, <1>13, <1>22, <3>2 DEF ProcessOK
    <3>3. QED
      BY <3>1, <3>2
  <2>2. QED
    BY <1>16, <2>1, SeesGrows
<1>23. ASSUME NEW o \in Objects, pd'[ProbeOf[o]] = n, Cached(n, o)', flag'[o] \in Flags
       PROVE  flag'[o] = proc'[n].rcache[o]
  <2>1. o # w.obj
    BY <1>2, <1>3, <1>15, <1>23, ResultFacts
  <2>2. c[o] = proc[n].rcache[o] /\ Cached(n, o)
    BY <1>10, <1>13, <1>23, <2>1 DEF Cached
  <2>3. QED
    BY <1>4, <1>13, <1>15, <1>23, <2>2 DEF ProcessOK
<1>24. ProcessOK(n)'
  BY <1>17, <1>18, <1>19, <1>20, <1>21, <1>22, <1>23 DEF ProcessOK, LinkOK
<1>25. QED
  BY <1>13, <1>14, <1>24, ProcessKeeps

\* The result is sent and the worker ends.
LEMMA SendReplyKeeps ==
  ASSUME IInv, NEW n \in Sds, NEW w \in proc[n].workers, SendReply(n, w),
         UNCHANGED libraryVars, crashes' = crashes
  PROVE  IInv'
<1> DEFINE m == IF w.answer THEN Result(w.id, w.flag) ELSE ProbeError(w.id)
           ws == proc[n].workers \ {w}
           fr == Append(proc[n].from, m)
<1>1. w.pc = "reply"
  BY DEF SendReply
<1>2. /\ proc[n] \in Processes /\ proc[n].alive /\ proc[n].to = <<>> /\ proc[n].from = <<>>
      /\ w \in Workers /\ TodoOK(n, w)
      /\ stack # <<>> /\ Waits(Len(stack)) /\ Top.sd = n /\ Serves(w, Len(stack), n)
      /\ Top.id = w.id /\ Top.obj = w.obj /\ ~Top.skip /\ pd[Probe] = n
      /\ \A u \in proc[n].workers : u # w => u.pc = "wait" /\ u.id # w.id /\ u.obj # w.obj
  BY <1>1, WorkerTop
<1>3. ReceivesOn(n) /\ Top = stack[Len(stack)]
  BY <1>2, WaitingTop
<1>4. ProcessOK(n) /\ proc \in [Sds -> Processes]
  BY ProcessFine DEF IInv, TypeOK
<1>5. proc[n].rcache[Top.obj] = w.flag /\ w.flag \in Results /\ w.id \in Nat
  BY <1>1, <1>2, <1>4 DEF ProcessOK, WorkersCached, TodoOK, Workers
<1>6. /\ m \in Outbound /\ m.id = w.id /\ m.type \in {"result", "error"}
      /\ m.type = "result" => m.flag = w.flag
  <2>1. <<>> \in Seq(Objects \cup States)
    BY EmptySeq
  <2>2. QED
    BY <1>5, <2>1, ResultFacts DEF Result, ProbeError, Outbound
<1>7. fr \in Seq(Outbound) /\ fr # <<>> /\ Len(fr) = 1 /\ fr[1] = m
  BY <1>2, <1>6, FieldFacts, OneFacts
<1>8. ws \in SUBSET Workers
  BY <1>2, FieldFacts
<1>9. Touches(n) /\ proc'[n] = [proc[n] EXCEPT !.workers = ws, !.from = fr]
  <2>1. proc' = [proc EXCEPT ![n].workers = ws, ![n].from = fr]
    BY <1>2, <1>4 DEF SendReply, Processes
  <2> HIDE DEF ws, fr
  <2>2. QED
    BY <1>2, <1>4, <2>1 DEF Processes, Touches
<1> HIDE DEF ws, fr, m
<1>10. proc'[n] \in Processes
  BY <1>2, <1>7, <1>8, <1>9 DEF Processes
<1>11. /\ proc'[n].to = <<>> /\ proc'[n].from = fr /\ proc'[n].rcache = proc[n].rcache
       /\ proc'[n].workers = ws /\ proc'[n].next_id = proc[n].next_id
       /\ proc'[n].open = proc[n].open /\ proc'[n].alive = proc[n].alive
       /\ proc'[n].reaped = proc[n].reaped
  BY <1>2, <1>9 DEF Processes
<1>12. FromOK(n)'
  <2>1. /\ Top' = Top /\ Probe' = Probe /\ stack' = stack /\ pd' = pd
        /\ ReceivesOn(n)' /\ \A x, i, k : Serves(x, i, k)' <=> Serves(x, i, k)
    BY <1>3, LibrarySame
  <2>2. Quiet(n)'
    BY <1>2, <1>11 DEF Quiet, ws
  <2>3. ~Served(Len(stack), n)'
    BY <1>2, <1>3, <1>11, <2>1 DEF Served, Serves, ws
  <2>4. proc'[n].from[1] = m /\ Len(proc'[n].from) = 1 /\ proc'[n].rcache[Top.obj] = w.flag
    BY <1>5, <1>7, <1>11
  <2>5. QED
    BY <1>2, <1>5, <1>6, <2>1, <2>2, <2>3, <2>4 DEF FromOK
<1>13. WorkersOK(n)'
  <2>1. \A x \in ws : \E u \in proc[n].workers : x.id = u.id /\ x.obj = u.obj
    BY DEF ws
  <2>2. \A x, y \in ws : x.id = y.id => x = y
    BY <1>4 DEF ws, ProcessOK, LinkOK, WorkersOK
  <2>3. Pending(n)'
    BY <1>7, <1>11 DEF Pending
  <2>4. \A u \in proc[n].workers :
           (\E x \in ws : x.id = u.id /\ x.obj = u.obj) \/ Serves(u, Len(stack), n)
    BY <1>2 DEF ws
  <2>5. \A x \in ws : x.pc # "wait" => Serves(x, Len(stack), n)
    BY <1>2 DEF ws
  <2>6. UNCHANGED libraryVars /\ proc'[n].workers = ws /\ stack # <<>>
        /\ proc'[n].next_id = proc[n].next_id
    BY <1>2, <1>11
  <2>7. QED
    BY ONLY IInv, n \in Sds, <2>1, <2>2, <2>3, <2>4, <2>5, <2>6, WorkersMove
<1>14. \A x \in ws : /\ TodoOK(n, x)
                     /\ IF x.pc = "reply" THEN proc[n].rcache[x.obj] = x.flag
                                          ELSE ~Cached(n, x.obj)
  BY <1>4 DEF ProcessOK, WorkersCached, ws
<1>15. QED
  BY <1>2, <1>9, <1>10, <1>11, <1>12, <1>13, <1>14, MoveKeeps

\* The workers keep the invariant.
LEMMA WorkersKeep ==
  ASSUME IInv, NEW n \in Sds, WorkersStep(n)
  PROVE  IInv'
<1>1. PICK w \in proc[n].workers : WorkerStep(n, w)
  BY DEF WorkersStep
<1>2. UNCHANGED libraryVars /\ crashes' = crashes
  BY <1>1 DEF WorkerStep
<1>3. QED
  BY <1>1, <1>2, SetMemberKeeps, SetMemberAnsweredKeeps, SetMembersDoneKeeps,
     LookUpFilterKeeps, FetchFiltersKeeps, FiltersAnsweredKeeps, CollectKeeps,
     StoreResultKeeps, SendReplyKeeps DEF WorkerStep

\* A process ends: what it has sent stays.
LEMMA CrashKeeps ==
  ASSUME IInv, NEW n \in Sds, Crash(n)
  PROVE  IInv'
<1> DEFINE x == Dead(proc[n])
<1>1. /\ proc[n].alive /\ crashes < MaxCrashes /\ crashes' = crashes + 1
      /\ proc' = [proc EXCEPT ![n] = x] /\ UNCHANGED libraryVars
  BY DEF Crash
<1>2. ProcessOK(n) /\ TypeOK /\ proc[n] \in Processes
  BY ProcessFine DEF IInv, TypeOK
<1>3. /\ x \in Processes /\ x.open /\ ~x.alive /\ ~x.reaped /\ x.to = <<>>
      /\ x.from = proc[n].from /\ x.workers = {}
      /\ \A k \in Objects \cup States : x.rcache[k] = "none"
  BY <1>2, NewFacts DEF Dead, NoProcess
<1> HIDE DEF x
<1>4. proc' \in [Sds -> Processes] /\ proc'[n] = x /\ \A k \in Sds : k # n => proc'[k] = proc[k]
  BY <1>1, <1>2, <1>3, ProcessFacts
<1>5. ProcessStep(n) /\ crashes' \in 0 .. MaxCrashes
  BY <1>1, <1>2, <1>4, DocumentAssumption DEF ProcessStep, TypeOK
<1>6. proc'[n].open = proc[n].open
  BY <1>1, <1>2, <1>3, <1>4, FieldFacts DEF ProcessOK, DescOK
<1>7. DescOK(n)' /\ ToOK(n)' /\ WorkersOK(n)' /\ WorkersCached(n)'
  BY <1>3, <1>4 DEF DescOK, ToOK, WorkersOK, WorkersCached, Cached
<1>8. FromOK(n)'
  <2>1. FromOK(n) /\ ~proc[n].reaped
    BY <1>1, <1>2 DEF ProcessOK, LinkOK, DescOK
  <2>2. Top' = Top /\ Probe' = Probe /\ pd' = pd /\ (ReceivesOn(n)' <=> ReceivesOn(n))
    BY <1>1, LibrarySame
  <2>3. Quiet(n)' /\ \A i : ~Served(i, n)'
    BY <1>3, <1>4 DEF Quiet, Served
  <2>4. QED
    BY <1>3, <1>4, <2>1, <2>2, <2>3 DEF FromOK
<1>9. CacheOK(n)'
  BY <1>3, <1>4 DEF CacheOK, Cached
<1>10. ProcessOK(n)'
  BY <1>3, <1>4, <1>7, <1>8, <1>9 DEF ProcessOK, LinkOK, Cached
<1>11. QED
  BY <1>5, <1>6, <1>10, ProcessKeeps
-----------------------------------------------------------------------------
(* The invariant holds, and what it says of the system.                    *)

\* Before the first test there is no call and no process.
LEMMA InitiallyFine ==
  ASSUME Init
  PROVE  IInv
<1>1. stack = <<>> /\ ret = "none" /\ Pos = {}
  BY DEF Init, Pos
<1>2. TypeOK
  <2>1. NoProcess \in Processes
    BY NewFacts
  <2>2. stack \in Seq(Frame) /\ 0 \in 0 .. MaxQueries /\ 0 \in 0 .. MaxCrashes
    BY <1>1, DocumentAssumption
  <2>3. QED
    BY <2>1, <2>2 DEF Init, TypeOK
<1>3. StackInv
  BY <1>1 DEF StackInv, ShapeInv, RankInv, ReturnInv, QueryInv, Reading
<1>4. /\ \A p \in Probes : pd[p] = NoSd
      /\ \A n \in Sds : /\ ~proc[n].open /\ ~proc[n].alive
                        /\ proc[n].to = <<>> /\ proc[n].from = <<>> /\ proc[n].workers = {}
                        /\ \A k \in Objects \cup States : proc[n].rcache[k] = "none"
  BY DEF Init, NoProcess
<1>5. DescInv
  BY <1>4 DEF DescInv, Cached
<1>6. LinkInv
  BY <1>4 DEF LinkInv, LinkOK, ToOK, FromOK, WorkersOK
<1>7. TodoInv /\ CacheInv /\ SetsSeeMembers
  BY <1>4 DEF TodoInv, CacheInv, WorkersCached, CacheOK, SetsSeeMembers, Cached
<1>8. ReportsCachedResult
  BY <1>4, DocumentAssumption DEF ReportsCachedResult
<1>9. QED
  BY <1>2, <1>3, <1>5, <1>6, <1>7, <1>8 DEF IInv

\* A step that changes nothing.
LEMMA StutterKeeps ==
  ASSUME IInv, UNCHANGED vars
  PROVE  IInv'
<1>1. UNCHANGED libraryVars /\ proc' = proc /\ crashes' = crashes
  BY DEF vars, libraryVars
<1>2. proc' \in [Sds -> Processes] /\ crashes' \in 0 .. MaxCrashes
  BY <1>1 DEF IInv, TypeOK
<1>3. \A k \in Sds : proc'[k].open = proc[k].open /\ ProcessOK(k)'
  BY <1>1, ProcessSame
<1>4. QED
  BY <1>1, <1>2, <1>3, ProcessesKeep

\* The library, each process and the bounds on their failures together: the
\* invariant is inductive.
THEOREM Invariance == Spec => []IInv
<1>1. Init => IInv
  BY InitiallyFine
<1>2. IInv /\ [Next]_vars => IInv'
  <2> SUFFICES ASSUME IInv, [Next]_vars PROVE IInv'
    OBVIOUS
  <2>1. CASE LibraryStep \/ ConnectFails \/ \E o \in Objects : Evaluate(o)
    BY <2>1, LibraryKeeps
  <2>2. ASSUME NEW n \in Sds, InputStep(n) \/ WorkersStep(n) \/ Crash(n)
        PROVE  IInv'
    BY <2>2, InputKeeps, WorkersKeep, CrashKeeps
  <2>3. CASE UNCHANGED vars
    BY <2>3, StutterKeeps
  <2>4. QED
    BY <2>1, <2>2, <2>3 DEF Next
<1>3. QED
  BY <1>1, <1>2, PTL DEF Spec

\* TypeOK: the calls of the library, the messages and the workers have the
\* types the code gives them.
THEOREM TypeCorrect == Spec => []TypeOK
<1>1. IInv => TypeOK
  BY DEF IInv
<1>2. QED
  BY <1>1, Invariance, PTL

\* ReplyMatches: SEAP_recvmsg in oval_probe_comm compares no ids, and yet a
\* result or an error it takes answers the message it sent.
THEOREM RepliesMatch == Spec => []ReplyMatches
<1>1. IInv => ReplyMatches
  BY Arrival DEF ReplyMatches, Arrived
<1>2. QED
  BY <1>1, Invariance, PTL

\* QuietWhenIdle: when oval_probe_query_criteria is left, no probe that runs
\* has a message or a worker left, however the test ended.
THEOREM IdleIsQuiet == Spec => []QuietWhenIdle
<1>1. IInv => QuietWhenIdle
  <2> SUFFICES ASSUME IInv, stack = <<>>, NEW n \in Sds, proc[n].alive
               PROVE  /\ proc[n].to = <<>> /\ proc[n].from = <<>>
                      /\ proc[n].workers = {}
    BY DEF QuietWhenIdle
  <2>1. Calm(n)
    BY CalmFacts DEF ReceivesOn
  <2>2. ~proc[n].reaped
    BY DEF IInv, DescInv
  <2>3. proc[n].workers = {}
    BY DEF IInv, LinkInv, LinkOK, WorkersOK, Pos
  <2>4. QED
    BY <2>1, <2>2, <2>3 DEF Calm
<1>2. QED
  BY <1>1, Invariance, PTL

\* NoDoubleEvaluation: probe_worker_runfn never meets the abort() next to
\* probe_rcache_sexp_add.
THEOREM EvaluatedOnce == Spec => []NoDoubleEvaluation
<1>1. IInv => NoDoubleEvaluation
  <2> SUFFICES ASSUME IInv, NEW n \in Sds, NEW w \in proc[n].workers
               PROVE  /\ w.pc = "result" => ~Cached(n, w.obj)
                      /\ \A u \in proc[n].workers : u.obj = w.obj => u = w
    BY DEF NoDoubleEvaluation
  <2>1. WorkersOK(n) /\ WorkersCached(n)
    BY DEF IInv, LinkInv, LinkOK, CacheInv
  <2>2. QED
    BY <2>1 DEF WorkersOK, WorkersCached
<1>2. QED
  BY <1>1, Invariance, PTL

\* ReportsCachedResult: the flag oval_probe_comm stored for an object is the
\* one in the result cache of the probe that is connected.
THEOREM ReportsAgree == Spec => []ReportsCachedResult
<1>1. IInv => ReportsCachedResult
  BY DEF IInv
<1>2. QED
  BY <1>1, Invariance, PTL

\* SetsSeeMembers: probe_set_eval has combined the results of all members
\* when it returned one.
THEOREM SetsSee == Spec => []SetsSeeMembers
<1>1. IInv => SetsSeeMembers
  BY DEF IInv
<1>2. QED
  BY <1>1, Invariance, PTL

\* FlagsAreFinal: no query, restart or nested evaluation changes the flag of
\* an object that has been collected.
THEOREM FlagsStay == Spec => FlagsAreFinal
<1>1. IInv /\ [Next]_vars
        => [\A o \in Objects : flag[o] \in Flags => flag'[o] = flag[o]]_vars
  <2> SUFFICES ASSUME IInv, [Next]_vars, NEW o \in Objects, flag[o] \in Flags
               PROVE  flag'[o] = flag[o]
    OBVIOUS
  <2>1. CASE LibraryStep \/ ConnectFails \/ \E q \in Objects : Evaluate(q)
    BY <2>1, FlagEffect
  <2>2. ASSUME NEW n \in Sds, InputStep(n) \/ WorkersStep(n) \/ Crash(n)
        PROVE  UNCHANGED libraryVars
    BY <2>2 DEF InputStep, InputHit, InputSkip, InputNew, InputReply, WorkersStep,
       WorkerStep, Crash
  <2>3. CASE UNCHANGED vars
    BY <2>3 DEF vars
  <2>4. QED
    BY <2>1, <2>2, <2>3 DEF Next, libraryVars
<1>2. QED
  BY <1>1, Invariance, PTL DEF Spec, FlagsAreFinal
=============================================================================
