# A TLA+ model of OpenSCAP's evaluation core

The repository is the Debian package of OpenSCAP 1.2.1. Paths below are relative
to `src/openscap-1.2.1/src/`, `OVAL/probes` is abbreviated as `probes`. The code
is a C library for the SCAP languages and a command, `oscap`; its core evaluates
OVAL definitions by asking *probes*, separate multi-threaded processes, for
objects of the system, and XCCDF policies on top of that.

1. [Inventory](#1-inventory) - parts, state, operations, what is hard
2. [Modules](#2-modules-and-how-they-correspond-to-the-code)
3. [Runs](#3-runs) - what TLC checks, bounds, fairness
4. [Proofs](#4-proofs)
5. [Disagreements with the code's own statements](#5-disagreements-found)
6. [What is only model-checked, what is not modelled](#6-limits)
7. [Plan](#7-plan)

## 1. Inventory

```
 oscap --> XCCDF policy engine --> OVAL session / agent
                |                        |
         result scoring        results (criteria, tests, states)
                                         |
                       oval_probe.c, oval_probe_ext.c  (library, one thread)
                                         |  SEAP messages and commands
              ---------------------------+---------------------------
              | probe process per object type                        |
              |  input handler -> worker threads -> item cache       |
              |  signal handler     |    result cache, name cache    |
              -------------------------------------------------------
```

**Probe item cache** (`probes/probe/icache.c`). State: ring of `queue_max`
requests with `queue_beg`, `queue_end`, `queue_cnt`; one mutex, two condition
variables; a tree from `SEXP_ID_v` to the items seen with that hash; `next_ID`;
the collected object of each request. Operations: `probe_icache_add`,
`probe_icache_nop`, `probe_item_collect`, the thread `probe_icache_worker`,
`probe_icache_free`. Worker threads are producers, the icache worker the only
consumer; a collected object belongs to both in turn. *Hard:* wake-ups, a full
ring, a wait without a predicate, a signal sent after the unlock, asynchronous
cancellation of a producer, hash collisions. *Correct means:* no item is lost,
duplicated or overtaken; equal items have one id and one id stands for one item;
a thread that comes back from a NOP owns its object and finds it complete;
nobody waits for good.

**Worker threads** (`probes/probe/worker.c`). State: the message served, the
object under evaluation, its filters. `probe_worker_runfn` evaluates, sorts,
caches, replies; `probe_set_eval` asks the library for members and states
(`SEAP_cmd_exec`) and merges lists (`probe_set_combine`); `probe_varref_iterate_ctx`
counts through the combinations of variable values. *Hard:* commands interleave
with other evaluations, merging relies on order, the table of collection flags.
*Correct means:* an object is evaluated once per process; a set is computed from
its members and is what set algebra says; its flag promises no more than is true.

**Input handler** (`input_handler.c`), **signal handler** (`signal_handler.c`),
**process** (`main.c`, `fini.c`). State: the tree of running workers, records of
threads, the pending signal, the caches of the process. The input thread receives
requests and creates workers, a worker takes itself from the tree, replies and
frees its record, the signal handler cancels, joins and frees, `main` frees the
caches, `probe_reset` empties them in between. *Hard:* who frees a record, what
a cancelled thread still does, a walk over the tree without its lock, joins that
give up. *Correct means:* while nobody stops the process no thread touches what
another has freed; a request is answered once, or given up; a process told to stop
stops.

**Result cache** (`rcache.c`): the objects and states a process knows, by id; a
second result for an id is refused.

**SEAP** (`probes/SEAP/seap*.c`, transports `sch_*.c`): packets, queues of
packets, message ids, commands with replies, descriptors whose number comes from a
bitmap. Several threads write packets in pieces, one reads what has come, and
the parser has to go on where a read ended. *Hard:* a descriptor number that comes
to stand for another process, replies nobody waits for, who reads the pipe while
everybody waits, a read that ends inside a number, a packet waiting for the next
one. *Correct means:* packets come whole, once and in order, or the channel has
failed and says so.

**S-expressions** (`sexp-*.c`): values with reference counts; lists that grow in
blocks of 2, 4, 8 ... elements; `SEXP_list_sort`; the printer and the parser.

**Containers of the probes** (`probes/SEAP/generic`): red-black trees, bitmaps, sparse
buffers. Sequential, intricate. *Correct means:* a tree is a map and stays balanced.

**Comparison of entities** (`probes/probe/entcmp.c`, `OVAL/results/oval_cmp*.c`),
**file traversal** (`probes/oval_fts.c`): pure decisions with many cases: versions
with epochs, address ranges, records, regular expressions that match a part of a
path, links, recursion up and down, file systems that are not local.

**Library side** (`OVAL/oval_probe.c`, `oval_probe_ext.c`, `oval_agent.c`,
variables): a table from object type to descriptor, a characteristic per object
with a flag, a flag per variable. `oval_probe_query_object`,
`oval_probe_query_variable`, `oval_probe_query_criteria`, the commands
`obj_eval` and `ste_fetch`. The calls nest: while the library waits for an
object, the probe makes it query more objects. *Hard:* a probe that dies under
such a stack. *Correct means:* an answer belongs to its question, a flag once
known is final and is what the probe has cached, every query returns.

**OVAL session** (`oval_agent.c`, `OVAL/oval_component.c`): external variables, bound
again before each check of a policy; objects, tests and definitions that keep their
results for the whole session; local variables computed by functions of components.
*Hard:* results that rest on values that have changed since. *Correct means:* a
verdict belongs to the values it was asked for with, and what it rests on stays
in the report.

**OVAL results** (`OVAL/results`): six-valued operators, `check_existence`,
`check`, states, criteria, the guard against recursive definitions. **XCCDF**
(`XCCDF/resolve.c`, `common/tsort.c`, `result_scoring.c`, `XCCDF_POLICY`):
inheritance in topological order, selection with requires, conflicts and clusters,
values and refinements, applicability by platform (`CPE`), the choice of a check,
complex checks, multi-checks, callbacks that stop an evaluation, scores. Mostly
sequential, but over state that outlives an evaluation. *Correct means:* each rule
gets the results the document says, in order, and an evaluation ends.
Documents are read, changed by inheritance, tailoring and results, and written again
(`XCCDF/item.c` and its siblings). *Correct means:* what was written is read as what it was.

**Everything else**: the other document models, their XML input and output, data streams,
CVE, CCE, CVSS, the script engine, the system probes and `oscap` itself: data and
I/O. `PROJECT.json` lists every part with its files and its status, and the
hazards at the line where they bite, each with the properties that watch it or
the reason why none does.

## 2. Modules, and how they correspond to the code

| module | models | uses |
|---|---|---|
| `ItemCollection` | what the item cache promises, without queue and locks | |
| `ICache` | `icache.c`, its callers in `worker.c`, cancellation | refines `ItemCollection` |
| `ICacheProofs` | theorems about `ICache` | `ICache` |
| `ProbeService` | what a probe process promises about its requests | |
| `Probe` | a probe process from start to exit: `main.c`, `input_handler.c`, `signal_handler.c`, `worker.c`, commands of `seap-command.c` | refines `ProbeService` |
| `ProbeProofs` | theorems about `Probe` | `Probe` |
| `ProbeComm` | library and probe processes, `oval_probe*.c` against `input_handler.c`, `worker.c`, `rcache.c` | |
| `ProbeCommProofs` | theorems about `ProbeComm` | `ProbeComm` |
| `SetAlgebra` | sets of objects as the OVAL language defines them | |
| `SetEval` | `probe_set_combine`, `probe_set_apply_filters`, collection flags | refines `SetAlgebra` |
| `SetEvalProofs` | theorems about `SetEval` | `SetEval` |
| `ListSort` | `SEXP_list_sort` and `oscap_bfind_i`, as functions | |
| `SexpList` | lists in memory: shared blocks, counts, copies before a change | |
| `SexpText` | S-expressions, their text and the parser that is fed piece by piece | |
| `SeapPacket` | messages, commands and errors as S-expressions and back | `SexpText` |
| `PacketChannel` | what the users of SEAP are promised about packets | |
| `SeapStream` | one direction of a connection, writers, octets, reader | `SeapPacket`, refines `PacketChannel` |
| `OvalLogic` | counting results, checks, operators, existence, states, tests, criteria | |
| `OvalCharts` | the evaluation charts of the OVAL language, row by row | `OvalLogic` |
| `OvalLogicProofs` | theorems: the code follows the charts for all counts | `OvalCharts` |
| `OvalAgent` | the OVAL session under a policy: bindings, hints, instances, memory | `OvalLogic`, `XccdfLogic` |
| `OvalAgentProofs` | the session stays in order: lemmas about each operation and step of `OvalAgent` | `OvalAgent` |
| `OvalFreshProofs` | what is answered goes with the values bound: lemmas about the same steps | `OvalAgentProofs` |
| `XccdfLogic` | check results, complex checks, scores | |
| `Resolve` | `XCCDF/resolve.c`, `common/tsort.c` | |
| `PolicyDocument` | what a document says, read without resolving it | |
| `PolicyRun` | what an evaluation promises its user, given the document | |
| `XccdfPolicy` | `xccdf_policy.c` over an OVAL session | `OvalAgent`, `Resolve`, refines `PolicyRun` |
| `XccdfProofs` | theorems about policies, their evaluation and the OVAL session under it | `XccdfPolicy`, `OvalFreshProofs` |
| `Remediation` | fixes: choice, text, execution, check, scripts | |
| `XccdfSession` | `xccdf_session.c`, `oscap xccdf`: who owns what, in any order of calls | |
| `XccdfDom` | `XCCDF/item.c`, `rule.c`, `value.c`, `profile.c`, `benchmark.c`, `result.c`, `tailoring.c`: what a document keeps | |
| `VarRefs` | `probe/worker.c:149-300`, `oval_sexp.c`: the choices of values an object is evaluated for | |
| `EntityCompare` | comparing a state's value with an item's, in probe and library | |
| `VariableFunctions` | `oval_component.c`, the functions of local variables | |
| `FileTree` | `oval_fts.c`, what an object of files stands for | |
| `RedBlackTree` | `rbt_common.c`, `rbt_i32.c`, on pointers | |
| `Descriptors` | `seap-descriptor.c` over `bitmap.c` | |
| `Platforms` | CPE names, dictionaries and expressions, applicability | |
| `MCICache`, `MCProbe`, `MCProbeComm`, `MCSetEval`, `MCSeapStream`, `MCXccdf` | small instances for TLC | the above |
| `MCPolicyParts` | pure algorithms of XCCDF against their definitions, as `ASSUME` clauses TLC evaluates | extended by `MCXccdf`, see 3 |

### ICache

The variables carry the names of the code. `pc[t]` is the place of thread `t`
among the statements that others can tell apart: `lock`, `put` (inside the
critical section of `probe_icache_add_nolock`), `end` (counted, `queue_end` not
advanced), `unlock`, `signal` (between the unlock and the signal), `full` (waits
for room), `sync` (waits for its NOP) and so on; `icw` likewise for the icache
worker. `dead` is a cancelled thread, and the mutex stays as it left it: no
cleanup handler unlocks it.

* `CollectItem`, `MemoryLow`, `MainReturns` are what `probe_main` does next.
  Whether memory is low is a choice; the check is made from `MemThreshold` items
  on, the code's 32768.
* `Cancel` has two disjuncts: anywhere in the region `worker.c:944-949` declares
  asynchronous, and in `pthread_cond_wait`, which takes the mutex again first.
* `Cached` looks into a bucket of the tree and compares contents; `SEXP_ID_v` is a
  constant that need not be injective.
* The debug build's `assume_d` is an action: `WorkerWake` goes to `failed`, where
  everything stops. All properties of progress are stated up to that.

A spurious wake-up of `pthread_cond_wait` is not modelled: on the platforms the
code is built for it does not come without a signal, and the wait for a NOP,
which has no predicate, would be wrong at once. Threads that run one after the
other (`probe_varref` combinations) are one thread for the cache. `PutEnd` stores the
advanced `queue_end` and wraps it in one step (`icache.c:327` and 329-330): both are done under
`queue_mutex`, and nobody looks at `queue_end` without it.

### ProbeComm

The library is a stack of calls (`stack`, with the return value of the call just
left in `ret`), because serving a command while it waits makes the library query
again. `proc[n]` is the process behind descriptor `n`: whether the descriptor is
open, the process lives or has been reaped, the two pipes, the worker threads and
the result cache. `crashes` lets a process end, or fail to start, anywhere.
`Connect` takes the lowest free descriptor number, as the bitmap does; a query
keeps the number while it waits, so the number can come to stand for another
process. Everything of `oval_probe_comm` that can fail is there with what it
leaves behind: a failing send closes and returns, an end of file closes, a reaped
process makes the close itself fail. `OVAL_PROBE_MAXRETRY` is 0, so there is no
retry. The two loops over states have a step for each: `FetchState` converts one state
of a command in the library (`states` of a call is what is left), `LookUpFilter` looks
one filter up in the cache of the probe and remembers those it has to ask for
(`missing`, the code's `filters_req`), which `FetchFilters` asks for.

The document is a constant: who is a member of what, which filters and variables
an object has, with a rank that makes references acyclic. Only variables that
take their values from one object component matter; others need nothing.

### SetEval, ListSort

An item is its address: `SEXP_refcmp` compares addresses, and the item cache
gives equal items one address. `cobjs` are the collected objects whose set
operation is still to come; evaluated depth first, the last two are the operands.
`ready` says whether an object went through the sort of `probe_worker_runfn`.
`merge` is the state of the loops of `probe_set_combine`, one action per turn.
`extent`, a history variable, is what an unlimited collection would have found:
the meaning of a flag. An item of status *does not exist* is dropped by the
filters and left out of the lists; *not collected* makes `FilterFails` possible.
*Not applicable* comes from probes that find their subsystem missing (for instance
`selinuxboolean.c:65`); no probe sets *not collected* itself, it is enumerated
because the table of `probe_cobj_combine_flags` has rows for it.

`ListSort` is `SEXP_list_sort` turned into functions, with the binary search as
written, its missing answer included. TLC computes with it wherever `SetEval`
sorts.

### Probe

One process, one thread of the library at the other end. `pc[r]` is the place of
the worker of request `r`, `input` and `handler` those of the input thread and of
the signal handler, `msg` the request the one has in hand, `walk` and `coll` the part
of the tree the other has still to see and the workers it has collected. `calls` are
the senders of the library's open calls, `serving` says that it executes a command
of the last one. `tree` is `probe->workers`, `waitq` the table of commands that wait
for a reply, each with a pointer into the stack of a worker. Freed memory stays in
the state: `rec[r]` is `none`, `live` or `freed`, and an action that touches what is
freed, or a thread id before `pthread_create` set it, puts a word for it into `bad`;
from then on the process may crash at any step. A cancelled thread goes on until
a cancellation point (anywhere in `probe_main`), takes the mutex of a condition
again, and unlocks nothing. `JoinTimesOut` and `InputTimesOut` are the time-outs of
60 and 3 seconds: they may come whenever what is waited for has not, but for one timing
assumption (`EndsInTime`): within 3 seconds an input thread that was cancelled and waits for a
message ends, and so does one that has only a command to take out of its table before it
waits again. The input thread hands over a reply in two steps, the signal to the helper
(`InputWake`, `seap-command.c:216-220`) and the removal of the command (`InputUnregister`, 301-303);
in between the woken worker may leave `SEAP_cmd_exec` and destroy its helper while the command
is still in the table. A spurious wake-up of the wait at `seap-command.c:424`, which has no
predicate, is not modelled, for the reason given for the item cache.

The library asks again only under the rules of its stack (`ProbeComm` has it in
full). A reset, an abort from another thread, the end of the library (which
the kernel turns into SIGTERM) and a failing `pthread_create` come at any time.

### SexpText, SeapPacket, SeapStream, Descriptors

A packet is a nested sequence; its text is the sequence of octets the printer
writes, lengths and numbers digit by digit, words as one octet each, since nothing
looks into a word. The parser is a function from its place, its stack and what it
has got to the same: `SEXP_parse` is called with each read. `SeapStream` adds the
descriptor's write lock, the pipe and the queue of parsed packets; a write takes
what the pipe has room for. The reader has what the code has: a parser that waits, a
time limit, a look for the child before each read. `Descriptors` is the table of
connections with its bitmap; `ProbeComm` uses descriptors by their lowest number,
which it is for those a session opens.

### OvalLogic, OvalAgent

`OvalLogic` holds the tables as the code writes them, from counters of results
up to the criteria of a definition. `OvalAgent` is the session:
`oval_agent_resolve_variables` is what happens before each check, `HintDefinitions` and `HintObjects`
what is told to definitions and objects when a value changed, and the recursion of
`oval_probe_query_criteria` is a list of nodes still to visit (`call.todo`). What an object, a test or a definition remembers carries in `saw` the
pairs of variable and values it rests on, as the code's `tested_variable` does, and a
test names the instance of the object it looked at. `exposed`, a history variable,
holds the definitions a change has reached on a way the hints do not go. Collections may fail, at most
`MaxFailures` times, in two ways (`CollectFails`). An error (-1) ends the query and nothing is
evaluated (`Abandon`). When the probe has closed the connection, `oval_probe_comm` starts the probes afresh and
gives -2 (`oval_probe_ext.c:595-600`); `oval_probe_query_criteria` stops for -1 only (`oval_probe.c:374-376`), so
the definition is evaluated from an object whose flag is *unknown*, the test is an *error*
(`evaluate_items`, `oval_resultTest.c:836-838`), and a later query collects the object into the
very instance that result points to (`oval_probe.c:258-264`).

### Resolve, XccdfPolicy, XccdfLogic, PolicyDocument, PolicyRun, Platforms

A benchmark is a function from ids to records; `xccdf_benchmark_resolve` applies
the resolution of each item in the order of `tsort`, which is the recursive
depth-first sort with its report of a loop. `XccdfPolicy` keeps both tables of
selects of each policy, walks the rules in document order, and steps through the
references of a check, the parts of a complex check and the definitions of
a multi-check one action at a time, each with the callback that may stop. Its
constants give which items' platforms apply; `MCXccdf` takes them from `Platforms`. The selects on top of
a profile are those a user adds; tailoring documents are left out. An abstract item that
resolution takes from the benchmark stays in the table of its cluster (`benchmark.c:736-744`), where a select of the cluster
would find it; the documents have none (`ClusterAssumption`).
`PolicyRun` knows none of this: it has the rules of the document in order, the
selects and the values of `PolicyDocument`, and demands of each report that it is
the next one the document allows.

### Algorithms

`EntityCompare`, `VariableFunctions`, `VarRefs`, `FileTree`, `RedBlackTree`, `SexpList`,
`Descriptors`, `Platforms`, `Remediation`, `XccdfSession` and `XccdfDom` have no variables: what they model takes its inputs and returns, under a lock or in one thread.
Strings are sequences of characters where the code looks at characters, and values of
a small set elsewhere. `RedBlackTree` keeps the memory of the tree as a function
from addresses, and its four-node history of the way down with rotations that
write to it; `SexpList` does the same with the
blocks and values of lists and their counts; `VarRefs` has the odometer that `worker.c` turns
and the object as the library sends it; `FileTree` reproduces the order of `fts` and the decisions
of `oval_fts_read`. `Remediation` changes a system that is whatever its scripts make of it, and asks
a session that remembers what it has seen. `XccdfSession` numbers the blocks of memory, keeps the set of those freed,
and takes with each call the failures that strike in it. `XccdfDom` has a pair of operators for each kind of
element, from memory to the document and from the document to memory, with the names of the code. Where the
reader of the library is left standing on an attribute decides what some elements without text become, so the
operators say where it stands.

## 3. Runs

| run | instance | states | shows |
|---|---|---|---|
| `icache_safety` | 2 threads, ring of 2, 2 items each, 2 contents with one hash, cancellation | 1,035,224 | the seven safety properties and `ImplementsItemCollection` |
| `icache_progress` | 3 threads, ring of 1, 1 item each, no cancellation | 93,651 | no lost wake-up, items arrive, calls return, the cache can be freed |
| `icache_stale_signal` | 1 thread, 2 items | - | violation, see 5 |
| `icache_cancel_hang` | 1 thread, 1 item, cancellation | - | violation, see 5 |
| `probe_comm_safety` | two sets, one a member of the other, 2 filters (shared, and named twice), 3 variables, 3 types, 2 tests, 2 crashes | 201,986 | answers belong to questions, flags are final, sets see members |
| `probe_comm_progress` | the same, variables from another probe, 1 crash | 38,757 | every test ends |
| `probe_comm_hang` | variables from the probe that waits for them, 1 crash | - | violation, see 5 |
| `set_eval` | 3 items, 2 waiting objects, all flags and operations | 214,082 | merging is set algebra, flags are true |
| `set_overlap` | 2 items, values of a variable may select the same | - | violation, see 5 |
| `probe_lifecycle` | 3 requests (a set, a member with a filter, the same again to be skipped), 1 reset, `pthread_create` may fail once | 132,916 | no use of freed memory while nobody stops the process, clean closing, `ImplementsService`, answers, shutdown |
| `seap_stream` | 2 threads with 3 packets, a pipe of 9 octets, reads of at most 6 | 50,661 | `ImplementsChannel`, the stream is refused in one case only, packets are taken |
| `xccdf_policy` | 3 documents, 2 evaluations, 1 select of the user, 1 cancellation, 1 failed collection | 200,280 | `ImplementsPolicyRun`, verdicts of current values, evidence stays, evaluations end |

**Bounds.** A ring of two slots with four items and two NOPs wraps around and
fills; with one slot and three threads every request must wait for room. Two
contents with one hash are the smallest bucket with a choice. Two crashes let a
process die twice, or die and fail to restart, under a nested query; two tests
let the second meet what the first left behind. Three items are the smallest
number for which the operands of a set can interleave in every way: before, between, after, equal. Two waiting objects
suffice because every list a nested set could deliver is also delivered by
`Collect`, `Store`. Items beyond that only lengthen the runs; the theorems
below hold for any number of them. `ASSUME` clauses in `MCSetEval` check the sort
on all orders of seven elements, which fill two blocks and begin a third.

The set and its member that is asked for meanwhile are the smallest nested
evaluation in `probe_lifecycle`, the skipped request the only one the input thread
answers itself; every step of the shutdown can meet every step of a worker. The
pipe of `seap_stream` is shorter than any of the packets, so that a write is never
whole, and a read may end after any octet of each. `xccdf_policy` has a plain
document with two profiles, one whose rules extend each other and one whose profiles do; two
evaluations are what a stale verdict needs, and its rules bind two values of one variable.

**Assumptions TLC evaluates.** Each run also evaluates the `ASSUME` clauses of the
modules its instance extends. They compare pure algorithms with what they should
compute, for all small inputs:

* `probe_lifecycle` (`MCProbe`): files (`DownFindsWhatIsBelow`, `OthersDoNotRecurse`,
  `UpFindsWhatIsAbove`, `PartialMatchesSuffice`, `FoundOnce`) and trees
  (`TreesStayBalanced`, `TreesAreMaps`, `WalksSeeAllOnce`, on all 573 trees that insertions and
  removals of seven keys can make);
* `probe_comm_*` (`MCProbeComm`): functions of variables (`SureOfItsValues`, `ConcatCombines`,
  `PiecesMakeTheText`, `AffixesOnce`, `LaterFirst`, `AllSums`, `NoNumberUnseen`,
  `CountsDifferent`), descriptors (`AFewAreAlwaysThere`, `OneMoreComesTwice`, `LastIsBeyond`), and the flags
  of sets against the three charts of the schema, with the pairs of operands for which the code
  differs (`FlagsLeaveChart`);
* `set_*` (`MCSetEval`): the sort of lists, comparisons (`VersionsAreOrdered`,
  `MissingEpochIsOlder`, `FieldsDecide`, `SubsetsAreSubsets`, `NearIsNotTransitive`,
  `ChecksAgree`, `FilterIsTest`, `RecordsNeedEveryField`), lists in memory (`ListsAreValues`, on all
  programs of four steps that change no list while a rest of it is held, `AddRepeatsTheFront`,
  `ReplacesInBoth`, `RestOfNothing`, `TakenTooSoon`) and variables (`EveryChoiceOnce`,
  `StopsAtFailure`, `TroubleDoesNotExist`);
* `seap_stream`: `PacketsComeBack`, `NamesAreLost` (attributes with a value lose their names);
* `xccdf_policy`: `ChecksFollowCharts`, `OperatorsFollowCharts`,
  `ExistenceFollowsCharts`, `StatesAreConjunctions`, `TablesFollowComment`, `TsortSorts`,
  `TsortFindsMore`, `ScoresAreBounded`, and of `MCPolicyParts` platforms (`NamesCoverNames`, `BothWays`,
  `ExpressionsAreBoolean`, `MoreIsMore`, `FoundFromOneDirectory`), fixes (`NoNeedlessReboot`,
  `NotTheLeast`, `KnownBeforeUnknown`, `ScriptsAreTexts`, `GapsInScripts`, `FixedWasSeenToHold`,
  `VerdictBeforeTheFix`, `StopsOneRuleOnly`, `ScriptEndsAtElement`) and sessions
  (`CommandFreesOnce`, all options and one failure anywhere, `OvalFromBefore`, `RemediationReportsItself`,
  `OrderedCallsAreSafe`, `CallsOutOfOrder`, all programs of five calls), and what is
  written and read again (`RulesAreKept`, `LostAtOnce`, `RequiresMore`, `ValuesAreKept`, `InstancesAreFound`,
  `AnotherStandsForNone`, `SelectsAreKept` and `SetValuesAreKept` on all lists of three, `ProfilesAreKept`,
  `AbstractTwice`, `ResultsAreKept`, `VerdictsAreKept`, `AgainAndAgain`, `EndsSomeTime`, `BenchmarksAreKept`) and
  tailoring (`TailoringIsKept`, `NobodyIsDisinherited`).

`CHECK_DEADLOCK FALSE` everywhere: a probe that has answered everything, or was
freed, or has failed its assumption, stops; so do the bounded document and list,
a stream that has failed, a user who wants no more evaluations.

**Fairness.** `ICache!FairSpec`: weak fairness of each thread's steps that it does
not choose (not: to collect an item, to find memory low) and of the icache worker's steps; the
scheduler runs every thread that can run, and the mutex is not contended for
ever in these finite runs. Nobody needs to be cancelled. `ProbeComm!FairSpec`:
weak fairness of the library's steps, of the input thread and of the workers of
each process; nobody needs to start a test, to crash or to fail to start.
`Probe!FairSpec`: weak fairness of the library's reading and replying, of the input
thread, of each worker and of the shutdown; nobody has to ask, reset, signal, die
or fail, and nothing is promised after undefined behaviour. `SeapStream!Spec`: weak
fairness of the writers, and of the receiver, which asks again until it has an
answer; the probe need not exit, and no time limit need strike.
`XccdfPolicy!FairSpec`: weak fairness of the evaluation's steps, as it is one call in
one thread; nobody has to ask for it, and no callback has to stop it.

**Properties worth reading.** `SyncOwnsObject` (a returned NOP means that nobody
else touches the object and that it is complete), `EachItemOnce` (what is in the
object and what is on the way are exactly the items sent), `NopNotForgotten` (the
wait without predicate cannot miss its signal), `RingConsistent` (also after
cancellations), `NoLostWakeup`; `ReplyMatches` (though no reply id is compared),
`QuietWhenIdle` (a failed test leaves no message behind for the next),
`NoDoubleEvaluation` (what the `abort()` calls of `worker.c` assume),
`SetsSeeMembers`, `FlagsAreFinal`; `ReadyToMerge` and `FlagsKeepPromise`;
`SafeInService` and `CleanClose` (who may free what; `CleanClose` only for closes with no
open call), `RegisteredHelperLives` (a pointer into the stack of another thread),
`TreeHoldsRunningWorkers` (every thread that evaluates is in the tree, and beside them only cancelled
ones), `ImplementsService` (a cancelled worker does not
answer); `OnlyKnownFailures` (a valid stream is refused only where an empty string
meets the end of a read), `ImplementsChannel`; `FreshVerdicts` (a verdict rests on the
values bound now, unless a change came on one of the listed ways past the hints),
`EvidenceStays` (a result and what it was evaluated from are never changed; what could not be
collected may be collected later, but then the result is an error), `ImplementsPolicyRun` (what a policy reports is what can be read off the
document). Each is stated in a comment above its definition, and for each a
variant of the code (`X_Something` next to `X`) is known that violates it.

## 4. Proofs

TLAPS proves the following for every value of the constants.

`ICacheProofs`, from `ICacheAssumption` of `ICache` alone:

* `TypeCorrect`, `MutualExclusion`, `RingIsConsistent`, `ItemsAreConserved`,
  `NopsAreKept`, `SyncGivesObject`, `IdsAreUnique`: the invariants of
  `icache_safety`, for any number of threads, items, hashes and any ring;
* `WakeupsAreKept` (`NoLostWakeup`): whether the signal comes before or after the
  unlock, the worker does not sleep on a request unless its sender was cancelled;
* `Refinement`: `ICache` implements `ItemCollection`.

The invariants are not inductive. `IInv` adds: the ring holds requests, not empty
slots, from `queue_beg` on, and `queue_end` is where they end *except* for the
one thread that has counted its request and not advanced `queue_end`, which then
holds the mutex (`RingInv`); items of one object wait in the order they were
sent (`OrderInv`, `InOrder`), without which the first pending item need not be
the next one of its object; a NOP is the last request of its thread (`NopLast`)
and its thread waits for it or is still in the critical section (`NopWaits`,
`NopPending`), so that a signalled NOP finds the object complete
(`SyncedFull`); and the tree is a function from contents to ids (`IdInv`).
The proof that a step keeps it has one part per action and conjunct.

`SetEvalProofs`, from `ItemsAssumption`, `BoundAssumption` and
`SortAssumption` (the sort puts lists without a repeated item in order; checked by
the `ASSUME` clauses of `MCSetEval` for its instances) and from `~Overlap`:

* `TypeCorrect`, `OperandsAscend` (`ReadyToMerge`), `FlagsAreTrue`
  (`FlagsKeepPromise`);
* `SetAlgebraImplemented`: the objects behave as sets under filter, union,
  intersection and complement.

The heart is `Progress`, the loop invariant of `probe_set_combine`: what each
iterator has left behind comes before what the other has still to see, the
partial result is the operation of the two parts taken, and it is in order. The
lemmas `FirstTaken`, `SecondTaken` and `BothTaken` keep it, `AllTaken` ends it.
"Before" means *smaller* for lists that were sorted and *different* for the
unsorted lists of two values of a variable, which is why one invariant covers
both uses of the function. `CombinedPromise` is the soundness of the flag table:
for each operation and any two flags, the resulting flag is true of the resulting
items. `~Overlap` is needed: see `set_overlap`.

`ProbeProofs`, from `ProbeAssumption` of `Probe` alone (any requests and objects, any
choice of sets, filters and skipped requests, with or without failing threads):

* `TypeCorrect`, `ServiceIsSafe` (`SafeInService`), `CloseIsClean` (`CleanClose`),
  `HelpersLive` (`RegisteredHelperLives`), `TreeIsRight` (`TreeHoldsRunningWorkers`);
* `OneAtATime`: `OneTurn`, on which the others rest;
* `Implementation`: `Probe` implements `ProbeService`.

Nothing in a probe forbids two workers to run at once; it is the library that never
asks for more than it can serve. `IInv` says so: one of the library, the two directions of
the pipe, the input thread and the workers has the turn, the pipe holds at most
one message (`OneTurn`), and who has the turn has it for the last open call (`TurnOfTop`).
The input thread that only has a command to take out of the table counts as
done: the worker it has woken may go on beside it.
The other open calls are about other objects, each with a worker that waits or was
cancelled (`CallsInv`, `DownInv`, `UpInv`, `InputInv`), so a worker that runs finds
its object not cached (`WorkerInv`), and a worker in the tree has not come to the
place where it frees its record (`TreeInv`). Until a signal arrives the handler has seen
nobody (`SignalInv`); a close comes when no call is open, hence no worker is left to be
cancelled (`CloseInv`), which is what makes the unlocked accesses of the shutdown
harmless in that case and in no other. TLC found no state of `probe_lifecycle` outside `IInv`.
There is a lemma for each action, and for the refinement one for each group of actions.

`ProbeCommProofs`, from `DocumentAssumption` of `ProbeComm` alone (any document whose
references are acyclic and whose sets have members of their own type, any number of
probes, tests and crashes):

* `TypeCorrect`, `RepliesMatch` (`ReplyMatches`), `IdleIsQuiet` (`QuietWhenIdle`),
  `EvaluatedOnce` (`NoDoubleEvaluation`), `ReportsAgree` (`ReportsCachedResult`),
  `SetsSee` (`SetsSeeMembers`): the invariants of `probe_comm_safety`;
* `FlagsStay` (`FlagsAreFinal`): its action property.

None of them is inductive, and each needs the others: that no second result overwrites a flag rests on
the answer being the one to the question, that on nothing being left on the way
from an earlier test, and that on nobody being evaluated twice. `IInv` has six
parts. `StackInv`: each call was made by the one below it (`Makes`), queries are
about objects of lower and lower rank, so none is asked for while it is being asked
for (`RankInv`); a query that was not skipped is about an object whose flag is
*unknown* and has read the variables it no longer lists (`QueryOK`). `DescInv`: a descriptor
belongs to one probe, and a process that has ended has nothing but what it sent.
`LinkInv`: of all messages and workers that can go on there is one per process, and it belongs
to the innermost call (`ToOK`, `FromOK`); every worker works for one query that waits, and
the queries above that one which wait on the same descriptor have workers of their own
(`WorkersOK`, `ServedAbove`). That clause keeps a reply from reaching a worker it is
not for when a call waits on a number that now stands for another process.
`TodoInv`: the members a worker no longer lists are in the cache. `CacheInv`: the
objects of workers are not in the cache, and what is in it as anything but
*does not exist* had all its variables. TLC found no state of the document of
`probe_comm_safety` outside `IInv`, whichever of the three assignments of objects to
probes in `MCProbeComm` is taken. There is a lemma for each action; the steps of the library
are proved for stack, links and caches apart (`LibraryCore`, `LibrarySteady`,
`FlagEffect`), those of a probe for the one process they change (`ProcessKeeps`).

`OvalLogicProofs`, without assumptions, for any counts of results or items:

* `CheckFollowsChart`, `OperatorFollowsChart`: `ores_get_result_bychk` and
  `ores_get_result_byopr` give what the charts of the schema give for any numbers of
  true, false, error, unknown, not evaluated and not applicable;
* `ExistenceFollowsChart`: `eval_check_existence` has a result exactly if `ChartOfExistence` says so: the chart, on
  the items the code counts (`Counted`), and two named exceptions. For any counts the code leaves the chart of the
  schema in four ways: items that were not collected are never counted; items that do not exist are not
  counted for *all exist*; *none exist* with an existing and a failed item is an error, where the chart says false;
  *at least one exists* of no items at all is false, where the chart says nothing.

`XccdfProofs`, from `ContentAssumption` of `OvalAgent` (any definitions, tests, objects,
sets, external and local variables within it, any values, any number of failures, any
document, callbacks and number of evaluations):

* `SessionInOrder`: `AgentOK` holds in every state; `SessionEvidenceStays` (`EvidenceStays`). An
  evaluation looks only at objects that have been asked for since the last hint (`Ready`), collected or
  not, and a test of one that was not is an error (`Evidence`, `UncollectedIsError`);
* `SessionFresh`: so does `Fresh`; `SessionFreshVerdicts` (`FreshVerdicts`);

and, with `PolicyAssumption` and `ResolutionAssumption` of `XccdfPolicy` too (a value has an
instance; the resolution of a benchmark gives a finite benchmark of the same items, with
lists for lists and a sequence of its items as the order of the rules), for any profiles and selects:

* `EvaluationInOrder`: `PolicyOK` holds in every state; `TypeCorrect` (`TypeOK`);
* `RulesReportedInOrder`: the results follow the document order and pass no rule by, also when
  the user stops; a complete evaluation has a result for every rule;
* `SelectionReported`: a rule is reported `notselected` exactly when the policy leaves it out, and
  `notapplicable` when it is selected and its platforms do not apply.

The lemmas stand in two modules without a specification of their own, since a session is
only a part: `OvalAgentProofs` has one for each step that `AgentOK` is kept and nothing
evaluated is touched, `OvalFreshProofs` one for `Fresh`; `SessionSteps` says that whatever
`XccdfPolicy` does is for the session a step of its own, a question, the taking of an answer, or nothing.

`AgentOK` is about references. An instance of a definition refers to results that exist
(`References_`); a test is never ahead of all the definitions made of it (`Numbers`); what has been
evaluated points to an object that was collected (`Evidence`), and nobody writes to such an
instance because a query writes only to instances that wait for it (`Awaits`). Why they wait is a
matter of order: the recursion of `oval_probe_query_criteria` is a list of nodes, and
`QueryOK` says which may come before which (`MayPrecede`), that every variable a node needs is
known or will be asked for before (`WritesOK`, `ComputesOK`), and that what is known and what is still to do
are together all of the definition (`Covered`), so that at the end all of its objects are `Ready`. The
definitions of a file are walked by folds; what they keep is stated for each prefix of the
fold (`Making`, `Instanced`, `Evaluation`).

`Fresh` says of a definition that is not `exposed`: its local variables, its objects, the members of its sets and what the
probe has cached of them saw only values bound now, and so did its tests, or else the
object is hinted and will be collected again (`ObjectDue`), the test is behind its definition and will get
another result (`TestDue`). The two alternatives rest on numbers: a hint gives an object the number
of the definition it is hinted for plus one, and the object is collected again if that is not the number it has.

`PolicyOK` puts `AgentOK` together with what the session answers (`Answers`: outcomes of
definitions, or a failure), the policies and the evaluation. `TablesOK` says that each policy made is of a profile
of the resolved benchmark and that its tables are about the items attached to it. The recursive
functions that add a list of selects or resolve a list of items need two lemmas, that such a function exists
(`RecursionExists`) and that what each step keeps the last one has (`RecursionKeeps`).
`OrderOK` has the rules still to do as the rest of the order (`RestFrom`) and a place in the order for each report:
the first is 1, each further one that of the report before it or the next (`Places`), since a
multi-check reports a rule several times. The report at hand is about the rule after the last one done
(`Walking`), so that no result of the session, however often it is asked, can be reported for another
rule. `RunOK` says what the rule at hand deserves at each point of its evaluation: a rule whose check is under way is
selected and applies, also between the reports of a multi-check. `TogetherOK` keeps the session busy exactly
while a reference is tried; without it the answer to one question could be taken for another.

`FreshVerdicts` was first stated without the clause `Ahead` of `Carried`. TLC had found no violation in the documents of
`MCXccdf`, but the proof did not go through, because it is false: an object may already have the
number the next hint gives it. That takes either a definition that recollects a hinted object for
one of its local variables, while another one made of the object was hinted and not evaluated, or
a query that fails after the object was collected and so leaves its definition with the old number. The next change of the value then hints the object
to where it is, `oval_agent` takes what was collected before the change, and the verdict rests on
a value that is not bound any more. `exposed` holds such definitions now.

## 5. Disagreements found

* `icache_stale_signal`: `probe_icache_worker` assumes after its wait that the
  queue is not empty (`icache.c:117`); the signal of `probe_icache_add` comes
  after the unlock and can be late.
* `icache_cancel_hang`: a thread cancelled while it holds `queue_mutex` blocks the
  icache worker and thereby the shutdown of the probe.
* `probe_comm_hang`: a probe that dies while it is asked, under a waiting query,
  for the object of a variable, and is restarted on the same descriptor number,
  leaves the outer query waiting for good.
* `set_overlap`: the union over variable values merges unsorted lists and can keep
  an item twice, which then survives a complement.

The details, with the lines quoted, are in `PROJECT.json`. What follows was seen while
modelling, is in the models as the code has it, and has no run of its own.

*Sets and lists.* The schema's tables of set flags differ from
`probe_cobj_combine_flags` (intersection of *error* and *does not exist*:
documented *does not exist*, computed *error*; of *incomplete* and *not
collected*: documented *not collected*, computed *incomplete*; of *incomplete*
and *not applicable*: documented *incomplete*, computed *not applicable*;
complement of a collected object and one that was not: documented *not
collected*, computed *error*; `FlagsLeaveChart` of `MCProbeComm` shows that this is all). `SEXP_list_sort` may misplace an element of a list of
five or more that repeats a value, because `oscap_bfind_i` leaves its answer unset
when it meets an equal element (`<<5, 6, 1, 2, 5>>` becomes `<<1, 5, 2, 5, 6>>`, an
`ASSUME` of `MCSetEval`); the tests sort lists of distinct elements only.

*S-expressions.* `SEXP_list_add` to a list that is the rest of another, or has one, copies
all of the shared list where its comment says "the rest" (`sexp-value.c:212-216`, `AddRepeatsTheFront`);
`SEXP_list_replace` writes into a shared block (`ReplacesInBoth`); the rest of the empty list has
length -1. The code of the probes changes no list while it holds a rest of it.

*Process.* The comment `worker.c:57-62` expects the signal handler to remove threads
from a tree that it only walks, and walks without the tree's lock. A signal in the middle of a query can
meet a worker whose thread id is not set yet (`input_handler.c:178`), records that a finishing worker frees
(`signal_handler.c:128`), a worker added after the walk (121) and one that is not joined in 60 seconds
(139); `Probe` takes these steps and notes in `bad` what is then used wrongly, and no property excludes them. After
`probe_reset` the global name cache pointer dangles (`main.c:76`). A failed
`pthread_create` replies with a message it has freed (`input_handler.c:178`). Error
returns leave `r_lock` and `queue_mutex` locked.

*SEAP.* `SEXP_list_pop` (`sexp-manip.c:1301`) gives up the first block of a list with its
first element, so that of packets that came in the same reads only the first is
safe. The prefix of an empty string at the end of a read is refused (`spb.c:76`). A complete
packet waits in the parser for a partial one behind it, and is lost with it. A
child's death is noticed before what it has written is read. A received attribute that has a value
loses its name: `SEXP_string_subcstr` with length 0 returns NULL (`seap-packet.c:174`, `sexp-manip.c:816`,
`NamesAreLost`); nobody reads the one such attribute that is sent, `reply-id`. The first bit of a new cell
of `bitmap.c` gets the number of the next cell (`bitmap_setfree` counts the cells after
it has grown): the first descriptor is 32, with 33 open a number comes twice and
`SEAP_desc_add` fails, and the last number that is given out is beyond an assertion.

*OVAL.* An object whose variable is in error, cannot be queried or cannot be converted is
reported as not existing (`oval_sexp.c:498`, `TroubleDoesNotExist`). Objects whose collection was incomplete can make a verdict *false*
(`oval_resultTest.c:831`). A definition is evaluated although the connection to its probe was closed, and its
result then points to an object that may be collected later (`oval_probe.c:258-264`, 374). The charts of checks and the code part where a check of *at least
one* meets only undecided results, and where an existence check would have to count items
that do not exist. Probe and library compare values alike but combine them differently
for *at least one*, and the library does not look at the status of an item's entity. A
missing epoch is older than any, though the comment in `oval_cmp_evr_string.c`
says that then epochs are not compared; a prefix of length 0 shifts by 32 and netmasks
with holes are not refused. `regex_capture` calls complete what was not,
`arithmetic` forgets flags of its operands, `concat` takes a component without values for an empty string
and `count` of nothing is 0.

*Verdicts under other values* (what `FreshVerdicts` excepts). Only the first variable in
conflict is hinted; a value unbound by a reset or bound for the first time is not
hinted at all; a local variable keeps its values for the whole session; objects behind set
members and definitions without a result are not reached by hints; instance numbers
of definitions that share an object can be out of step; an object can be ahead of its definition, collected again for a
query that failed or for a local variable, and then has the number of the next hint already, which is lost.

*XCCDF.* The comment with the tables of complex checks has the rows *error* and *unknown*
exchanged (`xccdf_policy.c:272-343`, `TablesFollowComment`). `tsort` may report more than the loop that
`tsort.h:51-52` promises (`TsortFindsMore`). Profiles that extend each other recurse
without end (`xccdf_policy_model_get_policy_by_id`; the model's
`get_policy_overflows`). `extends` naming an id that is missing adds a null node
(`resolve.c:45`). Of several refinements of a value the last is bound and the first
reported. Scores look at the first result of a rule with several.

*Platforms.* A name and a dictionary are matched in opposite directions in two
functions of `cpedict.c` (`BothWays`). The files of a dictionary are looked for in the directory
of the language model that asked (`xccdf_policy.c:813`,
`FoundFromOneDirectory`). Names in the `wfn:` format are not taken apart and so match everything.

*Remediation.* The comment asks for the fix of the least disruption; the code takes the last that is low or medium
(`xccdf_policy_remediate.c:208`, `NotTheLeast`). A rule is checked again in the session that remembers what
its definitions were, so that of two rules that share one the second is answered with the value from before its fix
(`VerdictBeforeTheFix`). A callback that stops leaves the rule *fail* though its fix ran, and the next rules are
fixed all the same. In a script an `object` that refers to nothing becomes an empty text, a `sub` aborts.

*Session.* Some failures free a block twice: a CPE dictionary of no known kind
(`xccdf_session.c:499`), a tailoring that is not valid (867), OVAL results that cannot be made
(1163). A collection of reports without OVAL content walks a table that is not there (1290). With
`--remediate` the OVAL results and the collection show the system before, the XCCDF results after it
(`oscap-xccdf.c:500`, `OvalFromBefore`). Loading OVAL again leaves freed agents registered as engines, loading XCCDF
again leaves a result that was freed; the command does neither. A second evaluation is never exported (964).
`rds.c:603-607` uses an id after it was freed (not modelled).

*Documents* that are written and read again (`MCPolicyParts`). Of several alternatives that are required all
are required afterwards (`rule.c:977`, `RequiresMore`). An abstract profile has its attribute twice and is no XML
(`item.c:387`, `profile.c:307`). The strategy of a text about a fix is the next one in the list, and is empty for the
last (`item.c:568`). Facts that are numbers become truth values and the other way round (`result.c:876`, 570).
*privileged* is written and *priviledged* is read (`elements.c:326`); the time of an override is written under another
name than it is read; the tag of the notes of a profile and its platforms are written where nobody looks for them
(`profile.c:313`, 321), as is the benchmark of a tailoring in 1.1 (`tailoring.c:301`). The parent's context
of an instance is written as the instance's (`result.c:1134`).

*Files.* Links that are followed are reported twice; *files and directories* do not include links to
follow, *symlinks* alone never descends; upwards directories are reported as files.

## 6. Limits

*Only model-checked:* all of liveness (`ItemsArrive`, `CallsReturn`, `FreeReturns`,
`QueriesReturn`, `RequestsAnswered`, `ShutdownEnds`, `PacketsAreTaken`,
`EvaluationEnds`); that the recursive
`SEXP_list_sort` satisfies `SortAssumption`; the algorithms compared by `ASSUME`
clauses; the disagreements of section 5. Of the safety properties:

* everything about `SeapStream` (`TypeOK`, `OnlyKnownFailures`, `ImplementsChannel`): that the parser, fed
  piece by piece, returns what was printed is an induction over nested lists and their texts,
  and `SexpText` follows the recursive parser with recursive operators, which the prover does not take;
* `ImplementsPolicyRun`: that
  the tables of selects select what `PolicyDocument` reads off the
  unresolved document is an induction over the lists of items and profiles, through the
  topological sort and the inheritance of `Resolve`; that the recursive function `oscap_tsort_visit` exists at
  all is one, through states of the sort that only earlier calls of it give. What the other theorems about
  policies need of the resolution is `ResolutionAssumption`, which TLC evaluates for the documents of `MCXccdf`.
  (Inductions by the smallest counterexample over a list are within reach: `OvalAgentProofs` has two,
  `XccdfProofs` those of `RecursionExists` and `RecursionKeeps`);
* what the session of `OvalAgent` does with extended definitions that extend others in turn and sets of sets:
  `ContentAssumption` excludes them, in the runs too.

*Left out of modelled parts:* failing `malloc` and pthread calls other than
`pthread_create`; the wrap of `next_ID` after 2^32 items; sets nested within one object in
`ProbeComm` (they are in `SetEval`) and their depth limit of 8 there; the rebuild of the probe table after
`ECONNABORTED`; in `SeapStream` the other direction of the pipe and more than one reader; in
`OvalAgent` several files and several kinds of objects; in `XccdfPolicy` roles, severities and tailoring files;
in `Remediation` and `XccdfSession` two calls at once, which the library does not allow; in `XccdfDom` languages,
references, markup, floating point beyond what is printed of it.

### Not modelled

*Document models* of OVAL, CPE, CVE, CCE, their lists, accessors and iterators, *XML input
and output* but for XCCDF, *data streams*, the *script engine*, most of the *command*: constructors, accessors and I/O
whose behaviour a file or a stylesheet decides; of about 138,000 lines they are the most, and no
property relates their state over time. *System probes*: each reads one kind of file or calls one
interface of the system; what they share (the item cache, the comparison of entities, the
traversal of files) is modelled. *CVSS* multiplies decimal fractions and rounds
to tenths in floating point, which TLC's integers do not reproduce. Reference counts
are below the level of the models; freed memory is in `Probe`, where threads share it.

## 7. Plan

Done: the item cache and its proofs; library and probe processes; sets and their proofs;
the process of a probe and its proofs; the proofs about library and probe processes; the transport of packets; OVAL results with their charts
and proofs; the session under a policy and its proofs; policies from resolution to report and
the proofs about their evaluation; the
algorithms below them.

Left, in this order:

1. Several threads of a probe that execute synchronous commands over `SeapStream` in both
   directions: that a reply reaches the thread that asked (`Probe` has the
   registration, `SeapStream` the octets).
2. Tailoring under an evaluation, the contents of data streams (`DS`), the documents of OVAL.
3. Theorems about `SeapStream` and about the refinement of `PolicyRun`: they need a channel and a selection that
   take what the parser and the inheritance compute as parameters, with assumptions TLC checks.
