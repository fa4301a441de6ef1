-------------------------- MODULE ModuleEvaluation --------------------------
(***************************************************************************)
(* Evaluation of a module graph (runtime_module.c): the depth-first walk   *)
(* of InnerModuleEvaluation on its explicit stacks, top-level await, the   *)
(* completion and failure of asynchronous modules, and import().           *)
(*                                                                         *)
(* A module's body is a compiled evaluator that returns or throws; the one *)
(* of a module with top-level await may also suspend and end later.        *)
(* Evaluation is not re-entered (module_evaluate refuses it), and a failed *)
(* allocation ends the program; neither is modelled.                       *)
(***************************************************************************)
EXTENDS Integers, Sequences, FiniteSets, SequencesExt

CONSTANTS Graphs,      \* the module graphs considered: each module's request list
          Entry,       \* the entry module
          MaxImports   \* import() calls made by user code

ASSUME ModuleAssumption ==
    /\ MaxImports \in Nat
    /\ \A g \in Graphs : /\ IsFiniteSet(DOMAIN g) /\ Entry \in DOMAIN g
                         /\ g \in [DOMAIN g -> Seq(DOMAIN g)]

VARIABLES
    requested,   \* the modules each module requests, in source order
    needs,       \* history: the modules each one reaches by its requests
    tla,         \* has_top_level_await
    record,      \* the OseoModuleRecord of each module
    table,       \* the walk in progress: stack, frames and counters
    avail,       \* sorted ancestors AsyncModuleExecutionFulfilled has to run
    jobs,        \* the reactions queued: ends of bodies and steps of import()
    imports,     \* the import() calls made
    body         \* history: what became of each module's body

vars == <<requested, needs, tla, record, table, avail, jobs, imports, body>>
graph == <<requested, needs, tla>>

\* The entries of the module table.
Modules == DOMAIN requested

Unset == 0    \* OSEO_MODULE_ASYNC_UNSET
Done  == -1   \* OSEO_MODULE_ASYNC_DONE
None  == 0    \* OSEO_MODULE_NONE

Linked == [status |-> "linked", errored |-> FALSE, dfs |-> None, ancestor |-> None,
           root |-> {}, pending |-> 0, order |-> Unset, parents |-> <<>>, cap |-> "none"]

NoWalk == [of |-> {}, stack |-> <<>>, frames |-> <<>>, dfs |-> 0, orders |-> 0]

\* The modules that m reaches by one request or more.
Reachable(m) ==
    LET further(set, i) == set \cup UNION {ToSet(requested[k]) : k \in set}
    IN  FoldLeft(further, ToSet(requested[m]), SetToSeq(Modules))

Init ==
    /\ requested \in Graphs /\ needs = [m \in Modules |-> Reachable(m)] /\ tla \in [Modules -> BOOLEAN]
    /\ record = [m \in Modules |-> Linked]
    /\ table = NoWalk
    /\ avail = <<>> /\ jobs = <<>> /\ imports = <<>>
    /\ body = [m \in Modules |-> "unstarted"]

Evaluating == table.of # {}
Idle == ~Evaluating /\ avail = <<>>

-----------------------------------------------------------------------------
(* Helpers.                                                                 *)

\* Mutant of module_cycle_root: a module stands for its whole cycle.
module_cycle_root_self(m) == m

\* root is {} for OSEO_MODULE_NONE and the set of the root otherwise.
module_cycle_root(m) == IF record[m].root = {} THEN m ELSE CHOOSE r \in record[m].root : TRUE

module_async_pending(m) == record[m].order > 0

\* The jobs that settling the capabilities of a sequence of modules queues.
Reactions(settled) ==
    FlattenSeq([i \in DOMAIN settled |->
        LET waiting == {k \in DOMAIN imports :
                            imports[k].state = "waiting" /\ imports[k].on = {settled[i]}}
        IN  [n \in 1..Cardinality(waiting) |->
                [kind |-> "settle", import |-> SetToSortSeq(waiting, <)[n],
                 ok |-> record'[settled[i]].cap = "fulfilled"]]])

Settle(rec, ok) == IF rec.cap = "pending"
                   THEN [rec EXCEPT !.cap = IF ok THEN "fulfilled" ELSE "rejected"]
                   ELSE rec

BodyJob(m, ok) == [kind |-> "body", module |-> m, ok |-> ok]

\* The evaluator of an asynchronous module suspends, or ends at once.
module_execute_async(m) ==
    \/ body' = [body EXCEPT ![m] = "running"] /\ jobs' = jobs
    \/ \E ok \in BOOLEAN :
        /\ body' = [body EXCEPT ![m] = IF ok THEN "done" ELSE "threw"]
        /\ jobs' = Append(jobs, BodyJob(m, ok))

\* What entering a linked module does to the walk w.
Pushed(w, m) ==
    [w EXCEPT !.stack = Append(@, m), !.dfs = @ + 1,
              !.frames = Append(@, [module |-> m, position |-> 1, entered |-> FALSE])]

Entered(rec, index) ==
    [rec EXCEPT !.status = "evaluating", !.dfs = index, !.ancestor = index, !.pending = 0]

Errored(m) == record[m].status \in {"async", "evaluated"} /\ record[m].errored

\* Evaluate's abrupt end: every module on the stack has the error.
module_evaluate_throws ==
    LET top == CHOOSE m \in table.of : TRUE
    IN  /\ record' = [m \in Modules |->
                LET failed == IF m \in ToSet(table.stack)
                              THEN [record[m] EXCEPT !.status = "evaluated", !.errored = TRUE]
                              ELSE record[m]
                IN  IF m = top THEN Settle([failed EXCEPT !.errored = TRUE], FALSE) ELSE failed]
        /\ table' = [NoWalk EXCEPT !.orders = table.orders]

-----------------------------------------------------------------------------
(* Evaluate.                                                                *)

\* The module whose capability Evaluate of m returns.
Represents(m) == IF record[m].status \in {"async", "evaluated"} THEN module_cycle_root(m) ELSE m

\* module_evaluate up to the first module_enter; r is Represents of the module.
module_evaluate(r) ==
    IF record[r].cap # "none" THEN UNCHANGED <<record, table>>
    ELSE IF record[r].status = "linked"
    THEN /\ record' = [record EXCEPT ![r] = [Entered(record[r], table.dfs) EXCEPT !.cap = "pending"]]
         /\ table' = Pushed([table EXCEPT !.of = {r}], r)
    ELSE IF record[r].errored
    THEN record' = [record EXCEPT ![r].cap = "rejected"] /\ UNCHANGED table
    ELSE /\ record' = [record EXCEPT ![r].cap = IF record[r].status = "evaluated"
                                                THEN "fulfilled" ELSE "pending"]
         /\ UNCHANGED table

module_graph_evaluate ==
    /\ Idle /\ record[Entry] = Linked /\ imports = <<>>
    /\ module_evaluate(Entry)
    /\ UNCHANGED <<graph, avail, jobs, imports, body>>

Frame == Last(table.frames)
Requests == requested[Frame.module]
AtRequest == Evaluating /\ table.frames # <<>> /\ Frame.position <= Len(Requests)
Required == Requests[Frame.position]

Resume == [table EXCEPT !.frames[Len(table.frames)].position = @ + 1,
                        !.frames[Len(table.frames)].entered = FALSE]

\* The next request names a module not visited yet.
EnterRequest ==
    /\ AtRequest /\ ~Frame.entered /\ record[Required].status = "linked"
    /\ record' = [record EXCEPT ![Required] = Entered(@, table.dfs)]
    /\ table' = Pushed([table EXCEPT !.frames[Len(table.frames)].entered = TRUE], Required)
    /\ UNCHANGED <<graph, avail, jobs, imports, body>>

\* The module a request waits for: itself on the stack, else its cycle root.
Awaited == IF record[Required].status = "evaluating" THEN Required
           ELSE module_cycle_root(Required)

Visited == AtRequest /\ (Frame.entered \/ record[Required].status # "linked")

\* The request, or the root of its cycle, failed earlier.
RequestThrows ==
    /\ Visited
    /\ \/ ~Frame.entered /\ Errored(Required)
       \/ record[Required].status # "evaluating" /\ record[Awaited].errored
    /\ module_evaluate_throws
    /\ jobs' = jobs \o Reactions(SetToSeq(table.of))
    /\ UNCHANGED <<graph, avail, imports, body>>

\* Mutant of module_after_request: the awaited module lists a parent that does
\* not count the request.
module_after_request_uncounted(m) ==
    [record EXCEPT
        ![m].ancestor = IF record[Required].status = "evaluating"
                           /\ record[Required].ancestor < @
                        THEN record[Required].ancestor ELSE @,
        ![Awaited].parents = IF module_async_pending(Awaited) THEN Append(@, m) ELSE @]

\* Step 7.b of InnerModuleEvaluation for the module m on top of the frames.
module_after_request(m) ==
    [record EXCEPT
        ![m].ancestor = IF record[Required].status = "evaluating"
                           /\ record[Required].ancestor < @
                        THEN record[Required].ancestor ELSE @,
        ![m].pending = IF module_async_pending(Awaited) THEN @ + 1 ELSE @,
        ![Awaited].parents = IF module_async_pending(Awaited) THEN Append(@, m) ELSE @]

RequestDone ==
    /\ Visited
    /\ Frame.entered \/ ~Errored(Required)
    /\ record[Required].status = "evaluating" \/ ~record[Awaited].errored
    /\ record' = module_after_request(Frame.module)
    /\ table' = Resume
    /\ UNCHANGED <<graph, avail, jobs, imports, body>>

\* The modules that leave the stack with m, the root of its cycle.
Cycle(m) == {table.stack[i] : i \in {k \in DOMAIN table.stack :
                                        \E j \in 1..k : table.stack[j] = m}}

\* Steps 8 to 12: m has the order `order' and leaves the stack with its cycle.
Leaves(m, order) ==
    LET rec == [record EXCEPT ![m].order = order]
        root == record[m].ancestor = record[m].dfs
    IN  /\ record' = [k \in Modules |->
                IF root /\ k \in Cycle(m)
                THEN [rec[k] EXCEPT !.status = IF rec[k].order = Unset THEN "evaluated"
                                               ELSE "async",
                                    !.root = {m}]
                ELSE rec[k]]
        /\ table' = [table EXCEPT !.frames = Front(@),
                                  !.stack = IF root
                                            THEN SelectSeq(@, LAMBDA k : k \notin Cycle(m))
                                            ELSE @,
                                  !.orders = IF order = Unset THEN @ ELSE order]

AfterRequests(m) ==
    Evaluating /\ table.frames # <<>> /\ Frame.position > Len(Requests) /\ Frame.module = m

\* Mutant of Waits: a module without top-level await does not wait.
WaitsIfAsync(m) == tla[m]

Waits(m) == record[m].pending > 0 \/ tla[m]

\* Mutant of AsyncAfterRequests: the body does not wait for its dependencies.
AsyncAfterRequestsEager(m) ==
    /\ AfterRequests(m) /\ Waits(m)
    /\ Leaves(m, table.orders + 1)
    /\ module_execute_async(m)
    /\ UNCHANGED <<graph, avail, imports>>

AsyncAfterRequests(m) ==
    /\ AfterRequests(m) /\ Waits(m)
    /\ Leaves(m, table.orders + 1)
    /\ IF record[m].pending = 0 THEN module_execute_async(m) ELSE UNCHANGED <<body, jobs>>
    /\ UNCHANGED <<graph, avail, imports>>

SyncAfterRequests(m) ==
    /\ AfterRequests(m) /\ ~Waits(m)
    /\ Leaves(m, Unset)
    /\ body' = [body EXCEPT ![m] = "done"]
    /\ UNCHANGED <<graph, avail, jobs, imports>>

SyncThrows(m) ==
    /\ AfterRequests(m) /\ ~Waits(m)
    /\ module_evaluate_throws
    /\ body' = [body EXCEPT ![m] = "threw"]
    /\ jobs' = jobs \o Reactions(SetToSeq(table.of))
    /\ UNCHANGED <<graph, avail, imports>>

\* Mutant of EvaluateEnds: the root settles though bodies are still to end.
EvaluateEndsAtOnce ==
    /\ Evaluating /\ table.frames = <<>>
    /\ LET top == CHOOSE m \in table.of : TRUE
       IN  record' = [record EXCEPT ![top] = Settle(@, TRUE)] /\ jobs' = jobs \o Reactions(<<top>>)
    /\ table' = [NoWalk EXCEPT !.orders = table.orders]
    /\ UNCHANGED <<graph, avail, imports, body>>

\* The walk is over; a root that needs no asynchronous step settles now.
EvaluateEnds ==
    /\ Evaluating /\ table.frames = <<>>
    /\ LET top == CHOOSE m \in table.of : TRUE
       IN  /\ record' = [record EXCEPT ![top] = IF @.status = "evaluated" THEN Settle(@, TRUE)
                                                ELSE @]
           /\ jobs' = jobs \o (IF record[top].status = "evaluated" THEN Reactions(<<top>>)
                               ELSE <<>>)
    /\ table' = [NoWalk EXCEPT !.orders = table.orders]
    /\ UNCHANGED <<graph, avail, imports, body>>

-----------------------------------------------------------------------------
(* The end of an asynchronous module.                                       *)

BodyEnds(m, ok) ==
    /\ Idle /\ body[m] = "running"
    /\ body' = [body EXCEPT ![m] = IF ok THEN "done" ELSE "threw"]
    /\ jobs' = Append(jobs, BodyJob(m, ok))
    /\ UNCHANGED <<graph, record, table, avail, imports>>

NextJob(kind) == Idle /\ jobs # <<>> /\ Head(jobs).kind = kind

\* GatherAvailableAncestors over a worklist: g.list is the ancestors found and
\* g.pending the counters that are left.
module_gather_available_ancestors(m) ==
    LET visit(g, parent) ==
            IF parent \in ToSet(g.list) \/ record[module_cycle_root(parent)].errored THEN g
            ELSE LET left == g.pending[parent] - 1
                 IN  [list |-> IF left = 0 THEN Append(g.list, parent) ELSE g.list,
                      work |-> IF left = 0 /\ ~tla[parent] THEN Append(g.work, parent)
                               ELSE g.work,
                      pending |-> [g.pending EXCEPT ![parent] = left]]
        turn(g, i) == IF g.work = <<>> THEN g
                      ELSE FoldLeft(visit, [g EXCEPT !.work = Front(@)],
                                    record[Last(g.work)].parents)
    IN  FoldLeft(turn, [list |-> <<>>, work |-> <<m>>,
                        pending |-> [k \in Modules |-> record[k].pending]],
                 [i \in 1..(Cardinality(Modules) + 1) |-> i])

\* Mutant of ByOrder: the ancestors run in the order they were found.
ByOrderFound(list) == list

ByOrder(list) == SortSeq(list, LAMBDA a, b : record[a].order < record[b].order)

Completed(rec) == Settle([rec EXCEPT !.order = Done, !.status = "evaluated"], TRUE)

module_async_fulfilled ==
    /\ NextJob("body") /\ Head(jobs).ok
    /\ LET m == Head(jobs).module
           g == module_gather_available_ancestors(m)
       IN  IF record[m].status = "evaluated"
           THEN jobs' = Tail(jobs) /\ UNCHANGED <<record, avail>>
           ELSE /\ record' = [k \in Modules |->
                        IF k = m THEN Completed([record[k] EXCEPT !.pending = g.pending[k]])
                        ELSE [record[k] EXCEPT !.pending = g.pending[k]]]
                /\ avail' = ByOrder(g.list)
                /\ jobs' = Tail(jobs) \o Reactions(<<m>>)
    /\ UNCHANGED <<graph, table, imports, body>>

\* The modules AsyncModuleExecutionRejected reaches from m, in the order of
\* its depth-first walk of the async parents.
Rejects(m) ==
    LET turn(w, i) ==
            IF w.work = <<>> THEN w
            ELSE LET k == Head(w.work)
                 IN  IF record[k].status = "evaluated" \/ k \in ToSet(w.hit)
                     THEN [w EXCEPT !.work = Tail(@)]
                     ELSE [work |-> record[k].parents \o Tail(w.work), hit |-> Append(w.hit, k)]
    IN  FoldLeft(turn, [work |-> <<m>>, hit |-> <<>>],
                 [i \in 1..(Cardinality(Modules) * Cardinality(Modules) + 1) |-> i]).hit

\* Mutant of module_async_rejected: the parents are not told.
module_async_rejected_alone(m, rest) ==
    /\ record' = [k \in Modules |->
            IF k = m THEN Settle([record[k] EXCEPT !.errored = TRUE, !.order = Done,
                                                   !.status = "evaluated"], FALSE)
            ELSE record[k]]
    /\ jobs' = rest \o Reactions(<<m>>)

module_async_rejected(m, rest) ==
    LET hit == Rejects(m)
    IN  /\ record' = [k \in Modules |->
                IF k \in ToSet(hit)
                THEN Settle([record[k] EXCEPT !.errored = TRUE, !.order = Done,
                                              !.status = "evaluated"], FALSE)
                ELSE record[k]]
        /\ jobs' = rest \o Reactions(hit)

BodyRejected ==
    /\ NextJob("body") /\ ~Head(jobs).ok
    /\ module_async_rejected(Head(jobs).module, Tail(jobs))
    /\ UNCHANGED <<graph, table, avail, imports, body>>

\* The loop of AsyncModuleExecutionFulfilled over the sorted ancestors.
AncestorSkipped ==
    /\ avail # <<>> /\ record[Head(avail)].status = "evaluated"
    /\ avail' = Tail(avail)
    /\ UNCHANGED <<graph, record, table, jobs, imports, body>>

AncestorAsync ==
    /\ avail # <<>> /\ record[Head(avail)].status # "evaluated" /\ tla[Head(avail)]
    /\ module_execute_async(Head(avail))
    /\ avail' = Tail(avail)
    /\ UNCHANGED <<graph, record, table, imports>>

AncestorSync(ok) ==
    /\ avail # <<>> /\ record[Head(avail)].status # "evaluated" /\ ~tla[Head(avail)]
    /\ LET m == Head(avail)
       IN  /\ body' = [body EXCEPT ![m] = IF ok THEN "done" ELSE "threw"]
           /\ IF ok THEN /\ record' = [record EXCEPT ![m] = Completed(@)]
                         /\ jobs' = jobs \o Reactions(<<m>>)
              ELSE module_async_rejected(m, jobs)
    /\ avail' = Tail(avail)
    /\ UNCHANGED <<graph, table, imports>>

-----------------------------------------------------------------------------
(* import().                                                                *)

\* Code of some module, now or in a later callback, calls import(m).
module_import(m) ==
    /\ \E k \in Modules : body[k] # "unstarted"
    /\ Len(imports) < MaxImports
    /\ imports' = Append(imports, [module |-> m, on |-> {}, state |-> "queued"])
    /\ jobs' = Append(jobs, [kind |-> "import", import |-> Len(imports) + 1, ok |-> TRUE])
    /\ UNCHANGED <<graph, record, table, avail, body>>

\* The first reaction evaluates the module and waits for the capability.
ImportEvaluates ==
    /\ NextJob("import")
    /\ LET i == Head(jobs).import
           r == Represents(imports[i].module)
       IN  /\ module_evaluate(r)
           /\ imports' = [imports EXCEPT ![i].on = {r}, ![i].state = "waiting"]
           /\ jobs' = IF record'[r].cap = "pending" THEN Tail(jobs)
                      ELSE Append(Tail(jobs), [kind |-> "settle", import |-> i,
                                               ok |-> record'[r].cap = "fulfilled"])
    /\ UNCHANGED <<graph, avail, body>>

\* The second one settles the promise of the call.
ImportSettles ==
    /\ NextJob("settle")
    /\ imports' = [imports EXCEPT ![Head(jobs).import].state =
                        IF Head(jobs).ok THEN "ok" ELSE "failed"]
    /\ jobs' = Tail(jobs)
    /\ UNCHANGED <<graph, record, table, avail, body>>

Quiet ==
    /\ Idle /\ jobs = <<>> /\ record[Entry] # Linked
    /\ \A m \in Modules : body[m] # "running"
    /\ UNCHANGED vars

Walk ==
    \/ module_graph_evaluate \/ EnterRequest \/ RequestThrows \/ RequestDone \/ EvaluateEnds
    \/ \E m \in Modules : AsyncAfterRequests(m) \/ SyncAfterRequests(m) \/ SyncThrows(m)

Ends ==
    \/ module_async_fulfilled \/ BodyRejected \/ AncestorSkipped \/ AncestorAsync
    \/ \E ok \in BOOLEAN : AncestorSync(ok) \/ \E m \in Modules : BodyEnds(m, ok)

Next ==
    \/ Walk \/ Ends \/ ImportEvaluates \/ ImportSettles \/ Quiet
    \/ \E m \in Modules : module_import(m)

Spec == Init /\ [][Next]_vars

-----------------------------------------------------------------------------
(* Properties.                                                              *)

\* Every variable has its type; the stacks fit in the arrays of the table and
\* no counter of pending dependencies underflows.
TypeOK ==
    /\ record \in [Modules -> [status : {"linked", "evaluating", "async", "evaluated"},
                               errored : BOOLEAN, dfs : Nat, ancestor : Nat,
                               root : SUBSET Modules, pending : Nat,
                               order : Nat \cup {Done}, parents : Seq(Modules),
                               cap : {"none", "pending", "fulfilled", "rejected"}]]
    /\ table.stack \in Seq(Modules) /\ Len(table.stack) <= Cardinality(Modules)
    /\ Len(table.frames) <= Cardinality(Modules)
    /\ avail \in Seq(Modules)
    /\ imports \in Seq([module : Modules, on : SUBSET Modules,
                        state : {"queued", "waiting", "ok", "failed"}])
    /\ body \in [Modules -> {"unstarted", "running", "done", "threw"}]

\* A module's body starts only when each module it requests outside of its own
\* cycle, and everything that one needs, has ended without a throw, however the
\* bodies of asynchronous modules are interleaved and fail.
DependenciesFirst ==
    \A m \in Modules : body[m] # "unstarted" =>
        \A k \in ToSet(requested[m]) :
            m \in needs[k] \cup {k} \/ \A j \in needs[k] \cup {k} : body[j] = "done"

\* The promise of an evaluation tells the truth: it is fulfilled only if the
\* module and everything it requests have run to the end, and rejected only if
\* one of them threw.
CapabilityTruth ==
    \A m \in Modules :
        /\ record[m].cap = "fulfilled" => \A k \in needs[m] \cup {m} : body[k] = "done"
        /\ record[m].cap = "rejected" => \E k \in needs[m] \cup {m} : body[k] = "threw"

\* import() of a module settles as the evaluation of its whole cycle does.
ImportTruth ==
    \A i \in DOMAIN imports :
        LET all == needs[imports[i].module] \cup {imports[i].module}
        IN  /\ imports[i].state = "ok" => \A k \in all : body[k] = "done"
            /\ imports[i].state = "failed" => \E k \in all : body[k] = "threw"

\* No body runs twice.
RunsOnce ==
    [][\A m \in Modules : body[m] # body'[m] =>
            body[m] = "unstarted" \/ (body[m] = "running" /\ body'[m] \in {"done", "threw"})]_vars

\* When every body that started has ended and no job is left, nothing waits: no
\* evaluation or import() is pending and no module is left halfway.
NothingForgotten ==
    (Idle /\ jobs = <<>> /\ \A m \in Modules : body[m] # "running") =>
        /\ \A m \in Modules : record[m].status \in {"linked", "evaluated"}
                              /\ record[m].cap # "pending"
        /\ \A i \in DOMAIN imports : imports[i].state \in {"ok", "failed"}

\* Modules that the end of one body makes available start in the order in which
\* the walk had reached them.
AncestorsInOrder ==
    \A i, j \in DOMAIN avail : i < j =>
        record[avail[i]].order < record[avail[j]].order \/ record[avail[i]].order = Done
            \/ record[avail[j]].order = Done

=============================================================================
