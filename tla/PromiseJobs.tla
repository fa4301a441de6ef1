---------------------------- MODULE PromiseJobs ----------------------------
(***************************************************************************)
(* Promises, reactions, promise jobs and unhandled rejections of one realm *)
(* (runtime_promise.c).                                                    *)
(*                                                                         *)
(* User code is arbitrary: between two steps of the runtime a script, a    *)
(* timer callback or a promise handler makes any of the calls below, then  *)
(* returns or throws.  Promises are numbered in the order of allocation,   *)
(* and a reaction is identified by the promise that is its capability,     *)
(* because every `then' allocates one.                                     *)
(***************************************************************************)
EXTENDS Integers, Sequences, FiniteSets, SequencesExt

CONSTANTS MaxPromises,  \* promises modelled
          MaxLatches,   \* pairs of resolving functions modelled
          MaxTasks      \* scripts and timer callbacks modelled

ASSUME PromiseAssumption == MaxPromises \in Nat /\ MaxLatches \in Nat /\ MaxTasks \in Nat

Promises == 1..MaxPromises
Latches  == 1..MaxLatches

\* What a resolving function can be given besides a promise: a value whose
\* "then" is not callable, an object whose "then" getter throws, and one whose
\* "then" is a user function.
Plain    == 0
Throwing == -1
Thenable == -2
Values   == {Plain, Throwing, Thenable} \cup Promises

\* A handler is absent, a user function, or a resolving function of a latch.
Absent   == 0
User     == -1
Handlers == {Absent, User} \cup Latches

VARIABLES
    promises,    \* the OseoPromise objects allocated so far, in order
    latches,     \* the resolving environments allocated so far, in order
    jobs,        \* microtask_head .. microtask_tail
    rejections,  \* pending_rejections .. pending_rejection_tail
    counts,      \* unhandled_rejection_count and rejection_handled_count
    policy,      \* unhandled_rejection_policy
    now,         \* what the thread runs
    log,         \* history: the reactions run so far, in order
    tasks        \* scripts and timer callbacks begun

vars == <<promises, latches, jobs, rejections, counts, policy, now, log, tasks>>

\* The heap and queues one call works on, as one record, so that the helpers
\* below are functions of it.
Heap == [p |-> promises, l |-> latches, j |-> jobs, r |-> rejections, c |-> counts]

Becomes(h) ==
    /\ promises' = h.p /\ latches' = h.l /\ jobs' = h.j
    /\ rejections' = h.r /\ counts' = h.c

-----------------------------------------------------------------------------
(* Helpers, named after the functions of runtime_promise.c.                 *)

\* `from' and `adopts' are history: the promise a derived promise hangs off
\* and the promise a resolution locked this one in to.
promise_allocate(h, parent) ==
    [h EXCEPT !.p = Append(@, [state |-> "pending", reactions |-> <<>>,
                               handled |-> FALSE, pendingReport |-> FALSE,
                               reported |-> FALSE, from |-> parent, adopts |-> 0])]

\* Mutant of enqueue_job: the newest job runs first.
enqueue_job_front(h, job) == [h EXCEPT !.j = <<job>> \o @]

enqueue_job(h, job) == [h EXCEPT !.j = Append(@, job)]

ReactionJob(r, fulfilled) ==
    [kind |-> "reaction", cap |-> r.cap, handler |-> IF fulfilled THEN r.ok ELSE r.fail,
     fulfilled |-> fulfilled]

\* Mutant of enqueue_reactions: only the head of the list is queued.
enqueue_reactions_head(h, p) ==
    [h EXCEPT !.j = @ \o (IF h.p[p].reactions = <<>> THEN <<>>
                          ELSE <<ReactionJob(h.p[p].reactions[1],
                                             h.p[p].state = "fulfilled")>>),
              !.p[p].reactions = <<>>]

enqueue_reactions(h, p) ==
    [h EXCEPT !.j = @ \o [i \in DOMAIN h.p[p].reactions |->
                            ReactionJob(h.p[p].reactions[i], h.p[p].state = "fulfilled")],
              !.p[p].reactions = <<>>]

promise_fulfill(h, p) ==
    IF h.p[p].state # "pending" THEN h
    ELSE enqueue_reactions([h EXCEPT !.p[p].state = "fulfilled"], p)

reject_into(h, p) ==
    IF h.p[p].state # "pending" THEN h
    ELSE LET listed == IF h.p[p].handled THEN h
                       ELSE [h EXCEPT !.p[p].pendingReport = TRUE, !.r = Append(@, p)]
         IN  enqueue_reactions([listed EXCEPT !.p[p].state = "rejected"], p)

resolve_into(h, p, v) ==
    IF h.p[p].state # "pending" THEN h
    ELSE CASE v = Plain -> promise_fulfill(h, p)
           [] v = Throwing \/ v = p -> reject_into(h, p)
           [] v = Thenable -> enqueue_job(h, [kind |-> "thenable", cap |-> p, of |-> 0])
           [] OTHER -> enqueue_job([h EXCEPT !.p[p].adopts = v],
                                   [kind |-> "thenable", cap |-> p, of |-> v])

capability_settle(h, p, v, fulfilled) ==
    IF fulfilled THEN resolve_into(h, p, v) ELSE reject_into(h, p)

\* `shown' tells whether user code can get hold of the two functions.
resolving_environment_create(h, p, shown) ==
    [h EXCEPT !.l = Append(@, [promise |-> p, resolved |-> FALSE, shown |-> shown])]

\* Mutant of resolving_call: the reject function does not look at the latch.
resolving_call_reject_anyway(h, l, v, fulfilled) ==
    IF h.l[l].resolved /\ fulfilled THEN h
    ELSE capability_settle([h EXCEPT !.l[l].resolved = TRUE], h.l[l].promise, v, fulfilled)

\* A call of the resolve or reject function of a resolving environment.
resolving_call(h, l, v, fulfilled) ==
    IF h.l[l].resolved THEN h
    ELSE capability_settle([h EXCEPT !.l[l].resolved = TRUE], h.l[l].promise, v, fulfilled)

\* Mutant of promise_attach_reaction: the reaction waits on a settled promise.
attach_reaction_waits(h, p, r) ==
    [h EXCEPT !.c.handled = @ + (IF h.p[p].reported /\ ~h.p[p].handled THEN 1 ELSE 0),
              !.p[p].handled = TRUE, !.p[p].pendingReport = FALSE,
              !.p[p].reactions = Append(@, r)]

promise_attach_reaction(h, p, r) ==
    LET late == h.p[p].reported /\ ~h.p[p].handled
        seen == [h EXCEPT !.c.handled = @ + (IF late THEN 1 ELSE 0),
                          !.p[p].handled = TRUE, !.p[p].pendingReport = FALSE]
    IN  IF seen.p[p].state = "pending"
        THEN [seen EXCEPT !.p[p].reactions = Append(@, r)]
        ELSE enqueue_job(seen, ReactionJob(r, seen.p[p].state = "fulfilled"))

\* Mutant of promise_then: the capability is one past the derived promise.
promise_then_past_end(h, p, ok, fail) ==
    LET new == promise_allocate(h, p)
    IN  promise_attach_reaction(new, p, [ok |-> ok, fail |-> fail, cap |-> Len(new.p) + 1])

\* The derived promise is the reaction's capability.
promise_then(h, p, ok, fail) ==
    LET new == promise_allocate(h, p)
    IN  promise_attach_reaction(new, p, [ok |-> ok, fail |-> fail, cap |-> Len(new.p)])

-----------------------------------------------------------------------------
(* Control.  `now.run' is                                                   *)
(*   user   user code on behalf of a task, a handler or a thenable          *)
(*   drain  the drain loop         check  the rejection checkpoint is next   *)
(*   idle   between tasks          over   the program ended                  *)

Running(kind, cap, latch) == [run |-> "user", kind |-> kind, cap |-> cap, latch |-> latch]
At(place)                 == [run |-> place, kind |-> "none", cap |-> 0, latch |-> 0]

Init ==
    /\ promises = <<>> /\ latches = <<>> /\ jobs = <<>> /\ rejections = <<>>
    /\ counts = [unhandled |-> 0, handled |-> 0]
    /\ policy \in {"throw", "observe"}
    /\ now = Running("task", 0, 0)
    /\ log = <<>>
    /\ tasks = 1

InUser == now.run = "user"

RoomFor(n, m) == Len(promises) + n <= MaxPromises /\ Len(latches) + m <= MaxLatches

\* new Promise(executor), Promise.withResolvers(): the executor's calls, and
\* the reject call its throw causes, are resolving calls of the same latch.
PromiseConstruct ==
    /\ InUser /\ RoomFor(1, 1)
    /\ Becomes(resolving_environment_create(promise_allocate(Heap, 0), Len(promises) + 1, TRUE))
    /\ UNCHANGED <<policy, now, log, tasks>>

ResolvingCall(l, v, fulfilled) ==
    /\ InUser /\ l \in DOMAIN latches /\ latches[l].shown
    /\ v \in Promises => v \in DOMAIN promises
    /\ Becomes(resolving_call(Heap, l, v, fulfilled))
    /\ UNCHANGED <<policy, now, log, tasks>>

\* p.then and p.catch; p.finally calls it with two functions of its own, and an
\* `await' attaches a reaction in the same way.
Then(p, ok, fail) ==
    /\ InUser /\ p \in DOMAIN promises /\ RoomFor(1, 0)
    /\ Becomes(promise_then(Heap, p, ok, fail))
    /\ UNCHANGED <<policy, now, log, tasks>>

\* Promise.resolve(v), Promise.reject(v), Promise.try and an async function
\* that completes without awaiting: a fresh capability settled at once.
PromiseStatic(v, fulfilled) ==
    /\ InUser /\ RoomFor(1, 0)
    /\ v \notin Promises
    /\ Becomes(capability_settle(promise_allocate(Heap, 0), Len(promises) + 1, v, fulfilled))
    /\ UNCHANGED <<policy, now, log, tasks>>

\* User code returns v or throws.  A handler settles its capability, a throwing
\* thenable calls its reject function, a task leaves the rest to the checkpoint.
UserEnds(v, normal) ==
    /\ InUser
    /\ v \in Promises => v \in DOMAIN promises
    /\ CASE now.kind = "handler" -> Becomes(capability_settle(Heap, now.cap, v, normal))
         [] now.kind = "thenable" /\ ~normal -> Becomes(resolving_call(Heap, now.latch, v, FALSE))
         [] OTHER -> UNCHANGED <<promises, latches, jobs, rejections, counts>>
    /\ now' = At("drain")
    /\ UNCHANGED <<policy, log, tasks>>

\* jobs_run_next on a reaction: run_reaction_job.
RunReactionJob ==
    /\ now.run = "drain" /\ jobs # <<>> /\ Head(jobs).kind = "reaction"
    /\ LET job  == Head(jobs)
           rest == [Heap EXCEPT !.j = Tail(jobs)]
       IN  CASE job.handler = User ->
                    Becomes(rest) /\ now' = Running("handler", job.cap, 0)
             [] job.handler = Absent ->
                    /\ Becomes(capability_settle(rest, job.cap, Plain, job.fulfilled))
                    /\ UNCHANGED now
             [] OTHER ->
                    \* a resolving function, then the derived promise
                    /\ Becomes(capability_settle(
                          resolving_call(rest, job.handler, Plain, job.fulfilled),
                          job.cap, Plain, TRUE))
                    /\ UNCHANGED now
    /\ log' = Append(log, Head(jobs).cap)
    /\ UNCHANGED <<policy, tasks>>

\* jobs_run_next on a thenable: run_thenable_job.  A promise's own `then' gets
\* the new resolving functions as handlers; a user function runs with them.
RunThenableJob ==
    /\ now.run = "drain" /\ jobs # <<>> /\ Head(jobs).kind = "thenable"
    /\ RoomFor(1, 1)
    /\ LET job == Head(jobs)
           l   == Len(latches) + 1
           h   == resolving_environment_create([Heap EXCEPT !.j = Tail(jobs)], job.cap,
                                            job.of = 0)
       IN  IF job.of = 0
           THEN Becomes(h) /\ now' = Running("thenable", 0, l)
           ELSE Becomes(promise_then(h, job.of, l, l)) /\ UNCHANGED now
    /\ UNCHANGED <<policy, log, tasks>>

\* A thenable job the model has no room for ends the modelled run.
OutOfRoom ==
    /\ now.run = "drain" /\ jobs # <<>> /\ Head(jobs).kind = "thenable"
    /\ ~RoomFor(1, 1)
    /\ now' = At("over")
    /\ UNCHANGED <<promises, latches, jobs, rejections, counts, policy, log, tasks>>

DrainEnds ==
    /\ now.run = "drain" /\ jobs = <<>>
    /\ now' = At("check")
    /\ UNCHANGED <<promises, latches, jobs, rejections, counts, policy, log, tasks>>

\* Mutant of Unhandled: the promise that is handled by now is reported too.
UnhandledAnyway == {p \in ToSet(rejections) : promises[p].state = "rejected"}

Unhandled == {p \in ToSet(rejections) : /\ promises[p].pendingReport
                                        /\ ~promises[p].handled
                                        /\ promises[p].state = "rejected"}

rejection_checkpoint ==
    /\ now.run = "check"
    /\ rejections' = <<>>
    /\ promises' = [p \in DOMAIN promises |->
                        IF p \in Unhandled
                        THEN [promises[p] EXCEPT !.pendingReport = FALSE, !.reported = TRUE]
                        ELSE promises[p]]
    /\ counts' = [counts EXCEPT !.unhandled = @ + Cardinality(Unhandled)]
    /\ now' = IF Unhandled # {} /\ policy = "throw" THEN At("over") ELSE At("idle")
    /\ UNCHANGED <<latches, jobs, policy, log, tasks>>

\* The event loop runs the next timer callback.
NextTask ==
    /\ now.run = "idle" /\ tasks < MaxTasks
    /\ now' = Running("task", 0, 0)
    /\ tasks' = tasks + 1
    /\ UNCHANGED <<promises, latches, jobs, rejections, counts, policy, log>>

Finished == now.run \in {"idle", "over"} /\ UNCHANGED vars

Calls ==
    \/ PromiseConstruct
    \/ \E l \in Latches, v \in Values : ResolvingCall(l, v, TRUE)
    \/ \E l \in Latches : ResolvingCall(l, Plain, FALSE)
    \/ \E p \in Promises, ok, fail \in {Absent, User} : Then(p, ok, fail)
    \/ \E v \in {Plain, Thenable} : PromiseStatic(v, TRUE)
    \/ PromiseStatic(Plain, FALSE)

Jobs == RunReactionJob \/ RunThenableJob \/ OutOfRoom \/ DrainEnds \/ rejection_checkpoint

Returns == (\E v \in Values : UserEnds(v, TRUE)) \/ UserEnds(Plain, FALSE)

Next == Calls \/ Returns \/ Jobs \/ NextTask \/ Finished

Spec == Init /\ [][Next]_vars

\* Each job runs and each handler returns (a handler that never does keeps the
\* thread, as in the code).
LiveSpec == Spec /\ WF_vars(Jobs) /\ WF_vars(Returns)

-----------------------------------------------------------------------------
(* Properties.                                                              *)

\* Every variable has its type.
TypeOK ==
    /\ promises \in Seq([state : {"pending", "fulfilled", "rejected"},
                         reactions : Seq([ok : Handlers, fail : Handlers, cap : Promises]),
                         handled : BOOLEAN, pendingReport : BOOLEAN, reported : BOOLEAN,
                         from : 0..MaxPromises, adopts : 0..MaxPromises])
    /\ Len(promises) <= MaxPromises /\ Len(latches) <= MaxLatches
    /\ latches \in Seq([promise : Promises, resolved : BOOLEAN, shown : BOOLEAN])
    /\ jobs \in Seq([kind : {"reaction"}, cap : Promises, handler : Handlers,
                     fulfilled : BOOLEAN]
                    \cup [kind : {"thenable"}, cap : Promises, of : 0..MaxPromises])
    /\ rejections \in Seq(Promises)
    /\ counts \in [unhandled : Nat, handled : Nat]
    /\ policy \in {"throw", "observe"}
    /\ now \in [run : {"user", "drain", "check", "idle", "over"},
                kind : {"none", "task", "handler", "thenable"},
                cap : 0..MaxPromises, latch : 0..MaxLatches]
    /\ log \in Seq(Promises)
    /\ tasks \in 1..MaxTasks

\* The number of times the reaction with capability d waits or is queued.
Pending(d) ==
    Cardinality({<<p, i>> \in (DOMAIN promises) \X (1..MaxPromises) :
                    /\ i \in DOMAIN promises[p].reactions
                    /\ promises[p].reactions[i].cap = d})
    + Cardinality({i \in DOMAIN jobs : jobs[i].kind = "reaction" /\ jobs[i].cap = d})
Run(d) == Cardinality({i \in DOMAIN log : log[i] = d})

\* A reaction attached with `then' runs exactly once: it waits on its pending
\* promise, or is queued after the promise settled, or has run, and it is never
\* dropped, duplicated or left waiting on a settled promise.
ReactionRunsOnce ==
    /\ \A d \in DOMAIN promises :
            promises[d].from # 0 => Pending(d) + Run(d) = 1
    /\ \A p \in DOMAIN promises :
            promises[p].state # "pending" => promises[p].reactions = <<>>

\* The reactions of one promise run in the order in which they were attached,
\* whether they were attached before or after it settled.
ReactionOrder ==
    \A i, j \in DOMAIN log :
        (i < j /\ promises[log[i]].from = promises[log[j]].from) => log[i] < log[j]

\* A promise resolved with another promise is locked in: with no job left it
\* has settled as that promise has, whatever later calls of its resolving
\* functions tried (runtime_promise.c, the shared already-resolved latch).
Adoption ==
    (jobs = <<>> /\ now.run \in {"check", "idle"}) =>
        \A p \in DOMAIN promises :
            promises[p].adopts # 0 =>
                promises[p].state = promises[promises[p].adopts].state

\* A rejection without a handler is reported at the next checkpoint, once, and
\* only if no handler came first; a handler that comes later is counted once.
RejectionTracking ==
    /\ IsInjective(rejections)
    /\ \A p \in DOMAIN promises :
        /\ promises[p].state = "rejected" /\ ~promises[p].handled =>
              (promises[p].reported <=> p \notin ToSet(rejections))
        /\ promises[p].reported => promises[p].state = "rejected" /\ ~promises[p].pendingReport
    /\ counts.unhandled = Cardinality({p \in DOMAIN promises : promises[p].reported})
    /\ counts.handled = Cardinality({p \in DOMAIN promises :
                                        promises[p].reported /\ promises[p].handled})

\* Once a promise has settled, each of its reactions runs.
ReactionsRun ==
    \A d \in Promises :
        (d \in DOMAIN promises /\ promises[d].from # 0
            /\ promises[promises[d].from].state # "pending")
        ~> (now.run = "over" \/ d \in ToSet(log))

=============================================================================
