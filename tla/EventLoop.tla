----------------------------- MODULE EventLoop -----------------------------
(***************************************************************************)
(* The event loop of one realm (runtime_event_loop.c): turns, checkpoints, *)
(* timers, the finalization checkpoint and the end of the program.         *)
(*                                                                         *)
(* A driver is on the stack for the program (oseo_event_loop_run) and one  *)
(* for each internal await in progress (await_settled_value), which drives *)
(* turns of its own while the code that awaits is suspended below it.      *)
(* User code is arbitrary: it makes up to MaxCalls calls in all.  A        *)
(* diagnostic (a host failure) cannot be caught and ends the program.      *)
(***************************************************************************)
EXTENDS Integers, Sequences, FiniteSets, SequencesExt

CONSTANTS MaxCalls,   \* calls into the runtime made by user code
          MaxTime,    \* the largest time; stands for UINT64_MAX
          Delays,     \* the delays user code asks for
          Targets,    \* objects held by a WeakRef and registered for cleanup
          Registry    \* the FinalizationRegistry of each target

ASSUME EventLoopAssumption ==
    /\ MaxCalls \in Nat /\ MaxTime \in Nat /\ Delays \subseteq Nat
    /\ IsFiniteSet(Targets) /\ DOMAIN Registry = Targets

VARIABLES
    stack,       \* the drivers in progress, the event loop first
    jobs,        \* the microtask queue: 0, or the id of the await it settles
    rejected,    \* a rejection waits in pending_rejections with no handler
    policy,      \* unhandled_rejection_policy
    timers,      \* timer_head .. : the queue of timers
    orders,      \* next_timer_order
    clock,       \* clock_milliseconds: the cached scheduler time
    now,         \* the host's monotonic clock
    entry,       \* the entry promise
    targets,     \* each target: held, dropped (weak only) or collected
    registered,  \* targets whose cell is neither unregistered nor processed
    queue,       \* finalization_head .. : collected targets to report
    kept,        \* kept_objects, the KeptAlive set
    outcome,     \* how the program ended
    calls,       \* calls made so far
    awaits,      \* internal awaits begun so far
    seen,        \* history: targets the running job has got from deref
    fired        \* history: the timer started last

vars == <<stack, jobs, rejected, policy, timers, orders, clock, now, entry, targets,
          registered, queue, kept, outcome, calls, awaits, seen, fired>>

loopVars == <<stack, kept, seen, outcome>>
timeVars == <<timers, orders, clock, now, fired>>
weakVars == <<targets, registered, queue>>
restVars == <<jobs, rejected, policy, entry, calls, awaits>>

\* A driver: the turn it runs, the point it is at, whether the turn's callback
\* threw, and for an await whether its promise has a reaction queued (reacts)
\* and is settled.
Driver(id, turn, at) == [id |-> id, turn |-> turn, at |-> at, threw |-> FALSE,
                         registry |-> 0, reacts |-> FALSE, settled |-> FALSE]

Depth == Len(stack)
Top == stack[Depth]
At(point) == outcome = "running" /\ Top.at = point
InUser == At("callback") \/ At("job")
Goes(point) == stack' = [stack EXCEPT ![Depth].at = point]

NoTimer == [id |-> 0, deadline |-> 0, order |-> 0, canceled |-> FALSE]

\* main: the script is the first task.
Init ==
    /\ stack = <<Driver(0, "script", "callback")>>
    /\ jobs = <<>> /\ rejected = FALSE /\ policy \in {"fatal", "observe"}
    /\ timers = <<>> /\ orders = 1 /\ clock = 0 /\ now = 0
    /\ entry = "none"
    /\ targets = [t \in Targets |-> "held"] /\ registered = Targets
    /\ queue = <<>> /\ kept = {}
    /\ outcome = "running" /\ calls = 0 /\ awaits = 0
    /\ seen = {} /\ fired = NoTimer

-----------------------------------------------------------------------------
(* The calls of user code.                                                  *)

Call == InUser /\ calls < MaxCalls /\ calls' = calls + 1

\* A promise settles or a `then' is called on a settled one: a job is queued.
EnqueueJob ==
    /\ Call /\ jobs' = Append(jobs, 0)
    /\ UNCHANGED <<loopVars, timeVars, weakVars, rejected, policy, entry, awaits>>

\* A promise is rejected without a handler, or the last such one gets a handler.
RejectOrHandle ==
    /\ Call /\ rejected' = ~rejected
    /\ UNCHANGED <<loopVars, timeVars, weakVars, jobs, policy, entry, awaits>>

Before(a, b) == \/ a.deadline < b.deadline
                \/ a.deadline = b.deadline /\ a.order < b.order

\* Mutant of timer_link: a timer goes before those with the same deadline.
timer_link_before_ties(timer) ==
    LET earlier == {i \in DOMAIN timers : timers[i].deadline < timer.deadline}
    IN  InsertAt(timers, Cardinality(earlier) + 1, timer)

timer_link(timer) ==
    LET earlier == {i \in DOMAIN timers : ~Before(timer, timers[i])}
    IN  InsertAt(timers, Cardinality(earlier) + 1, timer)

\* Mutant of Deadline: the sum does not saturate.
DeadlineUnbounded(start, delay) == start + delay

Deadline(start, delay) == IF MaxTime - start < delay THEN MaxTime ELSE start + delay

Link(id, deadline) ==
    /\ timers' = timer_link([id |-> id, deadline |-> deadline, order |-> orders,
                             canceled |-> FALSE])
    /\ orders' = orders + 1

\* A deadline counts from the scheduler time cached when the turn started.
set_timeout(delay) ==
    /\ Call /\ Link(orders, Deadline(clock, delay))
    /\ UNCHANGED <<loopVars, weakVars, clock, now, fired, jobs, rejected, policy, entry, awaits>>

\* Atomics.waitAsync with a timeout: the deadline counts from the time read now.
atomics_timeout_enqueue(delay) ==
    /\ Call /\ Link(0, Deadline(now, delay))
    /\ UNCHANGED <<loopVars, weakVars, clock, now, fired, jobs, rejected, policy, entry, awaits>>

clear_timeout(id) ==
    /\ Call
    /\ \E i \in DOMAIN timers :
        /\ timers[i].id = id /\ ~timers[i].canceled
        /\ timers' = [timers EXCEPT ![i].canceled = TRUE]
    /\ UNCHANGED <<loopVars, weakVars, orders, clock, now, fired, jobs, rejected, policy,
                   entry, awaits>>

SettleEntry(state) ==
    /\ Call /\ entry = "pending" /\ entry' = state
    /\ UNCHANGED <<loopVars, timeVars, weakVars, jobs, rejected, policy, awaits>>

\* Mutant of weak_ref_deref: the target is not kept for the rest of the job.
weak_ref_deref_unkept(t) ==
    /\ Call /\ targets[t] # "collected"
    /\ seen' = seen \cup {t}
    /\ UNCHANGED <<timeVars, weakVars, kept, stack, outcome, jobs, rejected, policy, entry, awaits>>

weak_ref_deref(t) ==
    /\ Call /\ targets[t] # "collected"
    /\ kept' = kept \cup {t} /\ seen' = seen \cup {t}
    /\ UNCHANGED <<timeVars, weakVars, stack, outcome, jobs, rejected, policy, entry, awaits>>

\* The last strong reference to a target goes.
DropTarget(t) ==
    /\ Call /\ targets[t] = "held"
    /\ targets' = [targets EXCEPT ![t] = "dropped"]
    /\ UNCHANGED <<loopVars, timeVars, registered, queue, jobs, rejected, policy, entry, awaits>>

\* A consumed record may stay linked; take_queued_cleanup passes over it.
finalization_unregister(t) ==
    /\ Call /\ t \in registered
    /\ registered' = registered \ {t}
    /\ queue' = SelectSeq(queue, LAMBDA c : c # t)
    /\ UNCHANGED <<loopVars, timeVars, targets, jobs, rejected, policy, entry, awaits>>

\* await_settled_value: the awaited value may be settled already.
AwaitStep ==
    /\ Call /\ awaits' = awaits + 1
    /\ \E already \in BOOLEAN :
        /\ stack' = Append(stack, [Driver(awaits + 1, "await", "drain")
                                   EXCEPT !.reacts = already])
        /\ jobs' = IF already THEN Append(jobs, awaits + 1) ELSE jobs
    /\ UNCHANGED <<timeVars, weakVars, kept, seen, outcome, rejected, policy, entry>>

\* User code settles what a suspended await waits for.
SettleAwaited ==
    /\ Call
    /\ \E i \in DOMAIN stack :
        /\ stack[i].id # 0 /\ ~stack[i].reacts
        /\ stack' = [stack EXCEPT ![i].reacts = TRUE]
        /\ jobs' = Append(jobs, stack[i].id)
    /\ UNCHANGED <<timeVars, weakVars, kept, seen, outcome, rejected, policy, entry, awaits>>

\* The collector runs at an allocation: a target that is neither reachable nor
\* in KeptAlive goes, and its cell is queued.
Collect(t) ==
    /\ InUser \/ At("drain")
    /\ targets[t] = "dropped" /\ t \notin kept
    /\ targets' = [targets EXCEPT ![t] = "collected"]
    /\ queue' = IF t \in registered THEN Append(queue, t) ELSE queue
    /\ UNCHANGED <<loopVars, timeVars, restVars, registered>>

\* A host failure in user code (no memory, no clock).
Fails ==
    /\ InUser /\ outcome' = "diagnostic"
    /\ UNCHANGED <<timeVars, weakVars, restVars, stack, kept, seen>>

-----------------------------------------------------------------------------
(* How user code ends.                                                      *)

\* oseo_internal_finalization_take_registry_cleanup
MoreOf(registry) == SelectSeq(queue, LAMBDA t : Registry[t] = registry)

Take(t) ==
    /\ queue' = SelectSeq(queue, LAMBDA c : c # t)
    /\ registered' = registered \ {t}

\* A cleanup job calls its callback for every queued record of its registry.
NextRecord ==
    /\ At("callback") /\ Top.turn = "cleanup" /\ MoreOf(Top.registry) # <<>>
    /\ Take(Head(MoreOf(Top.registry)))
    /\ UNCHANGED <<loopVars, timeVars, restVars, targets>>

\* The callback of the turn returns or throws.  The script of a module returns
\* the entry promise, which is handled from then on.
CallbackEnds(threw) ==
    /\ At("callback")
    /\ threw \/ Top.turn # "cleanup" \/ MoreOf(Top.registry) = <<>>
    /\ stack' = [stack EXCEPT ![Depth].at = "drain", ![Depth].threw = threw]
    /\ entry' \in IF Top.turn = "script" /\ ~threw
                  THEN {"none", "pending", "fulfilled", "rejected"} ELSE {entry}
    /\ UNCHANGED <<timeVars, weakVars, kept, seen, outcome, jobs, rejected, policy, calls, awaits>>

\* A handler that throws rejects its capability, which may have no handler.
JobEnds ==
    /\ At("job") /\ Goes("drain")
    /\ rejected' \in {rejected, TRUE}
    /\ UNCHANGED <<timeVars, weakVars, kept, seen, outcome, jobs, policy, entry, calls, awaits>>

-----------------------------------------------------------------------------
(* The drivers.                                                             *)

\* Mutant of jobs_run_next: the KeptAlive set goes on to the next job.
jobs_run_next_keeping ==
    /\ At("drain") /\ jobs # <<>> /\ ~Top.settled
    /\ jobs' = Tail(jobs) /\ seen' = {}
    /\ stack' = [i \in DOMAIN stack |->
                    CASE Head(jobs) = 0 -> IF i = Depth THEN [Top EXCEPT !.at = "job"]
                                                        ELSE stack[i]
                      [] OTHER -> [stack[i] EXCEPT !.settled =
                                       @ \/ stack[i].id = Head(jobs)]]
    /\ UNCHANGED <<timeVars, weakVars, kept, outcome, rejected, policy, entry, calls, awaits>>

\* The oldest job runs: a handler, or the reaction of an internal await.
jobs_run_next ==
    /\ At("drain") /\ jobs # <<>> /\ ~Top.settled
    /\ jobs' = Tail(jobs) /\ kept' = {} /\ seen' = {}
    /\ stack' = [i \in DOMAIN stack |->
                    CASE Head(jobs) = 0 -> IF i = Depth THEN [Top EXCEPT !.at = "job"]
                                                        ELSE stack[i]
                      [] OTHER -> [stack[i] EXCEPT !.settled =
                                       @ \/ stack[i].id = Head(jobs)]]
    /\ UNCHANGED <<timeVars, weakVars, outcome, rejected, policy, entry, calls, awaits>>

\* Mutant of drain_ends: one job is enough for the checkpoint to follow.
drain_ends_early == At("drain")

drain_ends == At("drain") /\ (jobs = <<>> \/ Top.settled)

\* Mutant of Completion: the report of a rejection hides the callback's throw.
CompletionOfCheck ==
    IF ~Top.settled /\ rejected /\ policy = "fatal" THEN "unhandled"
    ELSE IF Top.threw THEN "threw" ELSE "normal"

\* What the turn's callback, jobs and rejection checkpoint leave.
Completion ==
    IF Top.threw THEN "threw"
    ELSE IF ~Top.settled /\ rejected /\ policy = "fatal" THEN "unhandled" ELSE "normal"

\* The end of a turn: the rejection checkpoint, unless the awaited promise is
\* settled, then the turn's completion.  The finalization checkpoint that
\* follows a normal one starts by ending the KeptAlive set.
TurnEnds ==
    /\ drain_ends
    /\ rejected' = (rejected /\ Top.settled)
    /\ IF Top.id = 0
       THEN IF Completion = "normal"
            THEN Goes("finalize") /\ kept' = {} /\ UNCHANGED <<seen, outcome>>
            ELSE outcome' = Completion /\ UNCHANGED <<stack, kept, seen>>
       ELSE IF Completion = "normal" /\ ~Top.settled
            THEN Goes("finalize") /\ kept' = {} /\ UNCHANGED <<seen, outcome>>
            ELSE /\ stack' = Front(stack) /\ seen' = {}
                 /\ kept' = IF Top.turn = "cleanup" THEN {} ELSE kept
                 /\ UNCHANGED outcome
    /\ UNCHANGED <<timeVars, weakVars, jobs, policy, entry, calls, awaits>>

\* One cleanup job per registry with queued records, the oldest record first.
finalization_cleanup_job ==
    /\ At("finalize") /\ queue # <<>>
    /\ Take(Head(queue))
    /\ stack' = [stack EXCEPT ![Depth].turn = "cleanup", ![Depth].at = "callback",
                              ![Depth].registry = Registry[Head(queue)]]
    /\ seen' = {}
    /\ UNCHANGED <<timeVars, restVars, targets, kept, outcome>>

\* entry_promise_completion follows in the event loop, not in an await.
FinalizationEnds ==
    /\ At("finalize") /\ queue = <<>>
    /\ IF Top.id = 0 /\ entry = "rejected"
       THEN outcome' = "entryRejected" /\ UNCHANGED stack
       ELSE Goes("timers") /\ UNCHANGED outcome
    /\ UNCHANGED <<timeVars, weakVars, restVars, kept, seen>>

\* wait_for_due_timer drops the canceled timers at the head of the queue.
Live == SelectInSeq(timers, LAMBDA t : ~t.canceled)

due(timer) == timer.deadline <= now

\* run_timer_turn: the earliest live timer is waited for and runs; a queue of
\* canceled timers empties without a wait.  A waiter's timeout runs no user
\* code; it may resolve a promise.
run_timer_turn ==
    /\ At("timers") /\ timers # <<>>
    /\ kept' = {} /\ seen' = {}
    /\ IF Live = 0
       THEN /\ timers' = <<>> /\ Goes("finalize")
            /\ UNCHANGED <<clock, fired, jobs>>
       ELSE LET timer == timers[Live]
            IN  /\ due(timer)
                /\ clock' = now /\ fired' = timer
                /\ timers' = SubSeq(timers, Live + 1, Len(timers))
                /\ stack' = [stack EXCEPT ![Depth].turn = "timer",
                                          ![Depth].at = IF timer.id = 0 THEN "drain"
                                                                        ELSE "callback"]
                /\ jobs' \in IF timer.id = 0 THEN {jobs, Append(jobs, 0)} ELSE {jobs}
    /\ UNCHANGED <<weakVars, outcome, orders, now, rejected, policy, entry, calls, awaits>>

ClockFails ==
    /\ At("timers") /\ Live # 0 /\ outcome' = "diagnostic"
    /\ UNCHANGED <<timeVars, weakVars, restVars, stack, kept, seen>>

\* Mutant of NothingLeft: an await goes on with no timer to wait for.
NothingLeftWaits ==
    /\ At("timers") /\ timers = <<>>
    /\ IF Top.id # 0 THEN Goes("finalize") /\ UNCHANGED outcome
       ELSE UNCHANGED stack /\ outcome' = IF entry = "pending" THEN "stalled" ELSE "ok"
    /\ UNCHANGED <<timeVars, weakVars, restVars, kept, seen>>

\* No timer is left: an await, or a program whose entry promise is pending,
\* cannot make progress (OSEO3001); otherwise the program is over.
NothingLeft ==
    /\ At("timers") /\ timers = <<>>
    /\ outcome' = IF Top.id # 0 \/ entry = "pending" THEN "stalled" ELSE "ok"
    /\ UNCHANGED <<timeVars, weakVars, restVars, stack, kept, seen>>

\* Time passes; the code reads it only in user code and when it waits.
Tick ==
    /\ InUser \/ At("timers")
    /\ now < MaxTime /\ now' = now + 1
    /\ UNCHANGED <<loopVars, weakVars, restVars, timers, orders, clock, fired>>

Exited == outcome # "running" /\ UNCHANGED vars

UserCalls ==
    \/ EnqueueJob \/ RejectOrHandle \/ AwaitStep \/ SettleAwaited
    \/ \E d \in Delays : set_timeout(d) \/ atomics_timeout_enqueue(d)
    \/ \E id \in 1..MaxCalls : clear_timeout(id)
    \/ \E state \in {"fulfilled", "rejected"} : SettleEntry(state)
    \/ \E t \in Targets : weak_ref_deref(t) \/ DropTarget(t) \/ finalization_unregister(t)

UserEnds == NextRecord \/ JobEnds \/ \E threw \in BOOLEAN : CallbackEnds(threw)

Drives ==
    \/ jobs_run_next \/ TurnEnds \/ finalization_cleanup_job \/ FinalizationEnds
    \/ run_timer_turn \/ NothingLeft

Next ==
    \/ UserCalls \/ UserEnds \/ Drives \/ Tick \/ Exited
    \/ Fails \/ ClockFails \/ \E t \in Targets : Collect(t)

Spec == Init /\ [][Next]_vars

\* User code returns, the thread runs and time passes.
LiveSpec == Spec /\ WF_vars(UserEnds) /\ WF_vars(Drives) /\ WF_vars(Tick)

-----------------------------------------------------------------------------
(* Properties.                                                              *)

\* Every variable has its type; deadlines never exceed the largest time.
TypeOK ==
    /\ stack \in Seq([id : 0..MaxCalls, turn : {"script", "await", "cleanup", "timer"},
                      at : {"callback", "drain", "job", "finalize", "timers"},
                      threw : BOOLEAN, registry : {0} \cup {Registry[t] : t \in Targets},
                      reacts : BOOLEAN, settled : BOOLEAN])
    /\ stack # <<>>
    /\ jobs \in Seq(0..MaxCalls) /\ rejected \in BOOLEAN /\ policy \in {"fatal", "observe"}
    /\ timers \in Seq([id : 0..MaxCalls, deadline : 0..MaxTime, order : 1..MaxCalls,
                       canceled : BOOLEAN])
    /\ orders \in 1..(MaxCalls + 1) /\ clock \in 0..MaxTime /\ now \in 0..MaxTime
    /\ entry \in {"none", "pending", "fulfilled", "rejected"}
    /\ targets \in [Targets -> {"held", "dropped", "collected"}]
    /\ registered \subseteq Targets /\ queue \in Seq(Targets) /\ kept \subseteq Targets
    /\ outcome \in {"running", "ok", "threw", "unhandled", "entryRejected", "stalled",
                    "diagnostic"}
    /\ calls \in 0..MaxCalls /\ awaits \in 0..MaxCalls /\ seen \subseteq Targets

\* A timer callback or a cleanup job begins.
TurnBegins ==
    Top.at \in {"finalize", "timers"} /\ stack'[Depth].at \in {"callback", "drain"}

\* A promise job begins.
JobBegins == Top.at = "drain" /\ Len(stack') = Depth /\ stack'[Depth].at = "job"

\* A timer or a cleanup job begins only when the microtask queue is empty and
\* every rejection left without a handler has been reported, also in a turn
\* that an internal await drives in the middle of another turn.
MacrotaskBoundary == [][TurnBegins => jobs = <<>> /\ ~rejected]_vars

\* Timers start by deadline and then in the order in which they were set, no
\* timer starts before its time or after its cancellation, and this holds
\* across nested awaits and saturated deadlines.
TimersFireInOrder ==
    [][fired' # fired =>
        /\ fired'.deadline <= now' /\ ~fired'.canceled
        /\ Before(fired, fired')
        /\ \A i \in DOMAIN timers : ~timers[i].canceled => ~Before(timers[i], fired')]_vars

\* Each job and each turn begins with an empty KeptAlive set: what an earlier
\* job has got from a WeakRef does not stay alive through it.
KeptAliveEnds ==
    [][TurnBegins \/ JobBegins => kept' = {}]_vars

\* A target that the running job has got from `deref' stays until the job ends
\* or awaits: a second deref in the job gives it again.
DerefStable == \A t \in seen : targets[t] # "collected"

\* The program ends normally only when nothing is left that could run, and it
\* reports a stall only if, besides, what it awaits is pending.  A throw of the
\* last callback is never hidden by an unhandled rejection.
ProgramOutcome ==
    /\ outcome \in {"ok", "stalled"} =>
        jobs = <<>> /\ timers = <<>> /\ queue = <<>> /\ ~rejected
    /\ outcome = "ok" => Depth = 1 /\ entry \in {"none", "fulfilled"}
    /\ outcome = "stalled" => IF Depth = 1 THEN entry = "pending" ELSE ~Top.settled
    /\ outcome = "unhandled" => policy = "fatal" /\ Depth = 1 /\ ~Top.threw

\* The program ends: whatever timers it cancels, jobs it queues or promises it
\* never settles, the loop finds out that nothing is left and stops.
ProgramEnds == <>(outcome # "running")

=============================================================================
