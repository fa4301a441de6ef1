---------------------------- MODULE AgentCluster ----------------------------
(***************************************************************************)
(* The agent cluster of the test262 host (runtime_agent.c, ADR 0026) with  *)
(* the parts of Atomics.wait/notify (runtime_atomics.c) and of the agent   *)
(* event loop (runtime_event_loop.c) that move the turn.                   *)
(*                                                                         *)
(* The scheduling of the threads is AgentTurn's.  One action is one        *)
(* critical section of `cluster->lock' with the thread-local code around   *)
(* it; an agent that evaluates may make any of the calls below.            *)
(***************************************************************************)
EXTENDS AgentTurn, SequencesExt, FiniteSetsExt

CONSTANTS Locations,    \* (shared block, byte index) pairs
          NoLocation,
          MaxAsync,     \* waitAsync calls modelled per agent
          MaxTimers,    \* live setTimeout callbacks modelled per agent
          MaxReports    \* reports modelled in the queue

Slots  == 1..MaxAsync

ASSUME ClusterAssumption ==
    /\ NoLocation \notin Locations
    /\ MaxAsync \in Nat /\ MaxTimers \in Nat /\ MaxReports \in Nat

VARIABLES
    op,          \* the operation a thread is suspended in
    agents,      \* agents_head .. agents_tail: started and not yet reaped
    waiters,     \* waiters_head .. waiters_tail
    resolved,    \* each agent's waitAsync entries another agent notified
    listedAsync, \* listed_async
    outcome,     \* the promise of each waitAsync call
    notified,    \* the `notified' flag of each agent's stack waiter
    waitTimers,  \* waitAsync calls whose timeout job is still queued
    callbacks,   \* live setTimeout callbacks of each agent
    inbox,       \* broadcasts in each agent's inbox
    remaining,   \* broadcast_remaining
    receiver,    \* agent_broadcast_callback is registered
    leaving,     \* the agent called $262.agent.leaving
    notifying,   \* the location the turn holder's Atomics.notify walks
    reports      \* reports queued

threadVars == <<at, op>>
waitVars   == <<waiters, resolved, listedAsync, outcome, notified, waitTimers>>
castVars   == <<inbox, remaining, receiver, leaving>>
miscVars   == <<agents, callbacks, notifying, reports>>
vars == <<cl, threadVars, waitVars, castVars, miscVars>>

-----------------------------------------------------------------------------
(* The WaiterList store.                                                    *)

\* Slot 0 is the waiter on the stack of a blocking Atomics.wait.
Waiter(a, s, l) == [owner |-> a, slot |-> s, loc |-> l]

waiter_unlink(ws, w) == SelectSeq(ws, LAMBDA e : e # w)

Listed(a, s) == {w \in ToSet(waiters) : w.owner = a /\ w.slot = s}

agent_has_work(a) == resolved[a] # <<>> \/ (inbox[a] > 0 /\ receiver[a])

\* Main becomes ready when the last delivery of a broadcast is accounted for.
broadcast_retrieved(c, n) ==
    IF remaining > 0 /\ remaining <= n THEN agent_make_ready(c, Main) ELSE c

Less(m, n) == IF m > n THEN m - n ELSE 0

-----------------------------------------------------------------------------
\* Suspends the thread of a in operation o with the scheduling state c.
Suspend(a, c, o) == Park(a, c) /\ op' = [op EXCEPT ![a] = o]

Init ==
    /\ TurnInit
    /\ op = [a \in Agents |-> "none"]
    /\ agents = <<>>
    /\ waiters = <<>>
    /\ resolved = [a \in Agents |-> <<>>]
    /\ listedAsync = [a \in Agents |-> 0]
    /\ outcome = [a \in Agents |-> [s \in Slots |-> "none"]]
    /\ notified = [a \in Agents |-> FALSE]
    /\ waitTimers = [a \in Agents |-> {}]
    /\ callbacks = [a \in Agents |-> 0]
    /\ inbox = [a \in Agents |-> 0]
    /\ remaining = 0
    /\ receiver = [a \in Agents |-> FALSE]
    /\ leaving = [a \in Agents |-> FALSE]
    /\ notifying = NoLocation
    /\ reports = 0

-----------------------------------------------------------------------------
(* agent_await_turn: what a sleeping thread does by itself.                 *)

WakeUp(a) == Wakes(a) /\ UNCHANGED <<op, waitVars, castVars, miscVars>>

\* A stack waiter still listed when the deadline passes leaves the store.
DeadlinePasses(a) ==
    /\ Expires(a)
    /\ waiters' = SelectSeq(waiters, LAMBDA w : ~(w.owner = a /\ w.slot = 0))
    /\ UNCHANGED <<op, resolved, listedAsync, outcome, notified, waitTimers,
                   castVars, miscVars>>

\* The thread leaves agent_await_turn and the operation it was suspended in.
\* A woken Atomics.wait offers the turn once more before it returns.
Return(a) ==
    /\ Live(a, "awake")
    /\ Go(a, CASE op[a] \in {"wait", "timedWait"} -> "offer"
               [] op[a] = "idle" -> "loop"
               [] OTHER -> "eval")
    /\ op' = [op EXCEPT ![a] = "none"]
    /\ waiters' = SelectSeq(waiters, LAMBDA w : ~(w.owner = a /\ w.slot = 0))
    /\ notified' = [notified EXCEPT ![a] = FALSE]
    /\ reports' = IF op[a] = "getReport" THEN Less(reports, 1) ELSE reports
    /\ UNCHANGED <<cl, resolved, listedAsync, outcome, waitTimers,
                   castVars, agents, callbacks, notifying>>

-----------------------------------------------------------------------------
(* Atomics.                                                                 *)

\* Mutant of OfferTurn: the agent that yields is not queued again.
OfferTurnForGood(a) ==
    /\ Live(a, "eval") \/ Live(a, "offer")
    /\ IF cl.ready # <<>>
       THEN Suspend(a, cluster_dispatch([cl EXCEPT !.state[a] = "ready",
                                                   !.running = NoAgent]), "yield")
       ELSE Go(a, "eval") /\ UNCHANGED <<cl, op>>
    /\ UNCHANGED <<waitVars, castVars, miscVars>>

\* atomics_offer_turn, the end of every Atomics operation: the turn goes to
\* the longest-ready agent if there is one.
OfferTurn(a) ==
    /\ Live(a, "eval") \/ Live(a, "offer")
    /\ IF cl.ready # <<>>
       THEN Suspend(a, agent_requeue(cl, a), "yield")
       ELSE Go(a, "eval") /\ UNCHANGED <<cl, op>>
    /\ UNCHANGED <<waitVars, castVars, miscVars>>

\* Atomics.wait on an element holding the expected value, agent_suspend.
AtomicsWait(a, l, finite) ==
    /\ Live(a, "eval")
    /\ waiters' = Append(waiters, Waiter(a, 0, l))
    /\ Suspend(a, agent_block(cl, a, finite, FALSE),
               IF finite THEN "timedWait" ELSE "wait")
    /\ UNCHANGED <<resolved, listedAsync, outcome, notified, waitTimers,
                   castVars, miscVars>>

\* Atomics.waitAsync: atomics_add_waiter and agent_list_waiter; a finite
\* timeout also queues the timeout job.
AtomicsWaitAsync(a, s, l, finite) ==
    /\ Live(a, "eval")
    /\ outcome[a][s] = "none"
    /\ outcome' = [outcome EXCEPT ![a][s] = "waiting"]
    /\ waiters' = Append(waiters, Waiter(a, s, l))
    /\ listedAsync' = [listedAsync EXCEPT ![a] = @ + 1]
    /\ waitTimers' = IF finite THEN [waitTimers EXCEPT ![a] = @ \cup {s}]
                               ELSE waitTimers
    /\ Go(a, "offer")
    /\ UNCHANGED <<cl, op, resolved, notified, castVars, miscVars>>

AtomicsNotify(a, l) ==
    /\ Live(a, "eval")
    /\ Go(a, "notify")
    /\ notifying' = l
    /\ UNCHANGED <<cl, op, waitVars, castVars, agents, callbacks, reports>>

\* Mutant of notify_one: an agent with a notified promise is woken from any wait.
notify_one_wakes_all(a, w) ==
    /\ waiters' = waiter_unlink(waiters, w)
    /\ cl' = agent_make_ready(cl, w.owner)
    /\ IF w.slot = 0
       THEN /\ notified' = [notified EXCEPT ![w.owner] = TRUE]
            /\ UNCHANGED <<resolved, listedAsync>>
       ELSE /\ listedAsync' = [listedAsync EXCEPT ![w.owner] = @ - 1]
            /\ resolved' = [resolved EXCEPT ![w.owner] = Append(@, w.slot)]
            /\ UNCHANGED notified
    /\ UNCHANGED <<outcome, waitTimers>>

\* Mutant of notify_one: an idle owner of a notified promise is not woken.
notify_one_wakes_none(a, w) ==
    /\ waiters' = waiter_unlink(waiters, w)
    /\ IF w.slot = 0
       THEN /\ notified' = [notified EXCEPT ![w.owner] = TRUE]
            /\ cl' = agent_make_ready(cl, w.owner)
            /\ UNCHANGED <<resolved, listedAsync>>
       ELSE /\ listedAsync' = [listedAsync EXCEPT ![w.owner] = @ - 1]
            /\ resolved' = [resolved EXCEPT ![w.owner] = Append(@, w.slot)]
            /\ UNCHANGED <<cl, notified>>
    /\ UNCHANGED <<outcome, waitTimers>>

\* Mutant of notify_one: listed_async is decremented for every waiter.
notify_one_miscounts(a, w) ==
    /\ waiters' = waiter_unlink(waiters, w)
    /\ listedAsync' = [listedAsync EXCEPT ![w.owner] = @ - 1]
    /\ notified' = [notified EXCEPT ![w.owner] = TRUE]
    /\ cl' = agent_make_ready(cl, w.owner)
    /\ UNCHANGED <<resolved, outcome, waitTimers>>

\* agent_notify_one on the first entry w at the location.  A blocking waiter's
\* agent becomes ready, the notifier's own promise resolves at once, and
\* another agent's promise is left to that agent, which is woken if idle.
notify_one(a, w) ==
    LET o == w.owner
    IN  /\ waiters' = waiter_unlink(waiters, w)
        /\ IF w.slot = 0
           THEN /\ notified' = [notified EXCEPT ![o] = TRUE]
                /\ cl' = agent_make_ready(cl, o)
                /\ UNCHANGED <<resolved, listedAsync, outcome, waitTimers>>
           ELSE /\ listedAsync' = [listedAsync EXCEPT ![o] = @ - 1]
                /\ IF o = a
                   THEN /\ outcome' = [outcome EXCEPT ![o][w.slot] = "ok"]
                        /\ waitTimers' = [waitTimers EXCEPT ![o] = @ \ {w.slot}]
                        /\ UNCHANGED <<cl, resolved>>
                   ELSE /\ resolved' = [resolved EXCEPT ![o] = Append(@, w.slot)]
                        /\ cl' = IF cl.wakesOnWork[o]
                                 THEN agent_make_ready(cl, o) ELSE cl
                        /\ UNCHANGED <<outcome, waitTimers>>
                /\ UNCHANGED notified

NotifyOne(a) ==
    /\ Live(a, "notify")
    /\ \E i \in DOMAIN waiters :
        /\ waiters[i].loc = notifying
        /\ \A j \in 1..(i - 1) : waiters[j].loc # notifying
        /\ notify_one(a, waiters[i])
    /\ UNCHANGED <<threadVars, castVars, miscVars>>

\* The requested count is reached or no waiter is left.
NotifyEnd(a) ==
    /\ Live(a, "notify")
    /\ Go(a, "offer")
    /\ notifying' = NoLocation
    /\ UNCHANGED <<cl, op, waitVars, castVars, agents, callbacks, reports>>

-----------------------------------------------------------------------------
(* The $262.agent functions.                                                *)

cluster_reap(list) == SelectSeq(list, LAMBDA w : w \notin Finished)

agent_start(w) ==
    /\ Live(Main, "eval")
    /\ Starts(w)
    /\ op' = [op EXCEPT ![Main] = "start", ![w] = "first"]
    /\ agents' = Append(cluster_reap(agents), w)
    /\ UNCHANGED <<waitVars, castVars, callbacks, notifying, reports>>

agent_start_refused ==
    /\ Live(Main, "eval")
    /\ Refuses
    /\ agents' = cluster_reap(agents)
    /\ UNCHANGED <<op, waitVars, castVars, callbacks, notifying, reports>>

agent_thread(a) == Boots(a) /\ UNCHANGED <<op, waitVars, castVars, miscVars>>

\* agent_broadcast on the main agent.  The first n recipients get a copy;
\* n falls short of all of them when an allocation fails.
Recipients == SelectSeq(agents, LAMBDA w : cl.state[w] # "finished")

\* Mutant of wake_idle: a broadcast wakes nobody.
wake_nobody(c, list) == c

wake_idle(c, list) ==
    make_all_ready(c, SelectSeq(list, LAMBDA w : c.wakesOnWork[w]))

agent_broadcast(n) ==
    /\ Live(Main, "eval")
    /\ n \in 1..Len(Recipients)
    /\ \A w \in Workers : callbacks[w] + inbox[w] < MaxTimers    \* bound
    /\ LET list == SubSeq(Recipients, 1, n)
       IN  /\ inbox' = [w \in Agents |-> IF w \in ToSet(list) THEN inbox[w] + 1
                                                               ELSE inbox[w]]
           /\ remaining' = remaining + n
           /\ Suspend(Main, agent_block(wake_idle(cl, list), Main, FALSE, FALSE),
                      "broadcast")
    /\ UNCHANGED <<waitVars, receiver, leaving, miscVars>>

agent_sleep(a) ==
    /\ Live(a, "eval")
    /\ Suspend(a, agent_block(cl, a, TRUE, FALSE), "sleep")
    /\ UNCHANGED <<waitVars, castVars, miscVars>>

\* A yield point; the report is popped once the turn is back.
agent_get_report(a) ==
    /\ Live(a, "eval")
    /\ IF cl.ready # <<>>
       THEN Suspend(a, agent_requeue(cl, a), "getReport") /\ UNCHANGED reports
       ELSE reports' = Less(reports, 1) /\ UNCHANGED <<cl, threadVars>>
    /\ UNCHANGED <<waitVars, castVars, agents, callbacks, notifying>>

agent_report(a) ==
    /\ Live(a, "eval")
    /\ reports < MaxReports
    /\ reports' = reports + 1
    /\ UNCHANGED <<cl, threadVars, waitVars, castVars, agents, callbacks, notifying>>

agent_receive_broadcast(a) ==
    /\ Live(a, "eval")
    /\ receiver' = [receiver EXCEPT ![a] = TRUE]
    /\ UNCHANGED <<cl, threadVars, waitVars, inbox, remaining, leaving, miscVars>>

agent_leaving(a) ==
    /\ Live(a, "eval")
    /\ leaving' = [leaving EXCEPT ![a] = TRUE]
    /\ UNCHANGED <<cl, threadVars, waitVars, inbox, remaining, receiver, miscVars>>

-----------------------------------------------------------------------------
(* The agent's event loop: run_agent_turn.                                  *)

\* A script, job or callback ended: microtasks and checkpoints are part of it.
TaskEnds(a) ==
    /\ Live(a, "eval")
    /\ Go(a, "loop")
    /\ UNCHANGED <<cl, op, waitVars, castVars, miscVars>>

SetTimeout(a) ==
    /\ Live(a, "eval")
    /\ callbacks[a] + inbox[a] < MaxTimers                        \* bound
    /\ callbacks' = [callbacks EXCEPT ![a] = @ + 1]
    /\ UNCHANGED <<cl, threadVars, waitVars, castVars, agents, notifying, reports>>

\* agent_receive, an entry another agent notified: its promise resolves to
\* "ok" and its timeout job is canceled.
ReceiveResolved(a) ==
    /\ Live(a, "loop") \/ Live(a, "recv")
    /\ resolved[a] # <<>>
    /\ LET s == Head(resolved[a])
       IN  IF outcome[a][s] = "waiting"
           THEN /\ outcome' = [outcome EXCEPT ![a][s] = "ok"]
                /\ waitTimers' = [waitTimers EXCEPT ![a] = @ \ {s}]
           ELSE UNCHANGED <<outcome, waitTimers>>
    /\ resolved' = [resolved EXCEPT ![a] = Tail(@)]
    /\ Go(a, "recv")
    /\ UNCHANGED <<cl, op, waiters, listedAsync, notified, castVars, miscVars>>

\* agent_receive, a broadcast: take_broadcast accounts for the delivery and
\* deliver_broadcast turns it into a due timer callback.
ReceiveBroadcast(a) ==
    /\ Live(a, "loop") \/ Live(a, "recv")
    /\ resolved[a] = <<>> /\ receiver[a] /\ inbox[a] > 0
    /\ inbox' = [inbox EXCEPT ![a] = @ - 1]
    /\ remaining' = Less(remaining, 1)
    /\ cl' = broadcast_retrieved(cl, 1)
    /\ callbacks' = [callbacks EXCEPT ![a] = @ + 1]
    /\ Go(a, "recv")
    /\ UNCHANGED <<op, waitVars, receiver, leaving, agents, notifying, reports>>

ReceiveEnds(a) ==
    /\ Live(a, "recv")
    /\ ~agent_has_work(a)
    /\ Go(a, "eval")
    /\ UNCHANGED <<cl, op, waitVars, castVars, miscVars>>

NothingReceived(a) == Live(a, "loop") /\ ~agent_has_work(a)

HasTimer(a) == callbacks[a] > 0 \/ waitTimers[a] # {}

TimerTurn(a) ==
    /\ NothingReceived(a)
    /\ callbacks[a] > 0
    /\ callbacks' = [callbacks EXCEPT ![a] = @ - 1]
    /\ Go(a, "eval")
    /\ UNCHANGED <<cl, op, waitVars, castVars, agents, notifying, reports>>

\* Mutant of WaiterTimeout: the waiter that timed out stays in the store.
WaiterTimeoutStaysListed(a, s) ==
    /\ NothingReceived(a)
    /\ s \in waitTimers[a]
    /\ waitTimers' = [waitTimers EXCEPT ![a] = @ \ {s}]
    /\ IF outcome[a][s] = "waiting"
       THEN outcome' = [outcome EXCEPT ![a][s] = "timed-out"]
       ELSE UNCHANGED outcome
    /\ Go(a, "eval")
    /\ UNCHANGED <<cl, op, waiters, listedAsync, resolved, notified, castVars, miscVars>>

\* atomics_waiter_timeout: a waiter another agent has already taken from the
\* store is left alone, because its "ok" is on the way.
WaiterTimeout(a, s) ==
    /\ NothingReceived(a)
    /\ s \in waitTimers[a]
    /\ waitTimers' = [waitTimers EXCEPT ![a] = @ \ {s}]
    /\ IF outcome[a][s] = "waiting" /\ Listed(a, s) # {}
       THEN /\ waiters' = SelectSeq(waiters,
                                    LAMBDA w : ~(w.owner = a /\ w.slot = s))
            /\ listedAsync' = [listedAsync EXCEPT ![a] = @ - 1]
            /\ outcome' = [outcome EXCEPT ![a][s] = "timed-out"]
       ELSE UNCHANGED <<waiters, listedAsync, outcome>>
    /\ Go(a, "eval")
    /\ UNCHANGED <<cl, op, resolved, notified, castVars, miscVars>>

agent_keeps_alive(a) ==
    \/ agent_has_work(a)
    \/ a # Main /\ (listedAsync[a] > 0 \/ (receiver[a] /\ ~leaving[a]))
    \/ a = Main /\ listedAsync[a] > 0 /\ cluster_other_progresses(cl, a)

\* agent_idle: with no timer due, or with no timer but possible work.
AgentIdle(a) ==
    /\ NothingReceived(a)
    /\ HasTimer(a) \/ agent_keeps_alive(a)
    /\ Suspend(a, agent_block(cl, a, HasTimer(a), TRUE), "idle")
    /\ UNCHANGED <<waitVars, castVars, miscVars>>

LoopOver(a) == NothingReceived(a) /\ ~HasTimer(a) /\ ~agent_keeps_alive(a)

\* Mutant of agent_discard_work: dropped broadcasts are not accounted for.
discard_uncounted(a) ==
    /\ waiters' = SelectSeq(waiters, LAMBDA w : w.owner # a)
    /\ resolved' = [resolved EXCEPT ![a] = <<>>]
    /\ listedAsync' = [listedAsync EXCEPT ![a] = 0]
    /\ inbox' = [inbox EXCEPT ![a] = 0]
    /\ UNCHANGED <<cl, remaining>>

\* Mutant of agent_discard_work: the agent's waiters stay in the store.
discard_keeps_waiters(a) ==
    /\ resolved' = [resolved EXCEPT ![a] = <<>>]
    /\ listedAsync' = [listedAsync EXCEPT ![a] = 0]
    /\ inbox' = [inbox EXCEPT ![a] = 0]
    /\ remaining' = Less(remaining, inbox[a])
    /\ cl' = broadcast_retrieved(cl, inbox[a])
    /\ UNCHANGED waiters

\* agent_discard_work drops what an agent that stops evaluating still holds.
agent_discard_work(a) ==
    /\ waiters' = SelectSeq(waiters, LAMBDA w : w.owner # a)
    /\ resolved' = [resolved EXCEPT ![a] = <<>>]
    /\ listedAsync' = [listedAsync EXCEPT ![a] = 0]
    /\ inbox' = [inbox EXCEPT ![a] = 0]
    /\ remaining' = Less(remaining, inbox[a])
    /\ cl' = broadcast_retrieved(cl, inbox[a])

WorkerDone(a) ==
    /\ a # Main
    /\ LoopOver(a)
    /\ agent_discard_work(a)
    /\ Go(a, "exit")
    /\ UNCHANGED <<op, outcome, notified, waitTimers, receiver, leaving, miscVars>>

\* The realm, with its promises and its callback, is destroyed while the agent
\* still holds the turn, and the last critical section of agent_thread passes
\* the turn on for good.
ThreadEnds(a) ==
    /\ Live(a, "exit")
    /\ outcome' = [outcome EXCEPT ![a] = [s \in Slots |-> "none"]]
    /\ receiver' = [receiver EXCEPT ![a] = FALSE]
    /\ leaving' = [leaving EXCEPT ![a] = FALSE]
    /\ Finishes(a)
    /\ UNCHANGED <<op, waiters, resolved, listedAsync, notified, waitTimers,
                   inbox, remaining, miscVars>>

\* An abrupt completion of an agent ends the process.
agent_report_failure(a) ==
    /\ a # Main
    /\ Live(a, "eval")
    /\ cl' = [cl EXCEPT !.process = "failed"]
    /\ UNCHANGED <<threadVars, waitVars, castVars, miscVars>>

\* Mutant of AllFinished: the states of the agents are not looked at.
NotChecked == TRUE

\* agent_context_destroy: the main program is over, normally or abruptly.  It
\* keeps the turn; the cluster is freed when every agent has finished.
AllFinished == \A w \in ToSet(agents) : cl.state[w] = "finished"

context_destroy ==
    /\ LoopOver(Main) \/ Live(Main, "eval")
    /\ agent_discard_work(Main)
    /\ Go(Main, "exit")
    /\ agents' = IF AllFinished THEN <<>> ELSE agents
    /\ UNCHANGED <<op, outcome, notified, waitTimers, receiver, leaving,
                   callbacks, notifying, reports>>

ProcessEnds ==
    /\ Live(Main, "exit")
    /\ cl' = [cl EXCEPT !.process = "ended"]
    /\ UNCHANGED <<threadVars, waitVars, castVars, miscVars>>

Terminated == cl.process # "live" /\ UNCHANGED vars

-----------------------------------------------------------------------------

Atomics(a) ==
    \/ OfferTurn(a)
    \/ \E l \in Locations : AtomicsNotify(a, l)
    \/ \E l \in Locations, finite \in BOOLEAN : AtomicsWait(a, l, finite)
    \/ \E s \in Slots, l \in Locations, finite \in BOOLEAN :
            AtomicsWaitAsync(a, s, l, finite)

Notifying(a) == NotifyOne(a) \/ NotifyEnd(a)

HostCall(a) ==
    \/ agent_sleep(a)
    \/ a = Main /\ agent_get_report(a)
    \/ a # Main /\ (agent_report(a) \/ agent_receive_broadcast(a) \/ agent_leaving(a))

MainCall ==
    \/ \E w \in Workers : agent_start(w)
    \/ agent_start_refused
    \/ \E n \in 1..Cardinality(Workers) : agent_broadcast(n)

Loop(a) ==
    \/ ReceiveResolved(a) \/ ReceiveBroadcast(a) \/ ReceiveEnds(a)
    \/ TimerTurn(a) \/ \E s \in Slots : WaiterTimeout(a, s)
    \/ AgentIdle(a) \/ WorkerDone(a) \/ ThreadEnds(a)

Evaluate(a) == TaskEnds(a) \/ SetTimeout(a) \/ agent_report_failure(a)

Sleeping(a) == WakeUp(a) \/ DeadlinePasses(a)

Next ==
    \/ \E a \in Agents : \/ Sleeping(a) \/ Return(a) \/ agent_thread(a)
                         \/ Atomics(a) \/ Notifying(a) \/ HostCall(a)
                         \/ Evaluate(a) \/ Loop(a)
    \/ MainCall
    \/ context_destroy
    \/ ProcessEnds
    \/ Terminated

Spec == Init /\ [][Next]_vars

-----------------------------------------------------------------------------
(* Properties.                                                              *)

Operations == {"none", "first", "start", "broadcast", "wait", "timedWait",
               "sleep", "idle", "yield", "getReport"}

\* Every variable has its type: the fields of the C structs.
TypeOK ==
    /\ TurnTypeOK
    /\ op \in [Agents -> Operations]
    /\ agents \in Seq(Workers)
    /\ waiters \in Seq([owner : Agents, slot : 0..MaxAsync, loc : Locations])
    /\ resolved \in [Agents -> Seq(Slots)]
    /\ listedAsync \in [Agents -> Nat]
    /\ outcome \in [Agents -> [Slots -> {"none", "waiting", "ok", "timed-out"}]]
    /\ notified \in [Agents -> BOOLEAN]
    /\ waitTimers \in [Agents -> SUBSET Slots]
    /\ callbacks \in [Agents -> Nat]
    /\ inbox \in [Agents -> Nat]
    /\ remaining \in Nat
    /\ receiver \in [Agents -> BOOLEAN]
    /\ leaving \in [Agents -> BOOLEAN]
    /\ notifying \in Locations \cup {NoLocation}
    /\ reports \in Nat


\* An idle event loop never sleeps on work it could take: whoever hands over
\* the work wakes it, and the loop tests for work before it blocks.
IdleHasNoWork ==
    \A a \in Agents :
        cl.state[a] = "blocked" /\ cl.wakesOnWork[a] => ~agent_has_work(a)

\* The WaiterList store holds no dangling waiter: a stack waiter is listed only
\* while its agent sleeps in Atomics.wait, an asynchronous one only while its
\* promise is pending, and listed_async counts the latter.
WaiterStore ==
    /\ IsInjective(waiters)
    /\ \A w \in ToSet(waiters) :
        IF w.slot = 0
        THEN /\ at[w.owner] = "asleep" /\ op[w.owner] \in {"wait", "timedWait"}
             /\ cl.state[w.owner] = "blocked" /\ ~notified[w.owner]
        ELSE /\ outcome[w.owner][w.slot] = "waiting"
             /\ w.slot \notin ToSet(resolved[w.owner])
    /\ \A a \in Agents : listedAsync[a] =
            Cardinality({w \in ToSet(waiters) : w.owner = a /\ w.slot # 0})

\* Atomics.wait without a timeout returns only because it was notified, and a
\* wait that has been notified never leaves as "timed-out" (its waiter is gone
\* from the store, so nobody else can be counted for it).
WaitEndsForItsReason ==
    \A a \in Agents :
        /\ at[a] = "awake" /\ op[a] = "wait" => notified[a]
        /\ at[a] = "asleep" /\ notified[a] => cl.state[a] \in {"ready", "running"}

\* $262.agent.broadcast returns only when every recipient has retrieved the
\* broadcast or finished, and the counter always equals what is undelivered.
BroadcastComplete ==
    /\ remaining = FoldSet(LAMBDA a, n : inbox[a] + n, 0, Agents)
    /\ at[Main] \in Holding => remaining = 0

\* $262.agent.start returns only after the new agent has held the turn.
StartRunsAgentFirst ==
    at[Main] \in Holding =>
        \A w \in Workers : at[w] # "boot" /\ ~(at[w] = "asleep" /\ op[w] = "first")

\* The cluster is freed only when no agent thread can touch it any more.
NoUseAfterFree ==
    at[Main] = "exit" /\ agents = <<>> =>
        \A w \in Workers : at[w] \in {"none", "gone"}

\* A waitAsync promise settles once, and one another agent has notified (its
\* entry is on the way to the owner) never settles as "timed-out".
WaitAsyncSettlesOnce ==
    [][\A a \in Agents, s \in Slots :
        /\ outcome[a][s] \in {"ok", "timed-out"} /\ at'[a] # "gone" =>
                outcome'[a][s] = outcome[a][s]
        /\ s \in ToSet(resolved[a]) /\ outcome'[a][s] # outcome[a][s] =>
                outcome'[a][s] = "ok"]_vars

-----------------------------------------------------------------------------
(* Liveness.  Threads are scheduled and deadlines pass.  An evaluating agent *)
(* is assumed to reach an Atomics operation again and again or to stop       *)
(* evaluating: the code passes the turn at no other point, so a program that *)
(* spins without one keeps it.                                               *)

ThreadStep(a) == \/ WakeUp(a) \/ DeadlinePasses(a) \/ Return(a)
                 \/ agent_thread(a) \/ NotifyEnd(a) \/ Loop(a)
                 \/ (a = Main /\ (ProcessEnds \/ (LoopOver(a) /\ context_destroy)))

LiveSpec == /\ Spec
            /\ \A a \in Agents : WF_vars(ThreadStep(a)) /\ SF_vars(OfferTurn(a))

\* The main agent released its context or the process has ended.
Over == cl.process # "live" \/ at[Main] = "exit"

\* No ready agent starves: the turn goes to the longest-ready agent.
ReadyRuns ==
    \A a \in Agents : cl.state[a] = "ready" ~> (cl.state[a] = "running" \/ Over)

\* $262.agent.start always returns.
StartReturns == op[Main] = "start" ~> (op[Main] # "start" \/ Over)

=============================================================================
