------------------------------ MODULE AgentTurn ------------------------------
(***************************************************************************)
(* The turn of an agent cluster (runtime_agent.c): which thread evaluates, *)
(* who is ready, who sleeps in its clock adapter, and how the turn passes. *)
(*                                                                         *)
(* This is what the cluster promises about scheduling, for any programs:   *)
(* the holder of the turn may move, wake others, block, yield, start an    *)
(* agent or finish at any time.  AgentCluster adds the WaiterList store,   *)
(* broadcasts and the event loop that decide when it does, and implements  *)
(* this specification.                                                     *)
(*                                                                         *)
(* One action is one critical section of `cluster->lock'.  Threads without *)
(* the turn run the sections in which a deadline passes, an adapter wakes  *)
(* or a new thread makes itself ready.  Time is abstract: a deadline may   *)
(* pass at any moment.                                                     *)
(***************************************************************************)
EXTENDS Naturals, Sequences, FiniteSets

CONSTANTS Workers,      \* the agents $262.agent.start can create
          Main,         \* the agent of the main realm
          NoAgent       \* a NULL Agent *

Agents == Workers \cup {Main}

ASSUME TurnAssumption ==
    /\ Main \notin Workers
    /\ NoAgent \notin Workers \cup {Main}

VARIABLES
    cl,          \* scheduling fields of the AgentCluster and of its Agents
    at           \* where each agent's thread is

turnVars == <<cl, at>>

AgentStates == {"none", "starting", "ready", "running", "blocked", "finished"}

ClusterType == [state : [Agents -> AgentStates],
                running : Agents \cup {NoAgent},
                ready : Seq(Agents),
                hasDeadline : [Agents -> BOOLEAN],
                wakesOnWork : [Agents -> BOOLEAN],
                wake : [Agents -> BOOLEAN],
                process : {"live", "stall", "failed", "ended"}]

(* A thread is                                                              *)
(*   none    not created            boot    before its first critical section*)
(*   eval    evaluating user code   offer   about to offer the turn          *)
(*   notify  inside Atomics.notify  asleep  in its clock adapter's wait      *)
(*   awake   holds the turn again   loop    at the top of run_agent_turn     *)
(*   recv    took incoming work     exit    done evaluating, still holds turn*)
(*   gone    returned                                                        *)

\* The places in which a thread runs realm code or touches shared memory.
Holding == {"eval", "offer", "notify", "awake", "loop", "recv", "exit"}
Places  == Holding \cup {"none", "boot", "asleep", "gone"}

Queued(q, x) == \E i \in DOMAIN q : q[i] = x
Distinct(q)  == \A i, j \in DOMAIN q : q[i] = q[j] => i = j

-----------------------------------------------------------------------------
(* Pure functions of the scheduling record, as the C helpers are functions  *)
(* of the AgentCluster they are given.                                      *)

\* Wakes an agent's clock adapter; the wake stays latched until a wait takes it.
agent_signal(c, a) == [c EXCEPT !.wake[a] = TRUE]

\* Mutant of ready_push: the agent goes to the front of the queue.
ready_push_front(c, a) == [c EXCEPT !.ready = <<a>> \o @]

ready_push(c, a) == [c EXCEPT !.ready = Append(@, a)]

\* Mutant of cluster_dispatch: the new holder's adapter is not woken.
cluster_dispatch_silent(c) ==
    IF c.running # NoAgent \/ c.ready = <<>>
    THEN c
    ELSE [c EXCEPT !.state[Head(c.ready)] = "running",
                   !.running = Head(c.ready),
                   !.ready = Tail(@)]

cluster_dispatch(c) ==
    IF c.running # NoAgent \/ c.ready = <<>>
    THEN c
    ELSE agent_signal([c EXCEPT !.state[Head(c.ready)] = "running",
                                !.running = Head(c.ready),
                                !.ready = Tail(@)],
                      Head(c.ready))

\* Mutant of agent_make_ready: the state of the agent is not tested.
agent_make_ready_always(c, a) ==
    cluster_dispatch(ready_push([c EXCEPT !.state[a] = "ready",
                                          !.hasDeadline[a] = FALSE,
                                          !.wakesOnWork[a] = FALSE], a))

agent_make_ready(c, a) ==
    IF c.state[a] # "blocked"
    THEN c
    ELSE cluster_dispatch(ready_push([c EXCEPT !.state[a] = "ready",
                                               !.hasDeadline[a] = FALSE,
                                               !.wakesOnWork[a] = FALSE], a))


cluster_other_progresses(c, self) ==
    \E a \in Agents \ {self} :
        \/ c.state[a] \in {"starting", "ready", "running"}
        \/ c.state[a] = "blocked" /\ c.hasDeadline[a]

\* cluster_print_stall and exit(EXIT_FAILURE) are the process state "stall".
cluster_check_progress(c) ==
    IF \/ c.running # NoAgent
       \/ c.ready # <<>>
       \/ cluster_other_progresses(c, NoAgent)
       \/ c.state[Main] = "finished"
    THEN c
    ELSE IF c.state[Main] = "blocked" /\ c.wakesOnWork[Main]
         THEN agent_make_ready(c, Main)
         ELSE [c EXCEPT !.process = "stall"]

\* Mutant of agent_block: progress is not checked.
agent_block_unchecked(c, a, deadline, work) ==
    cluster_dispatch([c EXCEPT !.state[a] = "blocked",
                               !.hasDeadline[a] = deadline,
                               !.wakesOnWork[a] = work,
                               !.running = NoAgent])

\* The part of agent_block that gives up the turn; the wait is `await' below.
agent_block(c, a, deadline, work) ==
    LET freed == cluster_dispatch([c EXCEPT !.state[a] = "blocked",
                                            !.hasDeadline[a] = deadline,
                                            !.wakesOnWork[a] = work,
                                            !.running = NoAgent])
    IN  IF deadline THEN freed ELSE cluster_check_progress(freed)

\* Mutant of agent_requeue: the running agent is queued after it was cleared.
agent_requeue_cleared(c, a) ==
    LET freed == [c EXCEPT !.state[a] = "ready", !.running = NoAgent]
    IN  cluster_dispatch(ready_push(freed, freed.running))

\* oseo_internal_agent_yield with another agent ready.
agent_requeue(c, a) ==
    cluster_dispatch([ready_push(c, a) EXCEPT !.state[a] = "ready",
                                              !.running = NoAgent])

\* The turn holder makes the blocked agents of q ready, one after another.
make_all_ready(c, q) ==
    [c EXCEPT !.state = [x \in Agents |-> IF Queued(q, x) THEN "ready" ELSE @[x]],
              !.hasDeadline = [x \in Agents |-> ~Queued(q, x) /\ @[x]],
              !.wakesOnWork = [x \in Agents |-> ~Queued(q, x) /\ @[x]],
              !.ready = @ \o q]

\* The last critical section of an agent thread.
agent_finish(c, a) ==
    cluster_check_progress(cluster_dispatch(
        [c EXCEPT !.state[a] = "finished", !.running = NoAgent]))

\* The first test of agent_await_turn, made before the lock is released.
await(c, a) == IF c.running = a THEN "awake" ELSE "asleep"

-----------------------------------------------------------------------------

TurnInit ==
    /\ cl = [state |-> [a \in Agents |-> IF a = Main THEN "running" ELSE "none"],
             running |-> Main,
             ready |-> <<>>,
             hasDeadline |-> [a \in Agents |-> FALSE],
             wakesOnWork |-> [a \in Agents |-> FALSE],
             wake |-> [a \in Agents |-> FALSE],
             process |-> "live"]
    /\ at = [a \in Agents |-> IF a = Main THEN "eval" ELSE "none"]

Live(a, place) == cl.process = "live" /\ at[a] = place

Go(a, place) == at' = [at EXCEPT ![a] = place]

\* The cluster takes the state c and the thread of a waits for the turn in it.
Park(a, c) == cl' = c /\ Go(a, await(c, a))

\* Mutant of Wakes: a wake is taken for the turn itself.
WakesTrusted(a) ==
    /\ Live(a, "asleep")
    /\ cl.wake[a]
    /\ cl' = [cl EXCEPT !.wake[a] = FALSE]
    /\ Go(a, "awake")

\* The adapter was woken: the wake is taken and the turn tested again.
Wakes(a) ==
    /\ Live(a, "asleep")
    /\ cl.wake[a]
    /\ Park(a, [cl EXCEPT !.wake[a] = FALSE])

\* The deadline of a blocked agent passed and the agent makes itself ready.
Expires(a) ==
    /\ Live(a, "asleep")
    /\ cl.state[a] = "blocked" /\ cl.hasDeadline[a]
    /\ Park(a, agent_make_ready(cl, a))

\* Mutant of Boots: the main agent is made ready first.
BootsAfterMain(a) ==
    /\ Live(a, "boot")
    /\ LET main == agent_make_ready(cl, Main)
       IN  Park(a, cluster_dispatch(ready_push([main EXCEPT !.state[a] = "ready"], a)))

\* Mutant of Boots: the main agent is not made ready.
BootsAlone(a) ==
    /\ Live(a, "boot")
    /\ Park(a, cluster_dispatch(ready_push([cl EXCEPT !.state[a] = "ready"], a)))

\* The first critical section of agent_thread: the agent queues itself ahead
\* of the main agent that waits for it.
Boots(a) ==
    /\ Live(a, "boot")
    /\ LET pushed == ready_push([cl EXCEPT !.state[a] = "ready"], a)
       IN  Park(a, cluster_dispatch(agent_make_ready(pushed, Main)))

Hold(a) == cl.process = "live" /\ at[a] \in Holding

\* The holder runs on, and may make another agent ready.
Runs(a) ==
    /\ Hold(a)
    /\ \E p \in Holding : Go(a, p)
    /\ \/ UNCHANGED cl
       \/ \E b \in Agents \ {a} : cl' = agent_make_ready(cl, b)

\* Any order in which a call of the holder can make blocked agents ready.
WakeOrders(S) ==
    {q \in UNION {[1..n -> S] : n \in 0..Cardinality(S)} : Distinct(q)}

Blocks(a) ==
    /\ Hold(a)
    /\ \E q \in WakeOrders({b \in Agents : cl.state[b] = "blocked"}),
          deadline, work \in BOOLEAN :
            Park(a, agent_block(make_all_ready(cl, q), a, deadline, work))

Yields(a) ==
    /\ Hold(a)
    /\ cl.ready # <<>>
    /\ Park(a, agent_requeue(cl, a))

\* Finished agents are reaped before a start: their records are freed, and the
\* model may use their names again.
Finished == {w \in Workers : cl.state[w] = "finished"}

Reap(s) == [a \in Agents |-> IF a \in Finished THEN "none" ELSE s[a]]

\* agent_start: the new thread starts and the main agent blocks until that
\* thread has made it ready.
Starts(w) ==
    /\ Hold(Main)
    /\ cl.state[w] \in {"none", "finished"}
    /\ LET c == [cl EXCEPT !.state = [Reap(@) EXCEPT ![w] = "starting"],
                           !.wake[w] = FALSE]
           b == agent_block(c, Main, FALSE, FALSE)
       IN  /\ cl' = b
           /\ at' = [Reap(at) EXCEPT ![w] = "boot", ![Main] = await(b, Main)]

\* agent_start that fails after the reap: no such program, no memory, no thread.
Refuses ==
    /\ Hold(Main)
    /\ cl' = [cl EXCEPT !.state = Reap(@)]
    /\ at' = Reap(at)

Finishes(a) ==
    /\ a # Main
    /\ Hold(a)
    /\ cl' = agent_finish(cl, a)
    /\ Go(a, "gone")

\* An agent's failure or the end of the main program ends the process.
Ends(a) ==
    /\ Hold(a)
    /\ \E p \in {"failed", "ended"} : cl' = [cl EXCEPT !.process = p]
    /\ UNCHANGED at

TurnNext ==
    \/ \E a \in Agents : \/ Wakes(a) \/ Expires(a) \/ Boots(a) \/ Runs(a)
                         \/ Blocks(a) \/ Yields(a) \/ Finishes(a) \/ Ends(a)
    \/ \E w \in Workers : Starts(w)
    \/ Refuses
    \/ cl.process # "live" /\ UNCHANGED turnVars

TurnSpec == TurnInit /\ [][TurnNext]_turnVars

-----------------------------------------------------------------------------
(* Properties.                                                              *)

\* The scheduling fields and the places of the threads have their types.
TurnTypeOK == cl \in ClusterType /\ at \in [Agents -> Places]

\* Agents share one executing thread (runtime_agent.c:41): a thread that runs
\* realm code or touches shared memory is the one the cluster gave the turn.
\* A wake left latched in an adapter must never let a second thread through.
TurnExclusive == \A a \in Agents : at[a] \in Holding => cl.running = a

\* The ready list, the running agent and the agents' states agree: nobody is
\* queued twice, dropped from the queue, or queued while it runs or blocks.
ReadyQueue ==
    /\ Distinct(cl.ready)
    /\ \A a \in Agents :
        /\ Queued(cl.ready, a) <=> cl.state[a] = "ready"
        /\ cl.running = a <=> cl.state[a] = "running"

\* The holder of the turn is evaluating or has a wake waiting in its adapter:
\* a wake sent between the unlock and the clock wait is never lost.
NoLostWakeup ==
    \A a \in Agents : cl.running = a => at[a] \in Holding \/ cl.wake[a]

\* A free turn means that no agent is ready, and always has something to wait
\* for, a thread that starts or one that sleeps until a deadline: the cluster
\* hangs in no state (it reports a stall instead).
NeverHangs ==
    (cl.process = "live" /\ cl.running = NoAgent) =>
        /\ cl.ready = <<>>
        /\ \E a \in Agents : \/ cl.state[a] = "starting" /\ at[a] = "boot"
                             \/ /\ cl.state[a] = "blocked" /\ cl.hasDeadline[a]
                                /\ at[a] = "asleep"

=============================================================================
